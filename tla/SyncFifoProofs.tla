---------------------------- MODULE SyncFifoProofs ----------------------------
(***************************************************************************)
(* Proofs about the synchronous FIFO for every depth and every set of      *)
(* words: the inductive invariant IInv, and that the circuit implements    *)
(* the queue FifoQueue under the mapping Contents.                         *)
(***************************************************************************)
EXTENDS SyncFifo, SequenceTheorems, TLAPS

(* A cycle, with the environment's promise not to read an empty FIFO.      *)
LegalClock(we, re, wd) == (re => ~fifo_empty) /\ Clock(we, re, wd)

-----------------------------------------------------------------------------
(***************************************************************************)
(* The inductive invariant.                                                *)
(***************************************************************************)

(* One pointer step stays on the ring and moves to another slot.           *)
LEMMA IncPointer ==
    ASSUME NEW p \in Pointers
    PROVE  /\ Inc(p) \in Pointers
           /\ Inc(p).idx = NextIdx(p.idx)
           /\ NextIdx(p.idx) \in Slots /\ NextIdx(p.idx) # p.idx
           /\ Inc(p).wrap = IF p.idx = Depth - 1 THEN ~p.wrap ELSE p.wrap
  <1>1. NextIdx(p.idx) \in Slots /\ NextIdx(p.idx) # p.idx
    BY DepthAssumption DEF NextIdx, Slots, Pointers
  <1>2. QED BY <1>1, Zenon DEF Inc, Pointers

(* What one legal cycle does to the pointers, the array and the output.    *)
LEMMA ClockStep ==
    ASSUME IInv, NEW we \in BOOLEAN, NEW re \in BOOLEAN, NEW wd \in Data,
           LegalClock(we, re, wd)
    PROVE  /\ fifo_wptr' = IF we /\ ~fifo_full THEN Inc(fifo_wptr) ELSE fifo_wptr
           /\ fifo_rptr' = IF re THEN Inc(fifo_rptr) ELSE fifo_rptr
           /\ fifo_ra(re) = fifo_rptr'.idx
           /\ \A s \in Slots : fifo_array'[s] = IF we /\ ~fifo_full /\ s = fifo_wptr.idx
                                                THEN wd ELSE fifo_array[s]
           /\ TypeOK'
           /\ fifo_rd' = fifo_array'[fifo_rptr'.idx]
  <1> USE DEF IInv, TypeOK
  <1>1. fifo_wptr' = IF we /\ ~fifo_full THEN Inc(fifo_wptr) ELSE fifo_wptr
    BY DEF LegalClock, Clock, Write, NoWrite
  <1>2. fifo_rptr' = IF re THEN Inc(fifo_rptr) ELSE fifo_rptr
    BY DEF LegalClock, Clock, Read
  <1>3. fifo_ra(re) = fifo_rptr'.idx
    BY <1>2, IncPointer DEF fifo_ra
  <1>4. /\ fifo_wptr' \in Pointers /\ fifo_rptr' \in Pointers
        /\ fifo_wptr.idx \in Slots /\ fifo_rptr'.idx \in Slots
    BY <1>1, <1>2, IncPointer DEF Pointers
  <1>5. /\ fifo_array' \in [Slots -> Data]
        /\ \A s \in Slots : fifo_array'[s] = IF we /\ ~fifo_full /\ s = fifo_wptr.idx
                                             THEN wd ELSE fifo_array[s]
    BY <1>4 DEF LegalClock, Clock, Write, NoWrite
  <1>6. fifo_rd' = fifo_array'[fifo_rptr'.idx]
    BY <1>3, <1>4, <1>5 DEF LegalClock, Clock, Output
  <1>7. fifo_rd' \in Data
    BY <1>4, <1>5, <1>6
  <1>8. QED BY <1>1, <1>2, <1>3, <1>4, <1>5, <1>6, <1>7

(* A legal cycle never lets a pointer pass the other.                      *)
LEMMA LapStep ==
    ASSUME IInv, NEW we \in BOOLEAN, NEW re \in BOOLEAN, NEW wd \in Data,
           LegalClock(we, re, wd)
    PROVE  PointersWithinOneLap'
  <1>1. fifo_wptr \in Pointers /\ fifo_rptr \in Pointers
    BY DEF IInv, TypeOK
  <1>2. re => fifo_wptr.wrap # fifo_rptr.wrap \/ fifo_wptr.idx # fifo_rptr.idx
    BY <1>1 DEF LegalClock, fifo_empty, Pointers
  <1>3. QED
    BY <1>1, <1>2, ClockStep, IncPointer, DepthAssumption
       DEF IInv, PointersWithinOneLap, fifo_full, NextIdx, Slots, Pointers

LEMMA InvInit == Init => IInv
  <1> SUFFICES ASSUME Init PROVE IInv
    OBVIOUS
  <1>1. 0 \in Slots
    BY DepthAssumption DEF Slots
  <1>2. TypeOK
    BY <1>1, ZeroAssumption DEF Init, TypeOK, Pointers
  <1>3. PointersWithinOneLap /\ HeadShown
    BY DEF Init, PointersWithinOneLap, HeadShown, fifo_empty
  <1>4. QED BY <1>2, <1>3 DEF IInv

LEMMA InvStep == IInv /\ [Next]_vars => IInv'
  <1> SUFFICES ASSUME IInv, [Next]_vars PROVE IInv'
    OBVIOUS
  <1>1. CASE Next
    <2>1. PICK we \in BOOLEAN, re \in BOOLEAN, wd \in Data : LegalClock(we, re, wd)
      BY <1>1 DEF Next, LegalClock
    <2>2. TypeOK' /\ HeadShown'
      BY <2>1, ClockStep DEF HeadShown
    <2>3. PointersWithinOneLap'
      BY <2>1, LapStep
    <2>4. QED BY <2>2, <2>3 DEF IInv
  <1>2. CASE UNCHANGED vars
    BY <1>2 DEF vars, IInv, TypeOK, PointersWithinOneLap, HeadShown, fifo_empty
  <1>3. QED BY <1>1, <1>2

(* In every reachable state of a FIFO of any depth the types hold, neither *)
(* pointer has overtaken the other, and fifo_rd (sync_fifo.v:54-57) shows  *)
(* the oldest word whenever fifo_empty is low.                             *)
THEOREM Invariance == Spec => []IInv
  BY InvInit, InvStep, PTL DEF Spec

-----------------------------------------------------------------------------
(***************************************************************************)
(* The refinement.                                                         *)
(***************************************************************************)

(* The occupancy computed from the pointers agrees with the two flags.     *)
CountOK == /\ Count \in 0 .. Depth
           /\ fifo_empty <=> Count = 0
           /\ fifo_full <=> Count = Depth

LEMMA CountFacts == IInv => CountOK
  <1> SUFFICES ASSUME IInv PROVE CountOK
    OBVIOUS
  <1>1. /\ fifo_wptr.idx \in 0 .. Depth - 1 /\ fifo_rptr.idx \in 0 .. Depth - 1
        /\ fifo_empty <=> fifo_wptr.wrap = fifo_rptr.wrap /\ fifo_wptr.idx = fifo_rptr.idx
    BY DEF IInv, TypeOK, Pointers, Slots, fifo_empty
  <1>2. QED
    BY <1>1, DepthAssumption DEF IInv, PointersWithinOneLap, CountOK, Count, fifo_full

(* The mapped queue is a sequence of words as long as the occupancy.       *)
ContentsOK == /\ Contents \in Seq(Data)
              /\ Len(Contents) = Count
              /\ \A i \in 1 .. Count : /\ SlotOf(i) \in Slots
                                       /\ Contents[i] = fifo_array[SlotOf(i)]

LEMMA ContentsSeq == IInv => ContentsOK
  <1> SUFFICES ASSUME IInv PROVE ContentsOK
    OBVIOUS
  <1>1. Count \in Nat /\ Count <= Depth
    BY CountFacts, DepthAssumption DEF CountOK
  <1>2. \A i \in 1 .. Count : SlotOf(i) \in Slots
    BY <1>1, DepthAssumption DEF IInv, TypeOK, Pointers, Slots, SlotOf
  <1>3. \A i \in 1 .. Count : fifo_array[SlotOf(i)] \in Data
    BY <1>2 DEF IInv, TypeOK
  <1>4. Contents \in [1 .. Count -> Data]
    BY <1>3 DEF Contents
  <1>5. Contents \in Seq(Data)
    BY <1>1, <1>4, SeqDef
  <1>6. Len(Contents) = Count
    BY <1>1, <1>4, <1>5, LenProperties
  <1>7. QED BY <1>2, <1>5, <1>6 DEF Contents, ContentsOK

(* A cycle shifts the positions of the kept words by one when it pops, and *)
(* a write lands in the slot behind the newest word, which no kept word    *)
(* occupies.                                                               *)
LEMMA SlotStep ==
    ASSUME IInv, NEW we \in BOOLEAN, NEW re \in BOOLEAN, NEW wd \in Data,
           LegalClock(we, re, wd)
    PROVE  /\ Count' = Count + (IF we /\ ~fifo_full THEN 1 ELSE 0) - (IF re THEN 1 ELSE 0)
           /\ \A i \in 1 .. Count : re /\ i > 1 => SlotOf(i - 1)' = SlotOf(i)
           /\ ~re => \A i \in 1 .. Count : SlotOf(i)' = SlotOf(i)
           /\ we /\ ~fifo_full =>
                /\ \A i \in Nat : i = Count' => SlotOf(i)' = fifo_wptr.idx
                /\ \A i \in 1 .. Count : SlotOf(i) # fifo_wptr.idx
  <1> DEFINE w == fifo_wptr
             r == fifo_rptr
  <1>1. /\ w \in Pointers /\ r \in Pointers
        /\ w.idx \in 0 .. Depth - 1 /\ r.idx \in 0 .. Depth - 1
        /\ w.wrap \in BOOLEAN /\ r.wrap \in BOOLEAN
    BY DEF IInv, TypeOK, Pointers, Slots
  <1>2. re => Count > 0
    BY CountFacts, DepthAssumption DEF LegalClock, CountOK
  <1>3. /\ w' = IF we /\ ~fifo_full THEN Inc(w) ELSE w
        /\ r' = IF re THEN Inc(r) ELSE r
    BY ClockStep
  <1>4. /\ Inc(w).idx = NextIdx(w.idx) /\ Inc(r).idx = NextIdx(r.idx)
        /\ Inc(w).wrap = IF w.idx = Depth - 1 THEN ~w.wrap ELSE w.wrap
        /\ Inc(r).wrap = IF r.idx = Depth - 1 THEN ~r.wrap ELSE r.wrap
    BY <1>1, IncPointer
  <1>5. Count' = Count + (IF we /\ ~fifo_full THEN 1 ELSE 0) - (IF re THEN 1 ELSE 0)
    BY <1>1, <1>2, <1>3, <1>4, DepthAssumption
       DEF Count, NextIdx, fifo_full, IInv, PointersWithinOneLap
  <1>6. \A i \in 1 .. Count : re /\ i > 1 => SlotOf(i - 1)' = SlotOf(i)
    BY <1>1, <1>3, <1>4, CountFacts, DepthAssumption DEF SlotOf, NextIdx, CountOK
  <1>7. ~re => \A i \in 1 .. Count : SlotOf(i)' = SlotOf(i)
    BY <1>3 DEF SlotOf
  <1>8. ASSUME we, ~fifo_full, NEW i \in Nat, i = Count'
        PROVE  SlotOf(i)' = w.idx
    <2>1. i = IF re THEN Count ELSE Count + 1
      BY <1>1, <1>5, <1>8, CountFacts, DepthAssumption DEF CountOK
    <2>2. SlotOf(i)' = IF r'.idx + i - 1 < Depth THEN r'.idx + i - 1
                                                 ELSE r'.idx + i - 1 - Depth
      BY DEF SlotOf
    <2>3. r'.idx = IF re THEN NextIdx(r.idx) ELSE r.idx
      BY <1>3, <1>4
    <2>4. r'.idx + i = IF re /\ r.idx = Depth - 1 THEN Count ELSE r.idx + Count + 1
      BY <1>1, <2>1, <2>3, CountFacts, DepthAssumption DEF NextIdx, CountOK
    <2>5. r'.idx \in 0 .. Depth - 1
      BY <1>1, <2>3, DepthAssumption DEF NextIdx
    <2>6. QED
      BY <1>1, <1>2, <1>8, <2>2, <2>4, <2>5, DepthAssumption
         DEF Count, fifo_full, IInv, PointersWithinOneLap
  <1>9. ASSUME ~fifo_full
        PROVE  \A i \in 1 .. Count : SlotOf(i) # w.idx
    BY <1>9, <1>1, DepthAssumption
       DEF SlotOf, Count, fifo_full, IInv, PointersWithinOneLap
  <1>10. QED BY <1>5, <1>6, <1>7, <1>8, <1>9

(* One edge of the abstract queue, read off position by position.          *)
EdgeOK(s, n, we, re, wd) ==
    LET push == we /\ n # Depth
        kept == IF re THEN n - 1 ELSE n
        after == Queue!After(s, we, re, wd)
    IN  /\ after \in Seq(Data)
        /\ kept \in Nat
        /\ Len(after) = IF push THEN kept + 1 ELSE kept
        /\ \A i \in 1 .. kept : after[i] = IF re THEN s[i + 1] ELSE s[i]
        /\ push => after[kept + 1] = wd

LEMMA AfterProperties ==
    ASSUME NEW s \in Seq(Data), NEW n \in Nat, n = Len(s),
           NEW we \in BOOLEAN, NEW re \in BOOLEAN, NEW wd \in Data, re => s # << >>
    PROVE  EdgeOK(s, n, we, re, wd)
  <1> DEFINE push == we /\ n # Depth
             kept == IF re THEN n - 1 ELSE n
             popped == Queue!Popped(s, re)
             after == Queue!After(s, we, re, wd)
  <1>1. /\ popped \in Seq(Data) /\ kept \in Nat /\ Len(popped) = kept
        /\ \A i \in 1 .. kept : popped[i] = IF re THEN s[i + 1] ELSE s[i]
    <2>1. CASE re
      <3>1. popped = Tail(s)
        BY <2>1 DEF Queue!Popped, Queue!QEmpty
      <3>2. n \in Nat \ {0} /\ kept = n - 1
        BY <2>1, EmptySeq
      <3>3. /\ Tail(s) \in Seq(Data) /\ Len(Tail(s)) = Len(s) - 1
            /\ \A i \in 1 .. Len(Tail(s)) : Tail(s)[i] = s[i + 1]
        BY <2>1, HeadTailProperties
      <3> HIDE DEF kept, popped
      <3>4. QED BY <2>1, <3>1, <3>2, <3>3
    <2>2. CASE ~re
      <3>1. popped = s
        BY <2>2 DEF Queue!Popped
      <3>2. QED BY <2>2, <3>1, LenProperties
    <2>3. QED BY <2>1, <2>2
  <1>2. after = IF push THEN Append(popped, wd) ELSE popped
    BY DEF Queue!After, Queue!QFull
  <1> HIDE DEF popped, after, kept, push
  <1>3. /\ after \in Seq(Data)
        /\ Len(after) = IF push THEN kept + 1 ELSE kept
        /\ \A i \in 1 .. kept : after[i] = popped[i]
        /\ push => after[kept + 1] = wd
    BY <1>1, <1>2
  <1>4. \A i \in 1 .. kept : after[i] = IF re THEN s[i + 1] ELSE s[i]
    BY <1>1, <1>3
  <1>5. QED BY <1>1, <1>3, <1>4 DEF after, kept, push, EdgeOK

(* Under the mapping, a cycle of the circuit is a cycle of the queue.      *)
LEMMA ContentsStep ==
    ASSUME IInv, IInv', NEW we \in BOOLEAN, NEW re \in BOOLEAN, NEW wd \in Data,
           LegalClock(we, re, wd)
    PROVE  Contents' = Queue!After(Contents, we, re, wd)
  <1> DEFINE n == Count
             push == we /\ n # Depth
             kept == IF re THEN n - 1 ELSE n
             after == Queue!After(Contents, we, re, wd)
  <1>1. ContentsOK /\ CountOK
    BY ContentsSeq, CountFacts
  <1>2. (ContentsOK /\ CountOK)'
    BY ContentsSeq, CountFacts, PTL
  <1>3. n \in Nat /\ (re => n > 0) /\ (push <=> we /\ ~fifo_full)
    BY <1>1, DepthAssumption DEF LegalClock, CountOK
  <1>4. /\ after \in Seq(Data)
        /\ kept \in Nat
        /\ Len(after) = IF push THEN kept + 1 ELSE kept
        /\ \A i \in 1 .. kept : after[i] = IF re THEN Contents[i + 1] ELSE Contents[i]
        /\ push => after[kept + 1] = wd
    <2>1. Contents \in Seq(Data) /\ Len(Contents) = n /\ (re => Contents # << >>)
      BY <1>1, <1>3 DEF ContentsOK
    <2>2. n \in Nat /\ n = Len(Contents)
      BY <1>3, <2>1
    <2>3. EdgeOK(Contents, n, we, re, wd)
      BY <2>1, <2>2, AfterProperties
    <2>4. QED BY <2>3 DEF EdgeOK
  <1>5. Count' = Len(after)
    BY <1>3, <1>4, SlotStep
  <1> HIDE DEF after
  <1>6. ASSUME NEW i \in 1 .. kept
        PROVE  Contents'[i] = after[i]
    <2>1. PICK j \in 1 .. n : j = IF re THEN i + 1 ELSE i
      BY <1>3, <1>4
    <2>2. SlotOf(i)' = SlotOf(j)
      <3>1. CASE re
        <4>1. j > 1 /\ j - 1 = i
          BY <1>4, <2>1, <3>1
        <4>2. SlotOf(j - 1)' = SlotOf(j)
          BY <3>1, <4>1, SlotStep
        <4>3. QED BY <4>1, <4>2
      <3>2. CASE ~re
        BY <2>1, <3>2, SlotStep
      <3>3. QED BY <3>1, <3>2
    <2>3. i \in 1 .. Count'
      BY <1>3, <1>4, <1>5
    <2>4. /\ Contents'[i] = fifo_array'[SlotOf(i)'] /\ SlotOf(i)' \in Slots
          /\ Contents[j] = fifo_array[SlotOf(j)]
      BY <1>1, <1>2, <2>1, <2>3 DEF ContentsOK
    <2>5. fifo_array'[SlotOf(i)'] = fifo_array[SlotOf(i)']
      BY <2>1, <2>2, <2>4, SlotStep, ClockStep
    <2>6. QED BY <1>4, <2>1, <2>2, <2>4, <2>5
  <1>7. ASSUME push
        PROVE  Contents'[kept + 1] = after[kept + 1]
    <2>1. PICK k \in Nat : k = Count' /\ k = kept + 1
      BY <1>4, <1>5, <1>7
    <2>2. SlotOf(k)' = fifo_wptr.idx
      BY <1>3, <1>7, <2>1, SlotStep
    <2>3. k \in 1 .. Count'
      BY <1>4, <2>1
    <2>4. Contents'[k] = fifo_array'[SlotOf(k)'] /\ SlotOf(k)' \in Slots
      BY <1>2, <2>3 DEF ContentsOK
    <2>5. Contents'[k] = wd
      BY <1>3, <1>7, <2>2, <2>4, ClockStep
    <2>6. QED BY <1>4, <1>7, <2>1, <2>5
  <1>8. /\ Contents' \in Seq(Data) /\ Len(Contents') = Len(after)
        /\ \A i \in 1 .. Len(Contents') : Contents'[i] = after[i]
    <2>1. Contents' \in Seq(Data) /\ Len(Contents') = Len(after)
      BY <1>2, <1>5 DEF ContentsOK
    <2>2. QED BY <1>4, <1>6, <1>7, <2>1
  <1>9. QED BY <1>4, <1>8, SeqEqual DEF after

(* The output register is the head of the mapped queue.                    *)
HeadOK == Contents # << >> => fifo_rd = Head(Contents)

LEMMA HeadIsOldest == IInv => HeadOK
  <1> SUFFICES ASSUME IInv, Contents # << >> PROVE fifo_rd = Head(Contents)
    BY DEF HeadOK
  <1>1. Count >= 1 /\ Count \in Nat
    BY ContentsSeq, CountFacts, DepthAssumption DEF ContentsOK, CountOK
  <1>2. ~fifo_empty /\ fifo_rd = fifo_array[fifo_rptr.idx]
    BY <1>1, CountFacts DEF IInv, HeadShown, CountOK
  <1>3. SlotOf(1) = fifo_rptr.idx
    BY DepthAssumption DEF SlotOf, IInv, TypeOK, Pointers, Slots
  <1>4. Contents[1] = fifo_rd
    BY <1>1, <1>2, <1>3, ContentsSeq DEF ContentsOK
  <1>5. QED BY <1>4, ContentsSeq DEF ContentsOK

(* The circuit of sync_fifo.v implements the bounded queue, whatever its   *)
(* depth: the pointers, the flags and the look-ahead output register of    *)
(* lines 42-61 behave as push, pop and head of a sequence.                 *)
THEOREM Refinement == Spec => ImplementsQueue
  <1>1. Init => Queue!Init
    <2> SUFFICES ASSUME Init PROVE Queue!Init
      OBVIOUS
    <2>1. IInv
      BY InvInit
    <2>2. Count = 0
      BY DEF Init, Count
    <2>3. Contents = << >>
      BY <2>1, <2>2, ContentsSeq DEF ContentsOK
    <2>4. QED BY <2>3, ZeroAssumption DEF Init, Queue!Init
  <1>2. IInv /\ IInv' /\ [Next]_vars => [Queue!Next]_(Queue!qvars)
    <2> SUFFICES ASSUME IInv, IInv', [Next]_vars
                 PROVE  [Queue!Next]_(Queue!qvars)
      OBVIOUS
    <2>1. CASE Next
      <3>1. PICK we \in BOOLEAN, re \in BOOLEAN, wd \in Data : LegalClock(we, re, wd)
        BY <2>1 DEF Next, LegalClock
      <3>2. Contents' = Queue!After(Contents, we, re, wd)
        BY <3>1, ContentsStep
      <3>3. re => ~Queue!QEmpty(Contents)
        BY <3>1, ContentsSeq, CountFacts, DepthAssumption
           DEF LegalClock, Queue!QEmpty, ContentsOK, CountOK
      <3>a. HeadOK'
        BY HeadIsOldest, PTL
      <3>4. /\ fifo_rd' \in Data
            /\ Contents' # << >> => fifo_rd' = Head(Contents')
        BY <3>a DEF IInv, TypeOK, HeadOK
      <3>5. Queue!Tick(we, re, wd)
        BY <3>2, <3>4 DEF Queue!Tick, Queue!QEmpty
      <3>6. QED BY <3>3, <3>5 DEF Queue!Next
    <2>2. CASE UNCHANGED vars
      <3>1. Contents' = Contents /\ fifo_rd' = fifo_rd
        BY <2>2 DEF vars, Contents, Count, SlotOf
      <3>2. QED BY <3>1 DEF Queue!qvars
    <2>3. QED BY <2>1, <2>2
  <1>3. QED
    BY <1>1, <1>2, Invariance, PTL DEF Spec, ImplementsQueue, Queue!Spec
=============================================================================
