------------------------------- MODULE SyncFifo -------------------------------
(***************************************************************************)
(* The synchronous FIFO of rtl/lib/sync_fifo.v.  A pointer of AWIDTH+1     *)
(* bits is a slot index and a wrap bit: equal pointers mean empty, equal   *)
(* indices with different wrap bits mean full.  The output is a register:  *)
(* at every edge it is loaded with the slot that will be the oldest one    *)
(* after the edge, or with the word being written into that very slot.     *)
(***************************************************************************)
EXTENDS Naturals, Sequences

CONSTANTS Data,    (* the words the array can hold                         *)
          Zero,    (* the reset value of the output register               *)
          Depth    (* 1 << AWIDTH                                          *)

ASSUME DepthAssumption == Depth \in Nat /\ Depth >= 2
ASSUME ZeroAssumption  == Zero \in Data

VARIABLES fifo_array,   (* slot -> word                                    *)
          fifo_wptr, fifo_rptr,
          fifo_rd       (* the registered output                           *)

vars == <<fifo_array, fifo_wptr, fifo_rptr, fifo_rd>>

Slots    == 0 .. Depth - 1
Pointers == [wrap : BOOLEAN, idx : Slots]

(* Binary increment of the slot index, and of the whole pointer.           *)
NextIdx(i) == IF i = Depth - 1 THEN 0 ELSE i + 1
Inc(p)     == [wrap |-> IF p.idx = Depth - 1 THEN ~p.wrap ELSE p.wrap,
               idx  |-> NextIdx(p.idx)]

fifo_fullByIndex == fifo_wptr.idx = fifo_rptr.idx /\ fifo_wptr.wrap
fifo_full  == fifo_wptr.wrap # fifo_rptr.wrap /\ fifo_wptr.idx = fifo_rptr.idx
fifo_empty == fifo_wptr = fifo_rptr

(* The read address looks one slot ahead in a cycle that pops.             *)
fifo_ra(re) == IF re THEN NextIdx(fifo_rptr.idx) ELSE fifo_rptr.idx

(* The array is not reset: it starts with whatever the cells hold.         *)
Init == /\ fifo_array \in [Slots -> Data]
        /\ fifo_wptr = [wrap |-> FALSE, idx |-> 0]
        /\ fifo_rptr = [wrap |-> FALSE, idx |-> 0]
        /\ fifo_rd = Zero

Write(wd) == /\ fifo_array' = [fifo_array EXCEPT ![fifo_wptr.idx] = wd]
             /\ fifo_wptr' = Inc(fifo_wptr)

NoWrite == UNCHANGED <<fifo_array, fifo_wptr>>

Read(re) == fifo_rptr' = IF re /\ ~fifo_empty THEN Inc(fifo_rptr) ELSE fifo_rptr

OutputNoLookAhead(we, re, wd) ==
    fifo_rd' = IF we /\ fifo_wptr.idx = fifo_rptr.idx /\ ~fifo_full
               THEN wd ELSE fifo_array[fifo_ra(re)]

(* The output register with its write-through path.                        *)
Output(we, re, wd) ==
    fifo_rd' = IF we /\ fifo_wptr.idx = fifo_ra(re) /\ ~fifo_full
               THEN wd ELSE fifo_array[fifo_ra(re)]

Clock(we, re, wd) ==
    /\ IF we /\ ~fifo_full THEN Write(wd) ELSE NoWrite
    /\ Read(re)
    /\ Output(we, re, wd)

(***************************************************************************)
(* A write to a full FIFO is allowed (and dropped).  A read of an empty    *)
(* one is not: it would leave the look-ahead address one slot too far for  *)
(* a cycle.  L1Mau checks that its three FIFOs are never read when empty.  *)
(***************************************************************************)
Next == \E we, re \in BOOLEAN, wd \in Data :
            /\ re => ~fifo_empty
            /\ Clock(we, re, wd)

Spec == Init /\ [][Next]_vars
-----------------------------------------------------------------------------
(***************************************************************************)
(* The abstract contents: occupied slots from the oldest to the newest.    *)
(***************************************************************************)
Count == IF fifo_wptr.wrap = fifo_rptr.wrap
         THEN fifo_wptr.idx - fifo_rptr.idx
         ELSE Depth + fifo_wptr.idx - fifo_rptr.idx

SlotOf(i) == IF fifo_rptr.idx + i - 1 < Depth
             THEN fifo_rptr.idx + i - 1
             ELSE fifo_rptr.idx + i - 1 - Depth

Contents == [i \in 1 .. Count |-> fifo_array[SlotOf(i)]]

Queue == INSTANCE FifoQueue WITH q <- Contents, head <- fifo_rd

(* The circuit is a bounded queue: nothing is lost, duplicated, reordered  *)
(* or overtaken, and the output port shows the oldest word in every cycle  *)
(* with a word in the buffer, also across the wrap of the pointers.        *)
ImplementsQueue == Queue!Spec

TypeOK == /\ fifo_array \in [Slots -> Data]
          /\ fifo_wptr \in Pointers
          /\ fifo_rptr \in Pointers
          /\ fifo_rd \in Data

(* The wrap bits tell how far the write pointer is ahead: never behind     *)
(* the read pointer and never more than one lap in front of it.            *)
PointersWithinOneLap ==
    IF fifo_wptr.wrap = fifo_rptr.wrap THEN fifo_rptr.idx <= fifo_wptr.idx
                                       ELSE fifo_wptr.idx <= fifo_rptr.idx

(* The output register shows the oldest buffered word.                     *)
HeadShown == ~fifo_empty => fifo_rd = fifo_array[fifo_rptr.idx]

IInv == TypeOK /\ PointersWithinOneLap /\ HeadShown
=============================================================================
