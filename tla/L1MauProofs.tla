----------------------------- MODULE L1MauProofs -----------------------------
(***************************************************************************)
(* The memory access unit, for every line length and every set of          *)
(* requests: one read per port, conservation of beats and of write data,   *)
(* no FIFO ever read when empty, and, in the second half, the right words: *)
(* what is on the bus and in the header FIFO is, word for word and in      *)
(* order, what the acknowledge FIFO expects.                               *)
(***************************************************************************)
EXTENDS L1Mau, SequenceTheorems, TLAPS

(***************************************************************************)
(* Facts about one clock edge on a FIFO, stated for a bare sequence.       *)
(***************************************************************************)
PopPush(s, push, pop, e) ==
    LET p == IF pop THEN Tail(s) ELSE s IN IF push THEN Append(p, e) ELSE p

(* A FIFO that is not full has room.                                       *)
LEMMA NotFull ==
    /\ \A n \in Nat : n <= HdrDepth /\ n # HdrDepth => n < HdrDepth
    /\ \A n \in Nat : n <= DatDepth /\ n # DatDepth => n < DatDepth
    /\ \A n \in Nat : n <= AckDepth /\ n # AckDepth => n < AckDepth
  BY DEF HdrDepth, DatDepth, AckDepth

(* With room for what is pushed and something to pop, each FIFO does what  *)
(* it is asked to.                                                         *)
LEMMA FifoEdge ==
    ASSUME NEW S, NEW s \in Seq(S), NEW e,
           NEW push \in BOOLEAN, NEW pop \in BOOLEAN,
           pop => s # <<>>
    PROVE  /\ (push => Len(s) < HdrDepth) /\ Len(s) <= HdrDepth
                => Hdr!After(s, push, pop, e) = PopPush(s, push, pop, e)
           /\ (push => Len(s) < DatDepth) /\ Len(s) <= DatDepth
                => Dat!After(s, push, pop, e) = PopPush(s, push, pop, e)
           /\ (push => Len(s) < AckDepth) /\ Len(s) <= AckDepth
                => Ack!After(s, push, pop, e) = PopPush(s, push, pop, e)
  BY DEF HdrDepth, DatDepth, AckDepth, PopPush,
         Hdr!After, Hdr!Popped, Hdr!QFull, Hdr!QEmpty,
         Dat!After, Dat!Popped, Dat!QFull, Dat!QEmpty,
         Ack!After, Ack!Popped, Ack!QFull, Ack!QEmpty

LEMMA TailFacts ==
    ASSUME NEW S, NEW s \in Seq(S), s # <<>>
    PROVE  /\ Tail(s) \in Seq(S) /\ Len(Tail(s)) = Len(s) - 1
           /\ Len(s) \in Nat \ {0}
           /\ Head(s) = s[1] /\ s[1] \in S
           /\ \A k \in 1 .. Len(s) - 1 : Tail(s)[k] = s[k + 1]
  OBVIOUS

LEMMA AppendFacts ==
    ASSUME NEW S, NEW s \in Seq(S), NEW e \in S
    PROVE  /\ Append(s, e) \in Seq(S) /\ Len(Append(s, e)) = Len(s) + 1
           /\ Len(s) \in Nat
           /\ \A k \in 1 .. Len(s) : Append(s, e)[k] = s[k]
           /\ Append(s, e)[Len(s) + 1] = e
  OBVIOUS

LenAfter(s, push, pop) == Len(s) + (IF push THEN 1 ELSE 0) - (IF pop THEN 1 ELSE 0)

LEMMA PopPushType ==
    ASSUME NEW S, NEW s \in Seq(S), NEW e,
           NEW push \in BOOLEAN, NEW pop \in BOOLEAN,
           pop => s # <<>>, push => e \in S
    PROVE  /\ PopPush(s, push, pop, e) \in Seq(S)
           /\ Len(s) \in Nat
           /\ Len(PopPush(s, push, pop, e)) = LenAfter(s, push, pop)
<1> DEFINE p == IF pop THEN Tail(s) ELSE s
<1>1. p \in Seq(S) /\ Len(s) \in Nat /\ Len(p) = Len(s) - (IF pop THEN 1 ELSE 0)
  BY TailFacts
<1>2. PopPush(s, push, pop, e) = IF push THEN Append(p, e) ELSE p
  BY DEF PopPush
<1> HIDE DEF p
<1>3. push => Append(p, e) \in Seq(S) /\ Len(Append(p, e)) = Len(p) + 1
  BY <1>1, AppendFacts
<1>4. CASE push
  BY <1>1, <1>2, <1>3, <1>4 DEF LenAfter
<1>5. CASE ~push
  BY <1>1, <1>2, <1>5 DEF LenAfter
<1> QED
  BY <1>4, <1>5

(***************************************************************************)
(* The weight of a buffer of at most four entries: how it changes with an  *)
(* edge.  The beats owed, the beats to send and the writes are weights.    *)
(***************************************************************************)
WeightAt(w, s, k) == IF k \in 1 .. Len(s) THEN w[s[k]] ELSE 0
Weight(w, s) == WeightAt(w, s, 1) + WeightAt(w, s, 2) + WeightAt(w, s, 3) + WeightAt(w, s, 4)

LEMMA WeightOfTail ==
    ASSUME NEW S, NEW w \in [S -> Nat], NEW s \in Seq(S), s # <<>>, Len(s) <= 4
    PROVE  /\ Weight(w, Tail(s)) = Weight(w, s) - w[Head(s)]
           /\ WeightAt(w, s, 1) = w[Head(s)]
           /\ Weight(w, s) \in Nat
           /\ Weight(w, s) >= w[Head(s)]
<1> DEFINE n == Len(s)
           t == Tail(s)
<1>1. /\ n \in 1 .. 4 /\ Len(t) = n - 1
      /\ \A k \in 1 .. n - 1 : t[k] = s[k + 1]
      /\ Head(s) = s[1]
      /\ \A k \in 1 .. n : s[k] \in S
  <2>1. n \in 1 .. 4
    <3>1. Len(s) \in Nat /\ Len(s) # 0
      OBVIOUS
    <3>2. \A i \in Nat : i # 0 /\ i <= 4 => i \in 1 .. 4
      OBVIOUS
    <3> QED
      BY <3>1, <3>2
  <2>2. \A k \in 1 .. n : s[k] \in S
    OBVIOUS
  <2> QED
    BY <2>1, <2>2, TailFacts
<1>2. /\ \A k \in 1 .. 3 : WeightAt(w, t, k) = WeightAt(w, s, k + 1)
      /\ WeightAt(w, t, 4) = 0
      /\ WeightAt(w, s, 1) = w[Head(s)]
      /\ \A k \in 1 .. 4 : WeightAt(w, s, k) \in Nat
  <2> HIDE DEF n, t
  <2>0. Len(s) = n
    BY DEF n
  <2>1. ASSUME NEW k \in 1 .. 3 PROVE WeightAt(w, t, k) = WeightAt(w, s, k + 1)
    BY <1>1, <2>0 DEF WeightAt
  <2>2. WeightAt(w, t, 4) = 0 /\ WeightAt(w, s, 1) = w[Head(s)]
    BY <1>1, <2>0 DEF WeightAt
  <2>3. ASSUME NEW k \in 1 .. 4 PROVE WeightAt(w, s, k) \in Nat
    BY <1>1, <2>0 DEF WeightAt
  <2> QED
    BY <2>1, <2>2, <2>3
<1>3. /\ WeightAt(w, t, 1) = WeightAt(w, s, 2) /\ WeightAt(w, t, 2) = WeightAt(w, s, 3)
      /\ WeightAt(w, t, 3) = WeightAt(w, s, 4)
      /\ WeightAt(w, s, 1) \in Nat /\ WeightAt(w, s, 2) \in Nat
      /\ WeightAt(w, s, 3) \in Nat /\ WeightAt(w, s, 4) \in Nat
  <2> HIDE DEF t
  <2> QED BY <1>2
<1> QED
  <2> HIDE DEF t
  <2>0. /\ Weight(w, t) = WeightAt(w, s, 2) + WeightAt(w, s, 3) + WeightAt(w, s, 4)
        /\ Weight(w, s) = w[Head(s)] + (WeightAt(w, s, 2) + WeightAt(w, s, 3) + WeightAt(w, s, 4))
        /\ w[Head(s)] \in Nat
    BY <1>2, <1>3 DEF Weight
  <2>1. Weight(w, t) = Weight(w, s) - w[Head(s)]
    BY ONLY <2>0, <1>3
  <2>2. Weight(w, s) \in Nat
    BY <1>3 DEF Weight
  <2>3. Weight(w, s) >= WeightAt(w, s, 1)
    BY <1>3 DEF Weight
  <2>4. Weight(w, s) >= w[Head(s)]
    BY <2>3, <1>2
  <2>5. Weight(w, Tail(s)) = Weight(w, s) - w[Head(s)]
    BY <2>1 DEF t
  <2> QED
    BY <2>2, <2>4, <2>5, <1>2

LEMMA WeightOfAppend ==
    ASSUME NEW S, NEW w \in [S -> Nat], NEW s \in Seq(S), NEW e \in S, Len(s) < 4
    PROVE  Weight(w, Append(s, e)) = Weight(w, s) + w[e]
<1> DEFINE n == Len(s)
           t == Append(s, e)
<1>1. /\ n \in 0 .. 3 /\ Len(t) = n + 1
      /\ \A k \in 1 .. n : t[k] = s[k]
      /\ t[n + 1] = e
      /\ \A k \in 1 .. n : s[k] \in S
  <2>1. n \in 0 .. 3
    <3>1. Len(s) \in Nat
      OBVIOUS
    <3>2. \A i \in Nat : i < 4 => i \in 0 .. 3
      OBVIOUS
    <3> QED
      BY <3>1, <3>2
  <2>2. \A k \in 1 .. n : s[k] \in S
    OBVIOUS
  <2> QED
    BY <2>1, <2>2, AppendFacts
<1>2. /\ \A k \in 1 .. n : WeightAt(w, t, k) = WeightAt(w, s, k)
      /\ WeightAt(w, t, n + 1) = w[e]
      /\ \A k \in 1 .. 4 : k > n => WeightAt(w, s, k) = 0
      /\ \A k \in 1 .. 4 : k > n + 1 => WeightAt(w, t, k) = 0
      /\ \A k \in 1 .. 4 : WeightAt(w, s, k) \in Nat
  <2> HIDE DEF n, t
  <2>0. Len(s) = n
    BY DEF n
  <2> QED
    BY <1>1, <2>0 DEF WeightAt
<1>3. w[e] \in Nat
  OBVIOUS
<1> HIDE DEF n, t
<1>4. CASE n = 0
  BY <1>2, <1>3, <1>4 DEF Weight, t
<1>5. CASE n = 1
  BY <1>2, <1>3, <1>5 DEF Weight, t
<1>6. CASE n = 2
  BY <1>2, <1>3, <1>6 DEF Weight, t
<1>7. CASE n = 3
  BY <1>2, <1>3, <1>7 DEF Weight, t
<1> QED
  BY <1>1, <1>4, <1>5, <1>6, <1>7

WeightEdge(w, s, push, pop, e) ==
    /\ Weight(w, PopPush(s, push, pop, e))
         = Weight(w, s) - (IF pop THEN w[Head(s)] ELSE 0) + (IF push THEN w[e] ELSE 0)
    /\ Weight(w, s) \in Nat

(* The balance of an edge: what is pushed comes in, what is popped leaves. *)
LEMMA WeightOfEdge ==
    ASSUME NEW S, NEW w \in [S -> Nat], NEW s \in Seq(S), NEW e,
           NEW push \in BOOLEAN, NEW pop \in BOOLEAN,
           pop => s # <<>>, push => e \in S, Len(s) <= 4, push => Len(s) < 4
    PROVE  WeightEdge(w, s, push, pop, e)
<1> DEFINE p == IF pop THEN Tail(s) ELSE s
<1>1. /\ p \in Seq(S) /\ Len(p) <= Len(s) /\ Len(s) \in Nat /\ Len(p) \in Nat
  BY TailFacts
<1>3. Weight(w, s) \in Nat
  <2>1. CASE s = <<>>
    BY <2>1 DEF Weight, WeightAt
  <2>2. CASE s # <<>>
    BY <2>2, WeightOfTail
  <2> QED
    BY <2>1, <2>2
<1>2. Weight(w, p) = Weight(w, s) - (IF pop THEN w[Head(s)] ELSE 0)
  <2>1. CASE pop
    <3>1. Weight(w, Tail(s)) = Weight(w, s) - w[Head(s)]
      BY <2>1, WeightOfTail
    <3> QED
      BY <2>1, <3>1
  <2>2. CASE ~pop
    BY <1>3, <2>2
  <2> QED
    BY <2>1, <2>2
<1>4. PopPush(s, push, pop, e) = IF push THEN Append(p, e) ELSE p
  BY DEF PopPush
<1> HIDE DEF p
<1>5. push => Weight(w, Append(p, e)) = Weight(w, p) + w[e]
  BY <1>1, WeightOfAppend
<1>6. (push => w[e] \in Nat) /\ (pop => w[Head(s)] \in Nat)
  BY TailFacts
<1> QED
  BY <1>2, <1>3, <1>4, <1>5, <1>6 DEF WeightEdge

OwedWeight   == [a \in Answer |-> a.cnt + 1]
ToSendWeight == [h \in Request |-> Beats(h) + 1]
WriteWeight  == [h \in Request |-> IF h.we THEN 1 ELSE 0]

LEMMA SumsAreWeights ==
    /\ OwedWeight \in [Answer -> Nat]
    /\ ToSendWeight \in [Request -> Nat]
    /\ WriteWeight \in [Request -> Nat]
    /\ \A s \in Seq(Answer) : /\ Owed(s) = Weight(OwedWeight, s)
                              /\ OwedAt(s, 1) = WeightAt(OwedWeight, s, 1)
    /\ \A s \in Seq(Request) : /\ ToSend(s) = Weight(ToSendWeight, s)
                               /\ ToSendAt(s, 1) = WeightAt(ToSendWeight, s, 1)
                               /\ Writes(s) = Weight(WriteWeight, s)
<1>1. OwedWeight \in [Answer -> Nat]
  BY LineAssumption DEF OwedWeight, Answer
<1>2. ToSendWeight \in [Request -> Nat]
  BY LineAssumption DEF ToSendWeight, Request, Beats
<1>3. WriteWeight \in [Request -> Nat]
  BY DEF WriteWeight
<1>4. ASSUME NEW s \in Seq(Answer)
      PROVE  \A k \in Nat : OwedAt(s, k) = WeightAt(OwedWeight, s, k)
  BY DEF OwedAt, WeightAt, OwedWeight
<1>5. ASSUME NEW s \in Seq(Request)
      PROVE  \A k \in Nat : /\ ToSendAt(s, k) = WeightAt(ToSendWeight, s, k)
                            /\ WriteAt(s, k) = WeightAt(WriteWeight, s, k)
  BY DEF ToSendAt, WriteAt, WeightAt, ToSendWeight, WriteWeight
<1> QED
  BY <1>1, <1>2, <1>3, <1>4, <1>5 DEF Owed, ToSend, Writes, Weight

(***************************************************************************)
(* The answers owed to a port.  acc is the port's accepted flag and now    *)
(* says that its answer is being delivered; both after the edge are as the *)
(* code computes them.                                                     *)
(***************************************************************************)
LEMMA ReadsOfTail ==
    ASSUME NEW s \in Seq(Answer), s # <<>>, NEW t, AtMostOne(Reads(s, t))
    PROVE  /\ AtMostOne(Reads(Tail(s), t))
           /\ IsRead(Head(s), t) => Reads(s, t) # {} /\ Reads(Tail(s), t) = {}
           /\ ~IsRead(Head(s), t) => (Reads(Tail(s), t) # {} <=> Reads(s, t) # {})
<1> DEFINE n == Len(s)
           p == Tail(s)
<1>1. /\ n \in Nat \ {0} /\ Len(p) = n - 1 /\ Head(s) = s[1]
      /\ \A k \in 1 .. n - 1 : p[k] = s[k + 1]
  BY TailFacts
<1> HIDE DEF p
<1>2. \A k \in Reads(p, t) : k \in Nat /\ k + 1 \in Reads(s, t) /\ k >= 1
  BY <1>1 DEF Reads
<1>3. \A k \in Reads(s, t) : k # 1 => k - 1 \in Reads(p, t)
  BY <1>1 DEF Reads
<1>4. 1 \in Reads(s, t) <=> IsRead(Head(s), t)
  BY <1>1 DEF Reads
<1>5. AtMostOne(Reads(p, t))
  BY <1>2 DEF AtMostOne
<1>6. ASSUME IsRead(Head(s), t) PROVE Reads(s, t) # {} /\ Reads(p, t) = {}
  <2>1. 1 \in Reads(s, t)
    BY <1>4, <1>6
  <2>2. ASSUME NEW k \in Reads(p, t) PROVE FALSE
    <3>1. k + 1 = 1
      BY <1>2, <2>1 DEF AtMostOne
    <3> QED
      BY <1>2, <3>1
  <2> QED
    BY <2>1, <2>2
<1>7. ASSUME ~IsRead(Head(s), t) PROVE Reads(p, t) # {} <=> Reads(s, t) # {}
  BY <1>2, <1>3, <1>4, <1>7
<1> QED
  BY <1>5, <1>6, <1>7 DEF p

LEMMA ReadsOfAppend ==
    ASSUME NEW s \in Seq(Answer), NEW e \in Answer, NEW t, AtMostOne(Reads(s, t))
    PROVE  /\ IsRead(e, t) => Reads(Append(s, e), t) # {}
           /\ IsRead(e, t) /\ Reads(s, t) = {} => AtMostOne(Reads(Append(s, e), t))
           /\ ~IsRead(e, t) => Reads(Append(s, e), t) = Reads(s, t)
<1> DEFINE n == Len(s)
           p == Append(s, e)
<1>1. /\ n \in Nat /\ Len(p) = n + 1 /\ p[n + 1] = e
      /\ \A k \in 1 .. n : p[k] = s[k]
  BY AppendFacts
<1> HIDE DEF p
<1>2. /\ \A k \in 1 .. n : k \in Reads(p, t) <=> k \in Reads(s, t)
      /\ n + 1 \in Reads(p, t) <=> IsRead(e, t)
      /\ Reads(p, t) \subseteq 1 .. n + 1
      /\ Reads(s, t) \subseteq 1 .. n
  BY <1>1 DEF Reads
<1> HIDE DEF n
<1>3. \A k \in 1 .. n + 1 : k = n + 1 \/ k \in 1 .. n
  BY <1>1
<1>4. n + 1 \notin 1 .. n
  BY <1>1
<1>5. IsRead(e, t) => Reads(p, t) # {}
  BY <1>2
<1>6. IsRead(e, t) /\ Reads(s, t) = {} => AtMostOne(Reads(p, t))
  BY <1>2, <1>3 DEF AtMostOne
<1>7. ~IsRead(e, t) => Reads(p, t) = Reads(s, t)
  BY <1>2, <1>3, <1>4
<1> QED
  BY <1>5, <1>6, <1>7 DEF p

AfterEdge(s, push, pop, e, t) ==
    LET r == Reads(PopPush(s, push, pop, e), t)
    IN  /\ AtMostOne(r)
        /\ r # {} <=> \/ push /\ IsRead(e, t)
                      \/ Reads(s, t) # {} /\ ~(pop /\ IsRead(Head(s), t))
        /\ pop /\ IsRead(Head(s), t) => Reads(s, t) # {}

LEMMA ReadsOfEdge ==
    ASSUME NEW s \in Seq(Answer), NEW e, NEW t,
           NEW push \in BOOLEAN, NEW pop \in BOOLEAN,
           pop => s # <<>>, push => e \in Answer,
           AtMostOne(Reads(s, t)),
           push /\ IsRead(e, t) => Reads(s, t) = {}
    PROVE  AfterEdge(s, push, pop, e, t)
<1> DEFINE p == IF pop THEN Tail(s) ELSE s
           q == PopPush(s, push, pop, e)
<1>1. p \in Seq(Answer) /\ AtMostOne(Reads(p, t))
  BY ReadsOfTail, TailFacts
<1>2. /\ Reads(p, t) # {} <=> Reads(s, t) # {} /\ ~(pop /\ IsRead(Head(s), t))
      /\ pop /\ IsRead(Head(s), t) => Reads(s, t) # {}
  BY ReadsOfTail
<1>3. q = IF push THEN Append(p, e) ELSE p
  BY DEF PopPush
<1> HIDE DEF p, q
<1>4. CASE push /\ IsRead(e, t)
  <2>1. Reads(p, t) = {}
    BY <1>2, <1>4
  <2>2. Reads(q, t) # {} /\ AtMostOne(Reads(q, t))
    BY <1>1, <1>3, <1>4, <2>1, ReadsOfAppend
  <2> QED
    BY <1>2, <1>4, <2>2 DEF q, AfterEdge
<1>5. CASE ~(push /\ IsRead(e, t))
  <2>1. Reads(q, t) = Reads(p, t)
    BY <1>1, <1>3, <1>5, ReadsOfAppend
  <2> QED
    BY <1>1, <1>2, <1>5, <2>1 DEF q, AfterEdge
<1> QED
  BY <1>4, <1>5

(***************************************************************************)
(* The wires of the unit in a state that satisfies the invariant.          *)
(***************************************************************************)
LEMMA RequestWires ==
    ASSUME TypeOK
    PROVE  /\ req_val \in BOOLEAN /\ req_wr \in BOOLEAN
           /\ req_d_val \in BOOLEAN /\ req_i_val \in BOOLEAN
           /\ req_val => /\ Len(hdr) < HdrDepth /\ Len(ack_buf) < AckDepth
                         /\ req_hdr_data \in Request
                         /\ w_ack_data \in Answer
                         /\ w_ack_data.cnt = Beats(req_hdr_data)
                         /\ req_hdr_data.we = req_wr
           /\ req_wr => req_val /\ Len(dat) < DatDepth /\ dreq.addr \in Nat
           /\ req_val /\ IsRead(w_ack_data, "D") <=> req_d_val /\ ~dreq.we
           /\ req_val /\ IsRead(w_ack_data, "I") <=> req_i_val
           /\ ~(req_d_val /\ req_i_val)
<1>1. /\ req_d_val \in BOOLEAN /\ req_i_val \in BOOLEAN /\ req_val \in BOOLEAN
      /\ req_wr \in BOOLEAN /\ req_nc \in BOOLEAN
  BY DEF req_val, req_wr, req_nc, req_d_val, req_i_val
<1>2. ~(req_d_val /\ req_i_val)
  BY DEF req_d_val, req_i_val
<1>3. req_val => Len(hdr) < HdrDepth /\ Len(ack_buf) < AckDepth
  <2>1. /\ Len(hdr) \in Nat /\ Len(hdr) <= HdrDepth
        /\ Len(ack_buf) \in Nat /\ Len(ack_buf) <= AckDepth
    BY DEF TypeOK
  <2>2. req_val => Len(hdr) # HdrDepth /\ Len(ack_buf) # AckDepth
    BY DEF req_val, req_d_val, req_i_val, room, Hdr!QFull, Ack!QFull
  <2>3. /\ Len(hdr) # HdrDepth => Len(hdr) < HdrDepth
        /\ Len(ack_buf) # AckDepth => Len(ack_buf) < AckDepth
    BY <2>1, NotFull
  <2> QED
    BY <2>2, <2>3
<1>4. req_d_val => /\ dreq \in DRequests /\ dreq.addr \in Nat
                   /\ dreq.we \in BOOLEAN /\ dreq.nc \in BOOLEAN
  BY RequestAssumption DEF req_d_val, TypeOK, Request
<1>5. req_i_val => ireq \in Nat
  BY RequestAssumption DEF req_i_val, TypeOK
<1>6. req_val => req_hdr_data \in Request /\ req_hdr_data.we = req_wr
  BY <1>1, <1>4, <1>5 DEF req_hdr_data, Request, req_val
<1>7. w_ack_cnt \in 0 .. LineWords - 1
  BY LineAssumption DEF w_ack_cnt
<1>8. /\ w_ack_data \in Answer
      /\ w_ack_data.cnt = Beats(req_hdr_data)
      /\ w_ack_data.type = IF req_d_val THEN "D" ELSE "I"
      /\ w_ack_data.wr = req_wr
  <2>1. /\ w_ack_data \in Answer
        /\ w_ack_data.cnt = w_ack_cnt
        /\ w_ack_data.type = IF req_d_val THEN "D" ELSE "I"
        /\ w_ack_data.wr = req_wr
    BY <1>1, <1>7 DEF w_ack_data, Answer
  <2>2. w_ack_cnt = Beats(req_hdr_data)
    BY <1>1 DEF w_ack_cnt, Beats, req_hdr_data
  <2> QED
    BY <2>1, <2>2
<1>9. req_wr => req_val /\ Len(dat) < DatDepth /\ dreq.addr \in Nat
  <2>1. Len(dat) \in Nat /\ Len(dat) <= DatDepth
    BY DEF TypeOK
  <2>2. req_wr => req_d_val /\ Len(dat) # DatDepth
    BY DEF req_wr, req_d_val, Dat!QFull
  <2>3. Len(dat) # DatDepth => Len(dat) < DatDepth
    BY <2>1, NotFull
  <2> QED
    BY <1>4, <2>2, <2>3 DEF req_val
<1>10. req_val /\ IsRead(w_ack_data, "D") <=> req_d_val /\ ~dreq.we
  BY <1>2, <1>8 DEF IsRead, req_val, req_wr
<1>11. req_val /\ IsRead(w_ack_data, "I") <=> req_i_val
  BY <1>2, <1>8 DEF IsRead, req_val
<1> QED
  BY <1>1, <1>2, <1>3, <1>6, <1>8, <1>9, <1>10, <1>11

(* What leaves the buffers at an edge is there.                            *)
LEMMA PopWires ==
    ASSUME TypeOK, BuffersNeverUnderrun,
           NEW stall \in BOOLEAN, NEW ack \in BOOLEAN, ack => bus # <<>>
    PROVE  /\ hdr_finished(stall) \in BOOLEAN /\ (hdr_finished(stall) => hdr # <<>>)
           /\ dat_finished(stall) \in BOOLEAN /\ (dat_finished(stall) => dat # <<>>)
           /\ r_ack(ack) \in BOOLEAN /\ (r_ack(ack) => ack_buf # <<>>)
           /\ ack => ack_buf # <<>>
           /\ wb_stb => Head(hdr) \in Request
           /\ ack => Head(ack_buf) \in Answer
<1>1. hdr_finished(stall) \in BOOLEAN /\ (hdr_finished(stall) => hdr # <<>>)
  BY DEF hdr_finished, BuffersNeverUnderrun
<1>2. wb_stb => Head(hdr) \in Request
  BY TailFacts DEF TypeOK, BuffersNeverUnderrun
<1>3. dat_finished(stall) \in BOOLEAN /\ (dat_finished(stall) => dat # <<>>)
  BY <1>1, <1>2 DEF dat_finished, hdr_finished, BuffersNeverUnderrun, wb_we, Request
<1>4. ack => ack_buf # <<>>
  BY DEF BuffersNeverUnderrun
<1>5. ack => Head(ack_buf) \in Answer
  BY <1>4, TailFacts DEF TypeOK
<1>6. r_ack(ack) \in BOOLEAN /\ (r_ack(ack) => ack_buf # <<>>)
  BY <1>4 DEF r_ack
<1> QED
  BY <1>1, <1>2, <1>3, <1>4, <1>5, <1>6

(* The buffers after an edge.                                              *)
LEMMA BuffersEdge ==
    ASSUME TypeOK, BuffersNeverUnderrun,
           NEW stall \in BOOLEAN, NEW ack \in BOOLEAN, Clock(stall, ack)
    PROVE  /\ hdr' = PopPush(hdr, req_val, hdr_finished(stall), req_hdr_data)
           /\ dat' = PopPush(dat, req_wr, dat_finished(stall), dreq.addr)
           /\ ack_buf' = PopPush(ack_buf, req_val, r_ack(ack), w_ack_data)
<1>1. ack => bus # <<>>
  BY DEF Clock
<1>2. /\ hdr' = Hdr!After(hdr, req_val, hdr_finished(stall), req_hdr_data)
      /\ dat' = Dat!After(dat, req_wr, dat_finished(stall), dreq.addr)
      /\ ack_buf' = Ack!After(ack_buf, req_val, r_ack(ack), w_ack_data)
  BY DEF Clock, Buffers
<1>3. /\ hdr \in Seq(Request) /\ Len(hdr) <= HdrDepth
      /\ dat \in Seq(Nat) /\ Len(dat) <= DatDepth
      /\ ack_buf \in Seq(Answer) /\ Len(ack_buf) <= AckDepth
  BY DEF TypeOK
<1>4. hdr' = PopPush(hdr, req_val, hdr_finished(stall), req_hdr_data)
  BY <1>1, <1>2, <1>3, RequestWires, PopWires, FifoEdge
<1>5. dat' = PopPush(dat, req_wr, dat_finished(stall), dreq.addr)
  BY <1>1, <1>2, <1>3, RequestWires, PopWires, FifoEdge
<1>6. ack_buf' = PopPush(ack_buf, req_val, r_ack(ack), w_ack_data)
  BY <1>1, <1>2, <1>3, RequestWires, PopWires, FifoEdge
<1> QED
  BY <1>4, <1>5, <1>6

LenEdge(s, push, pop, e) ==
    /\ Len(s) \in Nat
    /\ Len(PopPush(s, push, pop, e)) = LenAfter(s, push, pop)

LEMMA LenOfEdge ==
    ASSUME NEW S, NEW s \in Seq(S), NEW e,
           NEW push \in BOOLEAN, NEW pop \in BOOLEAN,
           pop => s # <<>>, push => e \in S
    PROVE  LenEdge(s, push, pop, e)
  BY PopPushType DEF LenEdge

LEMMA PopPushBound ==
    ASSUME NEW S, NEW s \in Seq(S), NEW e,
           NEW push \in BOOLEAN, NEW pop \in BOOLEAN,
           pop => s # <<>>, push => e \in S,
           NEW n \in Nat, Len(s) <= n, push => Len(s) < n
    PROVE  PopPush(s, push, pop, e) \in Seq(S) /\ Len(PopPush(s, push, pop, e)) <= n
<1> DEFINE q == PopPush(s, push, pop, e)
<1>1. q \in Seq(S) /\ Len(s) \in Nat
      /\ Len(q) = LenAfter(s, push, pop)
  BY PopPushType
<1> HIDE DEF q
<1>2. Len(q) <= n
  BY <1>1 DEF LenAfter
<1> QED
  BY <1>1, <1>2 DEF q

(* A buffer that is not popped keeps its head.                             *)
KeepsHead(s, q) == q # <<>> /\ 1 \in 1 .. Len(q) /\ q[1] = s[1]

LEMMA HeadKept ==
    ASSUME NEW S, NEW s \in Seq(S), s # <<>>, NEW push \in BOOLEAN, NEW e, push => e \in S
    PROVE  KeepsHead(s, PopPush(s, push, FALSE, e))
<1> DEFINE q == PopPush(s, push, FALSE, e)
<1>1. q = IF push THEN Append(s, e) ELSE s
  BY DEF PopPush
<1>2. Len(s) \in Nat \ {0} /\ 1 \in 1 .. Len(s)
  BY TailFacts
<1> HIDE DEF q
<1>3. q # <<>> /\ q[1] = s[1] /\ Len(q) \in Nat \ {0} /\ 1 \in 1 .. Len(q)
  <2>1. CASE push
    <3>1. Append(s, e) \in Seq(S) /\ Len(Append(s, e)) = Len(s) + 1 /\ Append(s, e)[1] = s[1]
      BY <2>1, <1>2, AppendFacts
    <3>2. q = Append(s, e)
      BY <1>1, <2>1
    <3> QED
      BY <1>2, <3>1, <3>2
  <2>2. CASE ~push
    BY <1>1, <1>2, <2>2
  <2> QED
    BY <2>1, <2>2
<1> QED
  BY <1>3 DEF q, KeepsHead

(***************************************************************************)
(* Type correctness of an edge.                                            *)
(***************************************************************************)
LEMMA TypeStep ==
    ASSUME TypeOK, BuffersNeverUnderrun,
           NEW stall \in BOOLEAN, NEW ack \in BOOLEAN, Clock(stall, ack)
    PROVE  TypeOK'
<1> USE DEF TypeOK
<1>0. ack => bus # <<>>
  BY DEF Clock
<1>1. dreq' \in DRequests \cup {None}
  BY DEF Clock, DCache
<1>2. ireq' \in IRequests \cup {None}
  BY DEF Clock, ICache
<1>3. hdr' \in Seq(Request) /\ Len(hdr') <= HdrDepth
  <2>1. hdr \in Seq(Request) /\ Len(hdr) <= HdrDepth /\ HdrDepth \in Nat
    BY DEF HdrDepth
  <2> HIDE DEF TypeOK
  <2>2. /\ req_val \in BOOLEAN
        /\ req_val => req_hdr_data \in Request /\ Len(hdr) < HdrDepth
    BY RequestWires
  <2>3. hdr_finished(stall) \in BOOLEAN /\ (hdr_finished(stall) => hdr # <<>>)
    BY <1>0, PopWires
  <2>4. hdr' = PopPush(hdr, req_val, hdr_finished(stall), req_hdr_data)
    BY BuffersEdge
  <2>5. /\ PopPush(hdr, req_val, hdr_finished(stall), req_hdr_data) \in Seq(Request)
        /\ Len(PopPush(hdr, req_val, hdr_finished(stall), req_hdr_data)) <= HdrDepth
    BY <2>1, <2>2, <2>3, PopPushBound
  <2> QED
    BY <2>4, <2>5
<1>4. dat' \in Seq(Nat) /\ Len(dat') <= DatDepth
  <2>1. dat \in Seq(Nat) /\ Len(dat) <= DatDepth /\ DatDepth \in Nat
    BY DEF DatDepth
  <2> HIDE DEF TypeOK
  <2>2. /\ req_wr \in BOOLEAN
        /\ req_wr => dreq.addr \in Nat /\ Len(dat) < DatDepth
    BY RequestWires
  <2>3. dat_finished(stall) \in BOOLEAN /\ (dat_finished(stall) => dat # <<>>)
    BY <1>0, PopWires
  <2>4. dat' = PopPush(dat, req_wr, dat_finished(stall), dreq.addr)
    BY BuffersEdge
  <2>5. /\ PopPush(dat, req_wr, dat_finished(stall), dreq.addr) \in Seq(Nat)
        /\ Len(PopPush(dat, req_wr, dat_finished(stall), dreq.addr)) <= DatDepth
    BY <2>1, <2>2, <2>3, PopPushBound
  <2> QED
    BY <2>4, <2>5
<1>5. ack_buf' \in Seq(Answer) /\ Len(ack_buf') <= AckDepth
  <2>1. ack_buf \in Seq(Answer) /\ Len(ack_buf) <= AckDepth /\ AckDepth \in Nat
    BY DEF AckDepth
  <2> HIDE DEF TypeOK
  <2>2. /\ req_val \in BOOLEAN
        /\ req_val => w_ack_data \in Answer /\ Len(ack_buf) < AckDepth
    BY RequestWires
  <2>3. r_ack(ack) \in BOOLEAN /\ (r_ack(ack) => ack_buf # <<>>)
    BY <1>0, PopWires
  <2>4. ack_buf' = PopPush(ack_buf, req_val, r_ack(ack), w_ack_data)
    BY BuffersEdge
  <2>5. /\ PopPush(ack_buf, req_val, r_ack(ack), w_ack_data) \in Seq(Answer)
        /\ Len(PopPush(ack_buf, req_val, r_ack(ack), w_ack_data)) <= AckDepth
    BY <2>1, <2>2, <2>3, PopPushBound
  <2> QED
    BY <2>4, <2>5
<1>6. d_acc' \in BOOLEAN /\ i_acc' \in BOOLEAN
  <2>1. req_d_val \in BOOLEAN /\ req_i_val \in BOOLEAN
    BY RequestWires
  <2>2. l1d_rd_ack \in BOOLEAN /\ l1i_req_ack \in BOOLEAN
    BY DEF l1d_rd_ack, l1i_req_ack, req_ack, Grant
  <2> QED
    BY <2>1, <2>2 DEF Clock, AcceptedFlags
<1>7. tr_state' \in {"IDLE", "REQ"} /\ tr_addr' \in Nat /\ tr_cnt' \in 0 .. LineWords - 1
  <2>1. Tr(stall)
    BY DEF Clock
  <2>2. CASE TrIdle
    BY <2>2 DEF TrIdle, trVars
  <2>3. CASE TrStart
    <3>1. Head(hdr) \in Request
      BY <2>3, TailFacts DEF TrStart
    <3>2. Beats(Head(hdr)) \in 0 .. LineWords - 1
      BY LineAssumption DEF Beats
    <3> QED
      BY <2>3, <3>1, <3>2 DEF TrStart, Request
  <2>4. CASE TrStall(stall)
    BY <2>4 DEF TrStall, trVars
  <2>5. CASE TrBeat(stall)
    BY <2>5, LineAssumption DEF TrBeat
  <2>6. CASE TrLast(stall)
    BY <2>6 DEF TrLast
  <2> QED
    BY <2>1, <2>2, <2>3, <2>4, <2>5, <2>6 DEF Tr
<1>8. ack_state' \in {"IDLE", "REC"} /\ ack_cnt' \in 0 .. LineWords - 1 /\ ack_r' \in Grant
  <2>1. AckMachine(ack)
    BY DEF Clock
  <2>2. ack => Head(ack_buf) \in Answer
    BY <1>0, PopWires
  <2>3. ack_state' \in {"IDLE", "REC"} /\ ack_cnt' \in 0 .. LineWords - 1
    <3>1. CASE AckNone(ack)
      BY <3>1 DEF AckNone
    <3>2. CASE AckFirst(ack)
      BY <3>2, <2>2 DEF AckFirst, Answer
    <3>3. CASE AckMore(ack)
      BY <3>3, LineAssumption DEF AckMore, AckOpen
    <3> QED
      BY <2>1, <3>1, <3>2, <3>3 DEF AckMachine
  <2>4. ack_r' \in Grant
    <3>1. r_ack(ack) => ack
      BY DEF r_ack
    <3> QED
      BY <2>1, <2>2, <3>1 DEF AckMachine, Grant, Answer
  <2> QED
    BY <2>3, <2>4
<1>9. ack_data' \in Seq(Nat \cup {None}) /\ Len(ack_data') = LineWords
  <2>1. CASE ack
    <3> DEFINE d == IF Head(bus).we THEN None ELSE Head(bus).adr
               T == Nat \cup {None}
    <3>1. Head(bus) \in [we : BOOLEAN, adr : Nat]
      <4> DEFINE B == [we : BOOLEAN, adr : Nat]
      <4>1. bus \in Seq(B) /\ bus # <<>>
        BY <1>0, <2>1
      <4> HIDE DEF TypeOK, B
      <4>2. Head(bus) \in B
        BY <4>1, TailFacts
      <4> QED
        BY <4>2 DEF B
    <3>2. d \in T
      BY <3>1
    <3>3. ack_data # <<>> /\ ack_data \in Seq(T) /\ Len(ack_data) = LineWords
      BY LineAssumption
    <3>4. ack_data' = Append(Tail(ack_data), d)
      BY <2>1 DEF Clock, Shift
    <3> HIDE DEF d, T
    <3>5. Tail(ack_data) \in Seq(T) /\ Len(Tail(ack_data)) = LineWords - 1
      BY <3>3, TailFacts
    <3>6. ack_data' \in Seq(T) /\ Len(ack_data') = LineWords - 1 + 1
      BY <3>2, <3>4, <3>5, AppendFacts
    <3> QED
      BY <3>6, LineAssumption DEF T
  <2>2. CASE ~ack
    BY <2>2 DEF Clock, Shift
  <2> QED
    BY <2>1, <2>2
<1>10. bus' \in Seq([we : BOOLEAN, adr : Nat])
  <2> DEFINE B == [we : BOOLEAN, adr : Nat]
             left == IF ack THEN Tail(bus) ELSE bus
             b == [we |-> wb_we, adr |-> tr_addr]
  <2>1. left \in Seq(B)
    BY <1>0, TailFacts
  <2>2. wb_stb => b \in B
    BY <1>0, PopWires DEF wb_we, Request
  <2>3. bus' = IF wb_stb /\ ~stall THEN Append(left, b) ELSE left
    BY DEF Clock, Bus
  <2> HIDE DEF left, b, B
  <2>4. bus' \in Seq(B)
    BY <2>1, <2>2, <2>3, AppendFacts
  <2> QED
    BY <2>4 DEF B
<1> QED
  BY <1>1, <1>2, <1>3, <1>4, <1>5, <1>6, <1>7, <1>8, <1>9, <1>10

(***************************************************************************)
(* One read per port.                                                      *)
(***************************************************************************)
(* An answer is delivered in the cycle after the one its entry was popped. *)
LEMMA DeliveryEdge ==
    ASSUME TypeOK, BuffersNeverUnderrun,
           NEW stall \in BOOLEAN, NEW ack \in BOOLEAN, Clock(stall, ack)
    PROVE  /\ l1d_rd_ack' <=> r_ack(ack) /\ IsRead(Head(ack_buf), "D")
           /\ l1i_req_ack' <=> r_ack(ack) /\ IsRead(Head(ack_buf), "I")
<1>1. AckMachine(ack) /\ (ack => bus # <<>>)
  BY DEF Clock
<1>2. /\ ack => Head(ack_buf) \in Answer
      /\ ack_cnt \in 0 .. LineWords - 1
  BY <1>1, PopWires DEF TypeOK
<1>3. req_ack' <=> r_ack(ack)
  <2>1. CASE AckNone(ack)
    BY <2>1, <1>2 DEF AckNone, AckOpen, req_ack, r_ack
  <2>2. CASE AckFirst(ack)
    BY <2>2, <1>2 DEF AckFirst, AckOpen, req_ack, r_ack, Answer
  <2>3. CASE AckMore(ack)
    BY <2>3, <1>2, LineAssumption DEF AckMore, AckOpen, req_ack, r_ack
  <2> QED
    BY <1>1, <2>1, <2>2, <2>3 DEF AckMachine
<1>4. r_ack(ack) => /\ ack_r'.type = Head(ack_buf).type
                    /\ ack_r'.wr = Head(ack_buf).wr
  BY <1>1 DEF AckMachine
<1> QED
  BY <1>3, <1>4 DEF l1d_rd_ack, l1i_req_ack, IsRead

LEMMA OneReadStep ==
    ASSUME TypeOK, BuffersNeverUnderrun, OneReadPerPort,
           NEW stall \in BOOLEAN, NEW ack \in BOOLEAN, Clock(stall, ack)
    PROVE  OneReadPerPort'
<1>1. /\ ack_buf \in Seq(Answer)
      /\ d_acc \in BOOLEAN /\ i_acc \in BOOLEAN
      /\ ack => bus # <<>>
  BY DEF TypeOK, Clock
<1>2. /\ l1d_rd_ack \in BOOLEAN /\ l1i_req_ack \in BOOLEAN
      /\ l1d_rd_ack' \in BOOLEAN /\ l1i_req_ack' \in BOOLEAN
  <2>1. l1d_rd_ack \in BOOLEAN /\ l1i_req_ack \in BOOLEAN
    BY DEF l1d_rd_ack, l1i_req_ack, req_ack
  <2>2. l1d_rd_ack' \in BOOLEAN /\ l1i_req_ack' \in BOOLEAN
    BY DEF l1d_rd_ack, l1i_req_ack, req_ack
  <2> QED
    BY <2>1, <2>2
<1>3. /\ req_val \in BOOLEAN /\ (req_val => w_ack_data \in Answer)
      /\ r_ack(ack) \in BOOLEAN /\ (r_ack(ack) => ack_buf # <<>>)
      /\ ack_buf' = PopPush(ack_buf, req_val, r_ack(ack), w_ack_data)
  BY <1>1, RequestWires, PopWires, BuffersEdge
<1>4. /\ d_acc' \in BOOLEAN /\ i_acc' \in BOOLEAN
      /\ d_acc' <=> IF d_acc THEN ~l1d_rd_ack ELSE req_val /\ IsRead(w_ack_data, "D")
      /\ i_acc' <=> IF i_acc THEN ~l1i_req_ack ELSE req_val /\ IsRead(w_ack_data, "I")
  <2>1. /\ req_val /\ IsRead(w_ack_data, "D") <=> req_d_val /\ ~dreq.we
        /\ req_val /\ IsRead(w_ack_data, "I") <=> req_i_val
    BY RequestWires
  <2>2. TypeOK'
    BY TypeStep
  <2> QED
    BY <2>1, <2>2 DEF TypeOK, Clock, AcceptedFlags
<1>5. /\ req_val /\ IsRead(w_ack_data, "D") => ~d_acc
      /\ req_val /\ IsRead(w_ack_data, "I") => ~i_acc
  BY RequestWires DEF req_d_val, req_i_val
<1>6. OwesOne("D", d_acc, l1d_rd_ack)'
  <2>1. /\ AtMostOne(Reads(ack_buf, "D"))
        /\ d_acc <=> (Reads(ack_buf, "D") # {} \/ l1d_rd_ack)
        /\ ~(Reads(ack_buf, "D") # {} /\ l1d_rd_ack)
    BY DEF OneReadPerPort, OwesOne
  <2>2. l1d_rd_ack' <=> r_ack(ack) /\ IsRead(Head(ack_buf), "D")
    BY DeliveryEdge
  <2> DEFINE r == Reads(PopPush(ack_buf, req_val, r_ack(ack), w_ack_data), "D")
  <2>3. req_val /\ IsRead(w_ack_data, "D") => Reads(ack_buf, "D") = {}
    BY <1>5, <2>1
  <2>4. /\ AtMostOne(r)
        /\ r # {} <=> \/ req_val /\ IsRead(w_ack_data, "D")
                      \/ Reads(ack_buf, "D") # {}
                           /\ ~(r_ack(ack) /\ IsRead(Head(ack_buf), "D"))
        /\ r_ack(ack) /\ IsRead(Head(ack_buf), "D") => Reads(ack_buf, "D") # {}
    <3>1. AfterEdge(ack_buf, req_val, r_ack(ack), w_ack_data, "D")
      BY <1>1, <1>3, <2>1, <2>3, ReadsOfEdge
    <3> QED
      BY <3>1 DEF AfterEdge
  <2>5. Reads(ack_buf', "D") = r
    BY <1>3
  <2> HIDE DEF r
  <2>6. /\ d_acc' <=> r # {} \/ l1d_rd_ack'
        /\ ~(r # {} /\ l1d_rd_ack')
    BY <1>4, <1>5, <2>1, <2>2, <2>4
  <2> QED
    BY <2>4, <2>5, <2>6 DEF OwesOne
<1>7. OwesOne("I", i_acc, l1i_req_ack)'
  <2>1. /\ AtMostOne(Reads(ack_buf, "I"))
        /\ i_acc <=> (Reads(ack_buf, "I") # {} \/ l1i_req_ack)
        /\ ~(Reads(ack_buf, "I") # {} /\ l1i_req_ack)
    BY DEF OneReadPerPort, OwesOne
  <2>2. l1i_req_ack' <=> r_ack(ack) /\ IsRead(Head(ack_buf), "I")
    BY DeliveryEdge
  <2> DEFINE r == Reads(PopPush(ack_buf, req_val, r_ack(ack), w_ack_data), "I")
  <2>3. req_val /\ IsRead(w_ack_data, "I") => Reads(ack_buf, "I") = {}
    BY <1>5, <2>1
  <2>4. /\ AtMostOne(r)
        /\ r # {} <=> \/ req_val /\ IsRead(w_ack_data, "I")
                      \/ Reads(ack_buf, "I") # {}
                           /\ ~(r_ack(ack) /\ IsRead(Head(ack_buf), "I"))
        /\ r_ack(ack) /\ IsRead(Head(ack_buf), "I") => Reads(ack_buf, "I") # {}
    <3>1. AfterEdge(ack_buf, req_val, r_ack(ack), w_ack_data, "I")
      BY <1>1, <1>3, <2>1, <2>3, ReadsOfEdge
    <3> QED
      BY <3>1 DEF AfterEdge
  <2>5. Reads(ack_buf', "I") = r
    BY <1>3
  <2> HIDE DEF r
  <2>6. /\ i_acc' <=> r # {} \/ l1i_req_ack'
        /\ ~(r # {} /\ l1i_req_ack')
    BY <1>4, <1>5, <2>1, <2>2, <2>4
  <2> QED
    BY <2>4, <2>5, <2>6 DEF OwesOne
<1>8. d_acc' => dreq' # None /\ ~(dreq'.we)
  <2> SUFFICES ASSUME d_acc' PROVE dreq' # None /\ ~(dreq'.we)
    OBVIOUS
  <2>1. ~l1d_rd_ack /\ dreq # None /\ ~dreq.we
    BY DEF Clock, AcceptedFlags, OneReadPerPort, OwesOne, req_d_val
  <2>2. UNCHANGED dreq
    BY <2>1 DEF Clock, DCache, req_wr
  <2> QED
    BY <2>1, <2>2
<1>9. i_acc' => ireq' # None
  <2> SUFFICES ASSUME i_acc' PROVE ireq' # None
    OBVIOUS
  <2>1. ~l1i_req_ack /\ ireq # None
    BY DEF Clock, AcceptedFlags, OneReadPerPort, OwesOne, req_i_val
  <2> QED
    BY <2>1 DEF Clock, ICache
<1> QED
  BY <1>6, <1>7, <1>8, <1>9 DEF OneReadPerPort

(***************************************************************************)
(* Conservation of beats.                                                  *)
(***************************************************************************)
LEMMA OwedEdge ==
    ASSUME TypeOK, BuffersNeverUnderrun,
           NEW stall \in BOOLEAN, NEW ack \in BOOLEAN, Clock(stall, ack)
    PROVE  /\ AnswersOwed \in Int
           /\ AnswersOwed' = AnswersOwed - (IF ack THEN 1 ELSE 0)
                             + (IF req_val THEN Beats(req_hdr_data) + 1 ELSE 0)
<1> DEFINE w == OwedWeight
           push == req_val
           pop == r_ack(ack)
           e == w_ack_data
           x == IF push THEN Beats(req_hdr_data) + 1 ELSE 0
           o == Owed(ack_buf)
           h == Head(ack_buf).cnt
<1>1. /\ ack_buf \in Seq(Answer) /\ Len(ack_buf) <= 4
      /\ ack_cnt \in 0 .. LineWords - 1
      /\ ack => bus # <<>>
      /\ w \in [Answer -> Nat]
  BY SumsAreWeights DEF TypeOK, Clock, AckDepth
<1>2. /\ push \in BOOLEAN /\ pop \in BOOLEAN
      /\ push => e \in Answer /\ Len(ack_buf) < 4 /\ w[e] = Beats(req_hdr_data) + 1
      /\ pop => ack_buf # <<>>
      /\ ack_buf' = PopPush(ack_buf, push, pop, e)
      /\ ack_buf' \in Seq(Answer)
  <2>1. push => e \in Answer /\ Len(ack_buf) < 4 /\ e.cnt = Beats(req_hdr_data)
    BY RequestWires DEF AckDepth
  <2>2. TypeOK'
    BY TypeStep
  <2> QED
    BY <1>1, <2>1, <2>2, RequestWires, PopWires, BuffersEdge DEF OwedWeight, TypeOK
<1>3. ack_buf # <<>> => /\ h \in 0 .. LineWords - 1
                        /\ w[Head(ack_buf)] = h + 1
                        /\ OwedAt(ack_buf, 1) = h + 1
  <2> SUFFICES ASSUME ack_buf # <<>>
               PROVE  /\ h \in 0 .. LineWords - 1
                      /\ w[Head(ack_buf)] = h + 1
                      /\ OwedAt(ack_buf, 1) = h + 1
    OBVIOUS
  <2>1. Head(ack_buf) \in Answer
    BY <1>1, TailFacts
  <2>2. OwedAt(ack_buf, 1) = w[Head(ack_buf)]
    BY <1>1, SumsAreWeights, WeightOfTail
  <2> QED
    BY <2>1, <2>2 DEF OwedWeight, Answer
<1>4. /\ o \in Nat /\ x \in Nat
      /\ Owed(ack_buf') = o - (IF pop THEN h + 1 ELSE 0) + x
  <2>1. /\ Weight(w, PopPush(ack_buf, push, pop, e))
             = Weight(w, ack_buf) - (IF pop THEN w[Head(ack_buf)] ELSE 0)
                                  + (IF push THEN w[e] ELSE 0)
        /\ Weight(w, ack_buf) \in Nat
    <3> HIDE DEF w, push, pop, e
    <3>1. WeightEdge(w, ack_buf, push, pop, e)
      BY <1>1, <1>2, WeightOfEdge
    <3> QED
      BY <3>1 DEF WeightEdge
  <2>2. Owed(ack_buf') = Weight(w, ack_buf') /\ o = Weight(w, ack_buf)
    BY <1>1, <1>2, SumsAreWeights
  <2>3. (IF push THEN w[e] ELSE 0) = x /\ x \in Nat
    BY <1>1, <1>2
  <2>4. (IF pop THEN w[Head(ack_buf)] ELSE 0) = (IF pop THEN h + 1 ELSE 0)
    BY <1>2, <1>3
  <2> QED
    BY <1>2, <2>1, <2>2, <2>3, <2>4
<1>5. ack_buf # <<>> /\ ~pop => OwedAt(ack_buf', 1) = h + 1
  <2> SUFFICES ASSUME ack_buf # <<>>, ~pop PROVE OwedAt(ack_buf', 1) = h + 1
    OBVIOUS
  <2>1. pop = FALSE
    BY <1>2
  <2>2. KeepsHead(ack_buf, PopPush(ack_buf, push, FALSE, e))
    <3> HIDE DEF push, e
    <3> QED
      BY <1>1, <1>2, HeadKept
  <2>3. ack_buf'[1] = Head(ack_buf) /\ 1 \in 1 .. Len(ack_buf')
    BY <1>1, <1>2, <2>1, <2>2, TailFacts DEF KeepsHead
  <2> QED
    BY <2>3 DEF OwedAt
<1>6. AckOpen \/ ack => ack_buf # <<>>
  BY <1>1 DEF BuffersNeverUnderrun
<1>7. pop <=> IF ack /\ ~AckOpen THEN h = 0 ELSE ack /\ ack_cnt = 1
  BY DEF r_ack
<1>8. AnswersOwed = IF AckOpen THEN o - (h + 1) + ack_cnt ELSE o
  BY <1>3, <1>6 DEF AnswersOwed
<1>9. AnswersOwed' = IF AckOpen' THEN Owed(ack_buf') - OwedAt(ack_buf', 1) + ack_cnt'
                                 ELSE Owed(ack_buf')
  BY DEF AnswersOwed
<1>10. AckMachine(ack) /\ LineWords \in Nat \ {0}
  BY LineAssumption DEF Clock
<1> HIDE DEF w, push, pop, e, x, o, h
<1>11. AnswersOwed \in Int
  <2>1. CASE AckOpen
    BY <1>1, <1>3, <1>4, <1>6, <1>8, <1>10, <2>1
  <2>2. CASE ~AckOpen
    BY <1>4, <1>8, <2>2
  <2> QED
    BY <2>1, <2>2
<1>12. AnswersOwed' = AnswersOwed - (IF ack THEN 1 ELSE 0) + x
  <2>1. CASE AckNone(ack)
    <3>1. ~ack /\ ~pop /\ Owed(ack_buf') = o + x /\ ack_cnt' = ack_cnt
      BY <1>4, <1>7, <2>1 DEF AckNone
    <3>2. AckOpen' <=> AckOpen
      BY <2>1 DEF AckNone, AckOpen
    <3>3. CASE AckOpen
      <4>1. OwedAt(ack_buf', 1) = h + 1 /\ h \in Nat
        BY <1>3, <1>5, <1>6, <3>1, <3>3
      <4> QED
        BY <1>1, <1>4, <1>8, <1>9, <1>10, <3>1, <3>2, <3>3, <4>1
    <3>4. CASE ~AckOpen
      BY <1>4, <1>8, <1>9, <3>1, <3>2, <3>4
    <3> QED
      BY <3>3, <3>4
  <2>2. CASE AckFirst(ack)
    <3>1. ack /\ ~AckOpen /\ ack_buf # <<>> /\ ack_cnt' = h /\ h \in Nat
      BY <1>3, <1>6, <2>2 DEF AckFirst, h
    <3>2. AckOpen' <=> h # 0
      BY <2>2, <3>1 DEF AckFirst, AckOpen
    <3>3. CASE h = 0
      BY <1>4, <1>7, <1>8, <1>9, <3>1, <3>2, <3>3
    <3>4. CASE h # 0
      <4>1. ~pop /\ OwedAt(ack_buf', 1) = h + 1
        BY <1>5, <1>7, <3>1, <3>4
      <4> QED
        BY <1>4, <1>8, <1>9, <3>1, <3>2, <3>4, <4>1
    <3> QED
      BY <3>3, <3>4
  <2>3. CASE AckMore(ack)
    <3>1. ack /\ AckOpen /\ ack_buf # <<>> /\ ack_cnt' = ack_cnt - 1 /\ h \in Nat
      BY <1>3, <1>6, <2>3 DEF AckMore
    <3>2. ack_cnt \in Nat \ {0} /\ (AckOpen' <=> ack_cnt # 1)
      BY <1>1, <1>10, <2>3, <3>1 DEF AckMore, AckOpen
    <3>3. CASE ack_cnt = 1
      BY <1>4, <1>7, <1>8, <1>9, <3>1, <3>2, <3>3
    <3>4. CASE ack_cnt # 1
      <4>1. ~pop /\ OwedAt(ack_buf', 1) = h + 1
        BY <1>5, <1>7, <3>1, <3>4
      <4> QED
        BY <1>4, <1>8, <1>9, <3>1, <3>2, <3>4, <4>1
    <3> QED
      BY <3>3, <3>4
  <2> QED
    BY <1>10, <2>1, <2>2, <2>3 DEF AckMachine
<1> QED
  BY <1>11, <1>12 DEF x, push

LEMMA ToSendEdge ==
    ASSUME TypeOK, BuffersNeverUnderrun,
           NEW stall \in BOOLEAN, NEW ack \in BOOLEAN, Clock(stall, ack)
    PROVE  /\ BeatsToSend \in Int
           /\ BeatsToSend' = BeatsToSend - (IF wb_stb /\ ~stall THEN 1 ELSE 0)
                             + (IF req_val THEN Beats(req_hdr_data) + 1 ELSE 0)
<1> DEFINE w == ToSendWeight
           push == req_val
           pop == hdr_finished(stall)
           e == req_hdr_data
           x == IF push THEN Beats(req_hdr_data) + 1 ELSE 0
           o == ToSend(hdr)
           h == Beats(Head(hdr))
<1>1. /\ hdr \in Seq(Request) /\ Len(hdr) <= 4
      /\ tr_cnt \in 0 .. LineWords - 1
      /\ ack => bus # <<>>
      /\ w \in [Request -> Nat]
  BY SumsAreWeights DEF TypeOK, Clock, HdrDepth
<1>2. /\ push \in BOOLEAN /\ pop \in BOOLEAN
      /\ push => e \in Request /\ Len(hdr) < 4 /\ w[e] = Beats(req_hdr_data) + 1
      /\ pop => hdr # <<>>
      /\ hdr' = PopPush(hdr, push, pop, e)
      /\ hdr' \in Seq(Request)
  <2>1. push => e \in Request /\ Len(hdr) < 4
    BY RequestWires DEF HdrDepth
  <2>2. TypeOK'
    BY TypeStep
  <2> QED
    BY <1>1, <2>1, <2>2, RequestWires, PopWires, BuffersEdge DEF ToSendWeight, TypeOK
<1>3. hdr # <<>> => /\ h \in 0 .. LineWords - 1
                    /\ w[Head(hdr)] = h + 1
                    /\ ToSendAt(hdr, 1) = h + 1
  <2> SUFFICES ASSUME hdr # <<>>
               PROVE  /\ h \in 0 .. LineWords - 1
                      /\ w[Head(hdr)] = h + 1
                      /\ ToSendAt(hdr, 1) = h + 1
    OBVIOUS
  <2>1. Head(hdr) \in Request
    BY <1>1, TailFacts
  <2>2. ToSendAt(hdr, 1) = w[Head(hdr)]
    BY <1>1, SumsAreWeights, WeightOfTail
  <2>3. h \in 0 .. LineWords - 1
    BY LineAssumption DEF Beats
  <2> QED
    BY <2>1, <2>2, <2>3 DEF ToSendWeight
<1>4. /\ o \in Nat /\ x \in Nat
      /\ ToSend(hdr') = o - (IF pop THEN h + 1 ELSE 0) + x
  <2>1. /\ Weight(w, PopPush(hdr, push, pop, e))
             = Weight(w, hdr) - (IF pop THEN w[Head(hdr)] ELSE 0)
                              + (IF push THEN w[e] ELSE 0)
        /\ Weight(w, hdr) \in Nat
    <3> HIDE DEF w, push, pop, e
    <3>1. WeightEdge(w, hdr, push, pop, e)
      BY <1>1, <1>2, WeightOfEdge
    <3> QED
      BY <3>1 DEF WeightEdge
  <2>2. ToSend(hdr') = Weight(w, hdr') /\ o = Weight(w, hdr)
    BY <1>1, <1>2, SumsAreWeights
  <2>3. (IF push THEN w[e] ELSE 0) = x /\ x \in Nat
    BY <1>1, <1>2
  <2>4. (IF pop THEN w[Head(hdr)] ELSE 0) = (IF pop THEN h + 1 ELSE 0)
    BY <1>2, <1>3
  <2> QED
    BY <1>2, <2>1, <2>2, <2>3, <2>4
<1>5. hdr # <<>> /\ ~pop => ToSendAt(hdr', 1) = h + 1
  <2> SUFFICES ASSUME hdr # <<>>, ~pop PROVE ToSendAt(hdr', 1) = h + 1
    OBVIOUS
  <2>1. pop = FALSE
    BY <1>2
  <2>2. KeepsHead(hdr, PopPush(hdr, push, FALSE, e))
    <3> HIDE DEF push, e
    <3> QED
      BY <1>1, <1>2, HeadKept
  <2>3. hdr'[1] = Head(hdr) /\ 1 \in 1 .. Len(hdr')
    BY <1>1, <1>2, <2>1, <2>2, TailFacts DEF KeepsHead
  <2> QED
    BY <2>3 DEF ToSendAt
<1>6. wb_stb => hdr # <<>>
  BY DEF BuffersNeverUnderrun
<1>7. pop <=> wb_stb /\ tr_cnt = 0 /\ ~stall
  BY DEF hdr_finished
<1>8. BeatsToSend = IF wb_stb THEN o - (h + 1) + tr_cnt + 1 ELSE o
  BY <1>3, <1>6 DEF BeatsToSend
<1>9. BeatsToSend' = IF wb_stb' THEN ToSend(hdr') - ToSendAt(hdr', 1) + tr_cnt' + 1
                                ELSE ToSend(hdr')
  BY DEF BeatsToSend
<1>10. Tr(stall) /\ LineWords \in Nat \ {0}
  BY LineAssumption DEF Clock
<1> HIDE DEF w, push, pop, e, x, o
<1>11. BeatsToSend \in Int
  <2>1. CASE wb_stb
    BY <1>1, <1>3, <1>4, <1>6, <1>8, <1>10, <2>1
  <2>2. CASE ~wb_stb
    BY <1>4, <1>8, <2>2
  <2> QED
    BY <2>1, <2>2
<1>12. BeatsToSend' = BeatsToSend - (IF wb_stb /\ ~stall THEN 1 ELSE 0) + x
  <2>1. CASE TrIdle
    <3>1. ~wb_stb /\ ~wb_stb' /\ ~pop
      BY <1>7, <2>1 DEF TrIdle, wb_stb, trVars
    <3> QED
      BY <1>4, <1>8, <1>9, <3>1
  <2>2. CASE TrStart
    <3>1. ~wb_stb /\ wb_stb' /\ ~pop /\ hdr # <<>> /\ tr_cnt' = h
      BY <1>7, <2>2 DEF TrStart, wb_stb
    <3>2. ToSendAt(hdr', 1) = h + 1 /\ h \in 0 .. LineWords - 1
      BY <1>3, <1>5, <3>1
    <3> HIDE DEF h
    <3> QED
      BY <1>4, <1>8, <1>9, <1>10, <3>1, <3>2
  <2>3. CASE TrStall(stall)
    <3>1. wb_stb /\ wb_stb' /\ stall /\ ~pop /\ tr_cnt' = tr_cnt
      BY <1>7, <2>3 DEF TrStall, wb_stb, trVars
    <3>2. ToSendAt(hdr', 1) = h + 1 /\ h \in 0 .. LineWords - 1
      BY <1>3, <1>5, <1>6, <3>1
    <3> HIDE DEF h
    <3> QED
      BY <1>1, <1>4, <1>8, <1>9, <1>10, <3>1, <3>2
  <2>4. CASE TrBeat(stall)
    <3>1. wb_stb /\ wb_stb' /\ ~stall /\ ~pop /\ tr_cnt' = tr_cnt - 1
      BY <1>7, <2>4 DEF TrBeat, wb_stb
    <3>2. ToSendAt(hdr', 1) = h + 1 /\ h \in 0 .. LineWords - 1
      BY <1>3, <1>5, <1>6, <3>1
    <3> HIDE DEF h
    <3> QED
      BY <1>1, <1>4, <1>8, <1>9, <1>10, <3>1, <3>2
  <2>5. CASE TrLast(stall)
    <3>1. wb_stb /\ ~wb_stb' /\ ~stall /\ pop /\ tr_cnt = 0
      BY <1>7, <2>5 DEF TrLast, wb_stb
    <3>2. h \in 0 .. LineWords - 1
      BY <1>3, <1>6, <3>1
    <3> HIDE DEF h
    <3> QED
      BY <1>1, <1>4, <1>8, <1>9, <1>10, <3>1, <3>2
  <2> QED
    BY <1>10, <2>1, <2>2, <2>3, <2>4, <2>5 DEF Tr
<1> QED
  BY <1>11, <1>12 DEF x, push

LEMMA BusEdge ==
    ASSUME TypeOK, BuffersNeverUnderrun,
           NEW stall \in BOOLEAN, NEW ack \in BOOLEAN, Clock(stall, ack)
    PROVE  /\ Len(bus) \in Nat
           /\ Len(bus') = Len(bus) - (IF ack THEN 1 ELSE 0)
                                   + (IF wb_stb /\ ~stall THEN 1 ELSE 0)
<1> DEFINE B == [we : BOOLEAN, adr : Nat]
           left == IF ack THEN Tail(bus) ELSE bus
           b == [we |-> wb_we, adr |-> tr_addr]
           n == IF ack THEN 1 ELSE 0
<1>1. bus \in Seq(B) /\ (ack => bus # <<>>)
  BY DEF TypeOK, Clock
<1>2. left \in Seq(B) /\ Len(bus) \in Nat /\ Len(left) = Len(bus) - n
  BY <1>1, TailFacts
<1>3. wb_stb => b \in B
  BY <1>1, PopWires DEF wb_we, Request, TypeOK
<1>4. bus' = IF wb_stb /\ ~stall THEN Append(left, b) ELSE left
  BY DEF Clock, Bus
<1>5. n \in Nat
  OBVIOUS
<1> HIDE DEF left, b, B, n
<1>6. CASE wb_stb /\ ~stall
  <2>1. Len(bus') = Len(left) + 1
    BY <1>2, <1>3, <1>4, <1>6, AppendFacts
  <2>2. Len(bus') = Len(bus) - n + 1
    BY <1>2, <2>1
  <2> QED
    BY <1>2, <1>6, <2>2 DEF n
<1>7. CASE ~(wb_stb /\ ~stall)
  <2>1. Len(bus') = Len(bus) - n + 0
    BY <1>2, <1>4, <1>5, <1>7
  <2> QED
    BY <1>2, <1>7, <2>1 DEF n
<1> QED
  BY <1>6, <1>7

LEMMA BeatsStep ==
    ASSUME TypeOK, BuffersNeverUnderrun, BeatsAreConserved,
           NEW stall \in BOOLEAN, NEW ack \in BOOLEAN, Clock(stall, ack)
    PROVE  BeatsAreConserved'
<1> DEFINE owed == AnswersOwed
           send == BeatsToSend
           l == Len(bus)
           i == IF ack THEN 1 ELSE 0
           j == IF wb_stb /\ ~stall THEN 1 ELSE 0
           x == IF req_val THEN Beats(req_hdr_data) + 1 ELSE 0
<1>1. owed \in Int /\ AnswersOwed' = owed - i + x
  BY OwedEdge
<1>2. send \in Int /\ BeatsToSend' = send - j + x
  BY ToSendEdge
<1>3. l \in Int /\ Len(bus') = l - i + j
  BY BusEdge
<1>4. x \in Int /\ i \in Int /\ j \in Int
  BY LineAssumption DEF Beats
<1>5. owed = l + send
  BY DEF BeatsAreConserved
<1> HIDE DEF owed, send, l, i, j, x
<1>6. AnswersOwed' = Len(bus') + BeatsToSend'
  BY <1>1, <1>2, <1>3, <1>4, <1>5
<1> QED
  BY <1>6 DEF BeatsAreConserved

(***************************************************************************)
(* A word of data for every write.                                         *)
(***************************************************************************)
LEMMA DataStep ==
    ASSUME TypeOK, BuffersNeverUnderrun, DataPerWrite,
           NEW stall \in BOOLEAN, NEW ack \in BOOLEAN, Clock(stall, ack)
    PROVE  DataPerWrite'
<1> DEFINE w == WriteWeight
           push == req_val
           pop == hdr_finished(stall)
           e == req_hdr_data
           d == IF dat_finished(stall) THEN 1 ELSE 0
           x == IF req_wr THEN 1 ELSE 0
<1>1. /\ hdr \in Seq(Request) /\ Len(hdr) <= 4
      /\ dat \in Seq(Nat)
      /\ w \in [Request -> Nat]
      /\ ack => bus # <<>>
  BY SumsAreWeights DEF TypeOK, HdrDepth, Clock
<1>2. /\ push \in BOOLEAN /\ pop \in BOOLEAN
      /\ push => e \in Request /\ Len(hdr) < 4
      /\ pop => hdr # <<>>
      /\ hdr' = PopPush(hdr, push, pop, e)
      /\ hdr' \in Seq(Request)
  <2>1. push => e \in Request /\ Len(hdr) < 4
    BY RequestWires DEF HdrDepth
  <2>2. hdr' \in Seq(Request)
    BY TypeStep DEF TypeOK
  <2> QED
    BY <1>1, <2>1, <2>2, RequestWires, PopWires, BuffersEdge
<1>3. (IF push THEN w[e] ELSE 0) = x
  BY <1>2, RequestWires DEF WriteWeight
<1>4. (IF pop THEN w[Head(hdr)] ELSE 0) = d
  <2>1. pop => Head(hdr) \in Request
    BY <1>1, <1>2, TailFacts
  <2> QED
    BY <2>1 DEF dat_finished, wb_we, WriteWeight
<1>5. Writes(hdr') = Writes(hdr) - d + x /\ Writes(hdr) \in Nat
  <2>1. WeightEdge(w, hdr, push, pop, e)
    <3> HIDE DEF w, push, pop, e
    <3> QED
      BY <1>1, <1>2, WeightOfEdge
  <2>2. Writes(hdr') = Weight(w, hdr') /\ Writes(hdr) = Weight(w, hdr)
    BY <1>1, <1>2, SumsAreWeights
  <2> QED
    BY <1>2, <1>3, <1>4, <2>1, <2>2 DEF WeightEdge
<1>6. Len(dat') = Len(dat) + x - d /\ Len(dat) \in Nat
  <2>1. dat' = PopPush(dat, req_wr, dat_finished(stall), dreq.addr)
    BY BuffersEdge
  <2>2. /\ req_wr \in BOOLEAN /\ (req_wr => dreq.addr \in Nat)
        /\ dat_finished(stall) \in BOOLEAN /\ (dat_finished(stall) => dat # <<>>)
    BY <1>1, RequestWires, PopWires
  <2>3. /\ Len(PopPush(dat, req_wr, dat_finished(stall), dreq.addr))
             = LenAfter(dat, req_wr, dat_finished(stall))
        /\ Len(dat) \in Nat
    <3> HIDE DEF w, push, pop, e, d, x
    <3> DEFINE fin == dat_finished(stall)
               adr == dreq.addr
    <3>1. dat \in Seq(Nat)
      BY <1>1
    <3>2. /\ req_wr \in BOOLEAN /\ (req_wr => adr \in Nat)
          /\ fin \in BOOLEAN /\ (fin => dat # <<>>)
      BY <2>2
    <3> HIDE DEF fin, adr
    <3>3. LenEdge(dat, req_wr, fin, adr)
      BY <3>1, <3>2, LenOfEdge
    <3> QED
      BY <3>3 DEF LenEdge, fin, adr
  <2> QED
    BY <2>1, <2>3 DEF LenAfter
<1>7. d \in Int /\ x \in Int
  OBVIOUS
<1> HIDE DEF d, x
<1>8. Len(dat') = Writes(hdr')
  BY <1>5, <1>6, <1>7 DEF DataPerWrite
<1> QED
  BY <1>8 DEF DataPerWrite

(***************************************************************************)
(* No underrun: what the two machines work on is in the buffers (an edge   *)
(* keeps that), and the balance of beats and data does the rest.           *)
(***************************************************************************)
AtWork == /\ wb_stb => hdr # <<>>
          /\ AckOpen => ack_buf # <<>>

LEMMA Covered ==
    TypeOK /\ BeatsAreConserved /\ DataPerWrite /\ AtWork => BuffersNeverUnderrun
<1> SUFFICES ASSUME TypeOK, BeatsAreConserved, DataPerWrite, AtWork
             PROVE  BuffersNeverUnderrun
  OBVIOUS
<1>1. /\ hdr \in Seq(Request) /\ Len(hdr) <= 4
      /\ ack_buf \in Seq(Answer) /\ Len(bus) \in Nat
      /\ dat \in Seq(Nat) /\ bus \in Seq([we : BOOLEAN, adr : Nat])
      /\ tr_cnt \in Nat /\ LineWords \in Nat \ {0}
  BY LineAssumption DEF TypeOK, HdrDepth
<1>2. hdr # <<>> => /\ Head(hdr) \in Request
                    /\ ToSend(hdr) \in Nat /\ ToSend(hdr) >= ToSendAt(hdr, 1)
                    /\ ToSendAt(hdr, 1) \in Nat
                    /\ Writes(hdr) >= IF wb_we THEN 1 ELSE 0
                    /\ Writes(hdr) \in Nat
  <2> SUFFICES ASSUME hdr # <<>>
               PROVE  /\ Head(hdr) \in Request
                      /\ ToSend(hdr) \in Nat /\ ToSend(hdr) >= ToSendAt(hdr, 1)
                      /\ ToSendAt(hdr, 1) \in Nat
                      /\ Writes(hdr) >= IF wb_we THEN 1 ELSE 0
                      /\ Writes(hdr) \in Nat
    OBVIOUS
  <2>1. Head(hdr) \in Request
    BY <1>1, TailFacts
  <2>2. /\ WeightAt(ToSendWeight, hdr, 1) = ToSendWeight[Head(hdr)]
        /\ Weight(ToSendWeight, hdr) \in Nat
        /\ Weight(ToSendWeight, hdr) >= ToSendWeight[Head(hdr)]
    BY <1>1, SumsAreWeights, WeightOfTail
  <2>3. /\ Weight(WriteWeight, hdr) \in Nat
        /\ Weight(WriteWeight, hdr) >= WriteWeight[Head(hdr)]
    BY <1>1, SumsAreWeights, WeightOfTail
  <2>4. ToSendWeight[Head(hdr)] \in Nat
    BY <2>1, SumsAreWeights
  <2>5. WriteWeight[Head(hdr)] = IF wb_we THEN 1 ELSE 0
    BY <2>1 DEF WriteWeight, wb_we
  <2>6. /\ ToSend(hdr) = Weight(ToSendWeight, hdr)
        /\ ToSendAt(hdr, 1) = WeightAt(ToSendWeight, hdr, 1)
        /\ Writes(hdr) = Weight(WriteWeight, hdr)
    BY <1>1, SumsAreWeights
  <2> QED
    BY <2>1, <2>2, <2>3, <2>4, <2>5, <2>6
<1>3. hdr = <<>> => ToSend(hdr) = 0
  BY DEF ToSend, ToSendAt
<1>4. BeatsToSend \in Nat /\ (wb_stb => BeatsToSend > 0)
  <2>1. CASE wb_stb
    BY <1>1, <1>2, <2>1 DEF BeatsToSend, AtWork
  <2>2. CASE ~wb_stb
    BY <1>2, <1>3, <2>2 DEF BeatsToSend
  <2> QED
    BY <2>1, <2>2
<1>5. ack_buf = <<>> => AnswersOwed = 0
  BY DEF AtWork, AnswersOwed, Owed, OwedAt
<1>6. AnswersOwed = Len(bus) + BeatsToSend
  BY DEF BeatsAreConserved
<1>7. wb_stb => hdr # <<>> /\ ack_buf # <<>>
  BY <1>1, <1>4, <1>5, <1>6 DEF AtWork
<1>8. wb_stb /\ wb_we => dat # <<>>
  <2> SUFFICES ASSUME wb_stb, wb_we PROVE dat # <<>>
    OBVIOUS
  <2>1. Writes(hdr) \in Nat /\ Writes(hdr) >= 1
    BY <1>2 DEF AtWork
  <2>2. Len(dat) # 0
    BY <2>1 DEF DataPerWrite
  <2> QED
    BY <2>2
<1>9. bus # <<>> => ack_buf # <<>>
  <2> SUFFICES ASSUME bus # <<>> PROVE ack_buf # <<>>
    OBVIOUS
  <2>1. Len(bus) \in Nat \ {0}
    BY <1>1, TailFacts
  <2> QED
    BY <1>4, <1>5, <1>6, <2>1
<1> QED
  BY <1>7, <1>8, <1>9 DEF BuffersNeverUnderrun, AtWork

LEMMA AtWorkStep ==
    ASSUME TypeOK, BuffersNeverUnderrun,
           NEW stall \in BOOLEAN, NEW ack \in BOOLEAN, Clock(stall, ack)
    PROVE  AtWork'
<1>1. ack => bus # <<>>
  BY DEF Clock
<1>2. wb_stb' => hdr' # <<>>
  <2>1. wb_stb' => hdr # <<>> /\ ~hdr_finished(stall)
    BY DEF Clock, Tr, TrIdle, TrStart, TrStall, TrBeat, TrLast, trVars, wb_stb,
           hdr_finished, BuffersNeverUnderrun
  <2> SUFFICES ASSUME wb_stb' PROVE hdr' # <<>>
    OBVIOUS
  <2>2. hdr_finished(stall) = FALSE
    BY <1>1, <2>1, PopWires
  <2>3. hdr \in Seq(Request) /\ hdr # <<>>
    BY <2>1 DEF TypeOK
  <2>4. KeepsHead(hdr, PopPush(hdr, req_val, FALSE, req_hdr_data))
    BY <2>3, RequestWires, HeadKept
  <2> QED
    BY <2>2, <2>4, BuffersEdge DEF KeepsHead
<1>3. AckOpen' => ack_buf' # <<>>
  <2>1. AckOpen' => ack_buf # <<>> /\ ~r_ack(ack)
    <3>1. AckMachine(ack)
      BY DEF Clock
    <3>2. /\ AckOpen \/ ack => ack_buf # <<>>
          /\ ack_cnt \in 0 .. LineWords - 1
      BY <1>1 DEF BuffersNeverUnderrun, TypeOK
    <3>3. CASE AckNone(ack)
      BY <3>2, <3>3 DEF AckNone, AckOpen, r_ack
    <3>4. CASE AckFirst(ack)
      BY <3>2, <3>4 DEF AckFirst, AckOpen, r_ack
    <3>5. CASE AckMore(ack)
      BY <3>2, <3>5 DEF AckMore, AckOpen, r_ack
    <3> QED
      BY <3>1, <3>3, <3>4, <3>5 DEF AckMachine
  <2> SUFFICES ASSUME AckOpen' PROVE ack_buf' # <<>>
    OBVIOUS
  <2>2. r_ack(ack) = FALSE
    BY <1>1, <2>1, PopWires
  <2>3. ack_buf \in Seq(Answer) /\ ack_buf # <<>>
    BY <2>1 DEF TypeOK
  <2>4. KeepsHead(ack_buf, PopPush(ack_buf, req_val, FALSE, w_ack_data))
    BY <2>3, RequestWires, HeadKept
  <2> QED
    BY <2>2, <2>4, BuffersEdge DEF KeepsHead
<1> QED
  BY <1>2, <1>3 DEF AtWork
-----------------------------------------------------------------------------
LEMMA InvInit == Init => IInv
<1> SUFFICES ASSUME Init PROVE IInv
  OBVIOUS
<1>1. TypeOK
  <2>1. /\ ack_data \in Seq(Nat \cup {None}) /\ Len(ack_data) = LineWords
    <3>1. ack_data = [k \in 1 .. LineWords |-> None] /\ LineWords \in Nat
      BY LineAssumption DEF Init
    <3> QED
      BY <3>1
  <2>2. /\ hdr = <<>> /\ dat = <<>> /\ ack_buf = <<>> /\ bus = <<>>
        /\ Len(hdr) <= HdrDepth /\ Len(dat) <= DatDepth /\ Len(ack_buf) <= AckDepth
    BY DEF Init, HdrDepth, DatDepth, AckDepth
  <2>3. 0 \in 0 .. LineWords - 1
    BY LineAssumption
  <2>4. /\ dreq = None /\ ireq = None /\ d_acc = FALSE /\ i_acc = FALSE
        /\ tr_state = "IDLE" /\ tr_addr = 0 /\ tr_cnt = 0
        /\ ack_state = "IDLE" /\ ack_cnt = 0 /\ ack_r \in Grant
    BY DEF Init
  <2>5. \A S : <<>> \in Seq(S)
    OBVIOUS
  <2> QED
    BY <2>1, <2>2, <2>3, <2>4, <2>5 DEF TypeOK
<1>2. OneReadPerPort
  BY DEF Init, OneReadPerPort, OwesOne, AtMostOne, Reads, l1d_rd_ack, l1i_req_ack, req_ack
<1>3. BeatsAreConserved
  BY DEF Init, BeatsAreConserved, AnswersOwed, BeatsToSend, AckOpen, wb_stb,
         Owed, OwedAt, ToSend, ToSendAt
<1>4. DataPerWrite
  BY DEF Init, DataPerWrite, Writes, WriteAt
<1>5. BuffersNeverUnderrun
  BY DEF Init, BuffersNeverUnderrun, wb_stb, AckOpen
<1> QED
  BY <1>1, <1>2, <1>3, <1>4, <1>5 DEF IInv

LEMMA InvStep == IInv /\ [Next]_vars => IInv'
<1>1. ASSUME IInv, NEW stall \in BOOLEAN, NEW ack \in BOOLEAN, Clock(stall, ack)
      PROVE  IInv'
  <2>1. TypeOK' /\ OneReadPerPort' /\ BeatsAreConserved' /\ DataPerWrite' /\ AtWork'
    BY <1>1, TypeStep, OneReadStep, BeatsStep, DataStep, AtWorkStep DEF IInv
  <2>2. BuffersNeverUnderrun'
    BY <2>1, Covered, PTL
  <2> QED
    BY <2>1, <2>2 DEF IInv
<1>2. ASSUME IInv, UNCHANGED vars PROVE IInv'
  <2>1. TypeOK' /\ OneReadPerPort'
    BY <1>2 DEF IInv, vars, ports, bufs, trVars, ackVars, TypeOK, OneReadPerPort, OwesOne,
                l1d_rd_ack, l1i_req_ack, req_ack
  <2>2. BeatsAreConserved' /\ DataPerWrite' /\ BuffersNeverUnderrun'
    BY <1>2 DEF IInv, vars, ports, bufs, trVars, ackVars, BeatsAreConserved, AnswersOwed,
                BeatsToSend, AckOpen, wb_stb, wb_we, DataPerWrite, BuffersNeverUnderrun
  <2> QED
    BY <2>1, <2>2 DEF IInv
<1> QED
  BY <1>1, <1>2 DEF Next

(* For every line length and set of requests: the state stays well typed,  *)
(* every port is owed at most one read and gets it only while it asks,     *)
(* beats and write data balance, and no buffer is read when it is empty.   *)
THEOREM Invariance == Spec => []IInv
<1> QED
  BY InvInit, InvStep, PTL DEF Spec

(* The sizes of the three FIFOs are never exceeded and the registers stay  *)
(* in their ranges.                                                        *)
THEOREM TypeCorrect == Spec => []TypeOK
<1>1. IInv => TypeOK
  BY DEF IInv
<1> QED
  BY <1>1, Invariance, PTL

(* The accepted flags of the arbiter and the acknowledge FIFO agree.       *)
THEOREM OneRead == Spec => []OneReadPerPort
<1>1. IInv => OneReadPerPort
  BY DEF IInv
<1> QED
  BY <1>1, Invariance, PTL

(* The two machines never disagree on the number of beats.                 *)
THEOREM Conservation == Spec => [](BeatsAreConserved /\ DataPerWrite)
<1>1. IInv => BeatsAreConserved /\ DataPerWrite
  BY DEF IInv
<1> QED
  BY <1>1, Invariance, PTL

(* SyncFifo's condition on its reader holds for all three FIFOs.           *)
THEOREM NoUnderrun == Spec => []BuffersNeverUnderrun
<1>1. IInv => BuffersNeverUnderrun
  BY DEF IInv
<1> QED
  BY <1>1, Invariance, PTL
-----------------------------------------------------------------------------
(***************************************************************************)
(* Sequences of words.                                                     *)
(***************************************************************************)
LEMMA FirstWord ==
    ASSUME NEW V, NEW x \in V, NEW y \in V, NEW a \in Seq(V), NEW b \in Seq(V)
    PROVE  /\ <<x>> \o a \in Seq(V)
           /\ <<x>> \o a = <<y>> \o b => x = y /\ a = b
<1>1. <<x>> \in Seq(V) /\ Len(<<x>>) = 1 /\ <<x>>[1] = x /\ <<y>> \in Seq(V)
        /\ Len(<<y>>) = 1 /\ <<y>>[1] = y
  OBVIOUS
<1> DEFINE s == <<x>>
           t == <<y>>
<1> HIDE DEF s, t
<1>2. s \in Seq(V) /\ t \in Seq(V) /\ Len(s) = 1 /\ Len(t) = 1 /\ s[1] = x /\ t[1] = y
  BY <1>1 DEF s, t
<1>3. s \o a \in Seq(V)
  BY <1>2, ConcatProperties
<1>4. s \o a = t \o b => x = y
  <2>1. (s \o a)[1] = x
    BY <1>2, ConcatProperties, LenProperties
  <2>2. (t \o b)[1] = y
    BY <1>2, ConcatProperties, LenProperties
  <2> QED
    BY <2>1, <2>2
<1>5. s \o a = s \o b => a = b
  BY <1>2, ConcatSimplifications
<1> QED
  BY <1>3, <1>4, <1>5 DEF s, t

LEMMA OneBefore ==
    ASSUME NEW V, NEW u \in Seq(V), NEW t \in Seq(V), Len(u) = 1
    PROVE  /\ u \o t \in Seq(V) /\ Len(u \o t) = 1 + Len(t)
           /\ \A i \in 1 .. 1 + Len(t) : (u \o t)[i] = IF i <= 1 THEN u[i] ELSE t[i - 1]
<1> DEFINE l == Len(u)
<1>1. /\ u \o t \in Seq(V) /\ Len(u \o t) = l + Len(t)
      /\ \A i \in 1 .. l + Len(t) : (u \o t)[i] = IF i <= l THEN u[i] ELSE t[i - l]
  BY ConcatProperties
<1>2. l = 1
  OBVIOUS
<1> HIDE DEF l
<1> QED
  BY <1>1, <1>2

(* A sequence is its head and its tail.                                    *)
LEMMA HeadAndTail ==
    ASSUME NEW V, NEW s \in Seq(V), s # <<>>
    PROVE  s = <<Head(s)>> \o Tail(s)
<1> DEFINE x == Head(s)
           t == Tail(s)
           u == <<x>>
<1>1. x \in V /\ x = s[1] /\ t \in Seq(V) /\ Len(t) = Len(s) - 1 /\ Len(s) \in Nat \ {0}
        /\ \A k \in 1 .. Len(s) - 1 : t[k] = s[k + 1]
  BY TailFacts
<1>2. u \in Seq(V) /\ Len(u) = 1 /\ u[1] = x
  BY <1>1
<1> HIDE DEF x, t, u
<1>3. /\ u \o t \in Seq(V) /\ Len(u \o t) = 1 + Len(t)
      /\ \A i \in 1 .. 1 + Len(t) : (u \o t)[i] = IF i <= 1 THEN u[i] ELSE t[i - 1]
  BY <1>1, <1>2, OneBefore
<1>4. ASSUME NEW i \in 1 .. Len(s) PROVE s[i] = (u \o t)[i]
  <2>1. CASE i = 1
    BY <1>1, <1>2, <1>3, <2>1
  <2>2. CASE i # 1
    <3>1. i - 1 \in 1 .. Len(s) - 1 /\ i \in 1 .. 1 + Len(t)
      BY <1>1, <2>2
    <3>2. (u \o t)[i] = t[i - 1]
      BY <1>3, <2>2, <3>1
    <3>3. t[i - 1] = s[(i - 1) + 1]
      BY <1>1, <3>1
    <3> QED
      BY <3>2, <3>3
  <2> QED
    BY <2>1, <2>2
<1>5. s = u \o t
  BY <1>1, <1>3, <1>4, SeqEqual
<1> QED
  BY <1>5 DEF x, t, u

LEMMA SameFirst ==
    ASSUME NEW V, NEW x \in V, NEW a \in V, NEW y \in Seq(V), NEW q \in Seq(V),
           <<x>> \o y = <<a>> \o q
    PROVE  x = a /\ y = q
<1> DEFINE s == <<x>>
           t == <<a>>
<1>1. s \in Seq(V) /\ t \in Seq(V) /\ Len(s) = 1 /\ Len(t) = 1 /\ s[1] = x /\ t[1] = a
  OBVIOUS
<1>2. s \o y = t \o q
  OBVIOUS
<1> HIDE DEF s, t
<1>3. (s \o y)[1] = x
  BY <1>1, ConcatProperties, LenProperties
<1>4. (t \o q)[1] = a
  BY <1>1, ConcatProperties, LenProperties
<1>5. x = a
  BY <1>2, <1>3, <1>4
<1>6. s \o y = s \o q
  BY <1>2, <1>5 DEF s, t
<1>7. y = q
  BY <1>1, <1>6, ConcatSimplifications
<1> QED
  BY <1>5, <1>7

LEMMA TakeFirst ==
    ASSUME NEW V, NEW a \in V, NEW q \in Seq(V), NEW s \in Seq(V), s # <<>>, s = <<a>> \o q
    PROVE  Head(s) = a /\ Tail(s) = q
<1> DEFINE x == Head(s)
           y == Tail(s)
<1>1. x \in V /\ y \in Seq(V) /\ s = <<x>> \o y
  BY HeadAndTail, TailFacts
<1> HIDE DEF x, y
<1>2. <<x>> \o y = <<a>> \o q
  BY <1>1
<1>3. x \in V /\ a \in V /\ y \in Seq(V) /\ q \in Seq(V)
  BY <1>1
<1>4. x = a /\ y = q
  BY <1>2, <1>3, SameFirst, SMTT(90)
<1> QED
  BY <1>4 DEF x, y

Words(base, n) == [k \in 1 .. n |-> base + k - 1]

LEMMA WordsFacts ==
    ASSUME NEW b \in Nat, NEW n \in Nat
    PROVE  /\ Words(b, n) \in Seq(Nat \cup {None}) /\ Len(Words(b, n)) = n
           /\ \A k \in 1 .. n : Words(b, n)[k] = b + k - 1
           /\ n = 0 => Words(b, n) = <<>>
  BY DEF Words

LEMMA WordsFirst ==
    ASSUME NEW b \in Nat, NEW n \in Nat \ {0}
    PROVE  Words(b, n) = <<b>> \o Words(b + 1, n - 1)
<1> DEFINE V == Nat \cup {None}
           s == Words(b, n)
           t == Words(b + 1, n - 1)
           u == <<b>>
<1>1. /\ s \in Seq(V) /\ Len(s) = n
      /\ \A k \in 1 .. n : s[k] = b + k - 1
  BY WordsFacts
<1>2. /\ t \in Seq(V) /\ Len(t) = n - 1
      /\ \A k \in 1 .. n - 1 : t[k] = b + 1 + k - 1
  <2>1. b + 1 \in Nat /\ n - 1 \in Nat
    OBVIOUS
  <2> QED
    BY <2>1, WordsFacts
<1>3. u \in Seq(V) /\ Len(u) = 1 /\ u[1] = b
  OBVIOUS
<1> HIDE DEF V, s, t, u
<1>4. /\ u \o t \in Seq(V) /\ Len(u \o t) = 1 + Len(t)
      /\ \A i \in 1 .. 1 + Len(t) : (u \o t)[i] = IF i <= 1 THEN u[i] ELSE t[i - 1]
  BY <1>2, <1>3, OneBefore
<1>5. ASSUME NEW i \in 1 .. n PROVE s[i] = (u \o t)[i]
  <2>0. i \in 1 .. 1 + Len(t) /\ i \in Int
    BY <1>2
  <2>1. CASE i = 1
    <3>1. (u \o t)[1] = u[1]
      BY <1>4, <2>0, <2>1
    <3>2. s[1] = b
      BY <1>1, <2>1
    <3> QED
      BY <1>3, <2>1, <3>1, <3>2
  <2>2. CASE i # 1
    <3>1. i - 1 \in 1 .. n - 1
      BY <2>2
    <3>2. (u \o t)[i] = t[i - 1]
      BY <1>4, <2>0, <2>2
    <3>3. t[i - 1] = b + 1 + (i - 1) - 1
      BY <1>2, <3>1
    <3> QED
      BY <1>1, <2>0, <3>2, <3>3
  <2> QED
    BY <2>1, <2>2
<1>6. Len(u \o t) = n
  BY <1>2, <1>4
<1>7. s = u \o t
  BY <1>1, <1>4, <1>5, <1>6, SeqEqual
<1> QED
  BY <1>7 DEF s, t, u

(***************************************************************************)
(* The stream of a buffer of at most four entries: the words its entries   *)
(* stand for, one after the other, and how an edge changes it.             *)
(***************************************************************************)
PartAt(w, s, k) == IF k \in 1 .. Len(s) THEN w[s[k]] ELSE <<>>
Stream(w, s) == PartAt(w, s, 1) \o (PartAt(w, s, 2) \o (PartAt(w, s, 3) \o PartAt(w, s, 4)))

LEMMA PartType ==
    ASSUME NEW S, NEW V, NEW w \in [S -> Seq(V)], NEW s \in Seq(S), NEW k \in Nat
    PROVE  PartAt(w, s, k) \in Seq(V)
<1>1. CASE k \in 1 .. Len(s)
  <2>1. s[k] \in S
    BY <1>1, ElementOfSeq
  <2> QED
    BY <1>1, <2>1 DEF PartAt
<1>2. CASE k \notin 1 .. Len(s)
  BY <1>2, EmptySeq DEF PartAt
<1> QED
  BY <1>1, <1>2

LEMMA LeftOfFour ==
    ASSUME NEW V, NEW a \in Seq(V), NEW b \in Seq(V), NEW c \in Seq(V), NEW d \in Seq(V)
    PROVE  a \o (b \o (c \o d)) = ((a \o b) \o c) \o d
<1>1. c \o d \in Seq(V) /\ a \o b \in Seq(V)
  BY ConcatProperties
<1>2. a \o (b \o (c \o d)) = (a \o b) \o (c \o d)
  BY <1>1, ConcatAssociative, SMTT(90)
<1>3. (a \o b) \o (c \o d) = ((a \o b) \o c) \o d
  BY <1>1, ConcatAssociative, SMTT(90)
<1> QED
  BY <1>2, <1>3

LEMMA ConcatOfFour ==
    ASSUME NEW V, NEW a \in Seq(V), NEW b \in Seq(V), NEW c \in Seq(V), NEW d \in Seq(V)
    PROVE  /\ a \o (b \o (c \o d)) \in Seq(V)
           /\ b \o (c \o (d \o <<>>)) = b \o (c \o d)
<1>1. b \o (c \o d) \in Seq(V)
  <2>1. c \o d \in Seq(V)
    BY ConcatProperties
  <2> QED
    BY <2>1, ConcatProperties
<1>2. a \o (b \o (c \o d)) \in Seq(V)
  BY <1>1, ConcatProperties
<1>3. d \o <<>> = d
  BY ConcatEmptySeq
<1> QED
  BY <1>2, <1>3

LEMMA StreamType ==
    ASSUME NEW S, NEW V, NEW w \in [S -> Seq(V)], NEW s \in Seq(S)
    PROVE  Stream(w, s) \in Seq(V)
<1>1. /\ PartAt(w, s, 1) \in Seq(V) /\ PartAt(w, s, 2) \in Seq(V)
      /\ PartAt(w, s, 3) \in Seq(V) /\ PartAt(w, s, 4) \in Seq(V)
  BY PartType
<1> QED
  BY <1>1, ConcatOfFour DEF Stream

LEMMA StreamOfTail ==
    ASSUME NEW S, NEW V, NEW w \in [S -> Seq(V)],
           NEW s \in Seq(S), s # <<>>, Len(s) <= 4
    PROVE  /\ Stream(w, s) = w[Head(s)] \o Stream(w, Tail(s))
           /\ w[Head(s)] \in Seq(V) /\ Tail(s) \in Seq(S)
<1> DEFINE n == Len(s)
           t == Tail(s)
<1>1. /\ n \in 1 .. 4 /\ Len(t) = n - 1 /\ t \in Seq(S)
      /\ \A k \in 1 .. n - 1 : t[k] = s[k + 1]
      /\ Head(s) = s[1] /\ s[1] \in S
  <2>1. n \in 1 .. 4
    <3>1. Len(s) \in Nat \ {0}
      BY TailFacts
    <3>2. \A i \in Nat \ {0} : i <= 4 => i \in 1 .. 4
      OBVIOUS
    <3> QED
      BY <3>1, <3>2
  <2> QED
    BY <2>1, TailFacts
<1>2. /\ PartAt(w, t, 1) = PartAt(w, s, 2) /\ PartAt(w, t, 2) = PartAt(w, s, 3)
      /\ PartAt(w, t, 3) = PartAt(w, s, 4) /\ PartAt(w, t, 4) = <<>>
      /\ PartAt(w, s, 1) = w[Head(s)]
  <2>0. Len(s) = n
    OBVIOUS
  <2> HIDE DEF n, t
  <2>1. ASSUME NEW k \in 1 .. 3 PROVE PartAt(w, t, k) = PartAt(w, s, k + 1)
    BY <1>1, <2>0 DEF PartAt
  <2>2. PartAt(w, t, 4) = <<>> /\ PartAt(w, s, 1) = w[Head(s)]
    BY <1>1, <2>0 DEF PartAt
  <2> QED
    BY <2>1, <2>2
<1> DEFINE a == PartAt(w, s, 1)
           b == PartAt(w, s, 2)
           c == PartAt(w, s, 3)
           d == PartAt(w, s, 4)
<1>3. a \in Seq(V) /\ b \in Seq(V) /\ c \in Seq(V) /\ d \in Seq(V)
  BY PartType
<1>4. Stream(w, s) = a \o (b \o (c \o d))
  BY DEF Stream
<1>5. Stream(w, t) = b \o (c \o (d \o <<>>))
  BY <1>2 DEF Stream
<1> HIDE DEF a, b, c, d, t, n
<1>6. Stream(w, s) = a \o Stream(w, t)
  BY <1>3, <1>4, <1>5, ConcatOfFour
<1>7. a = w[Head(s)]
  BY <1>2 DEF a
<1> QED
  BY <1>1, <1>3, <1>6, <1>7 DEF t

LEMMA StreamOfAppend ==
    ASSUME NEW S, NEW V, NEW w \in [S -> Seq(V)],
           NEW s \in Seq(S), NEW e \in S, Len(s) < 4
    PROVE  Stream(w, Append(s, e)) = Stream(w, s) \o w[e]
<1> DEFINE n == Len(s)
           t == Append(s, e)
<1>1. /\ n \in 0 .. 3 /\ Len(t) = n + 1
      /\ \A k \in 1 .. n : t[k] = s[k]
      /\ t[n + 1] = e
  <2>1. n \in 0 .. 3
    <3>1. Len(s) \in Nat
      OBVIOUS
    <3>2. \A i \in Nat : i < 4 => i \in 0 .. 3
      OBVIOUS
    <3> QED
      BY <3>1, <3>2
  <2> QED
    BY <2>1, AppendFacts
<1>2. /\ \A k \in 1 .. n : PartAt(w, t, k) = PartAt(w, s, k)
      /\ PartAt(w, t, n + 1) = w[e]
      /\ \A k \in 1 .. 4 : k > n => PartAt(w, s, k) = <<>>
      /\ \A k \in 1 .. 4 : k > n + 1 => PartAt(w, t, k) = <<>>
  <2>0. Len(s) = n
    OBVIOUS
  <2> HIDE DEF n, t
  <2> QED
    BY <1>1, <2>0 DEF PartAt
<1> DEFINE a == PartAt(w, s, 1)
           b == PartAt(w, s, 2)
           c == PartAt(w, s, 3)
           d == PartAt(w, s, 4)
           x == w[e]
<1>3. /\ a \in Seq(V) /\ b \in Seq(V) /\ c \in Seq(V) /\ d \in Seq(V)
      /\ x \in Seq(V) /\ <<>> \in Seq(V)
  BY PartType, EmptySeq
<1>4. Stream(w, s) = a \o (b \o (c \o d))
  BY DEF Stream
<1>5. Stream(w, t) = PartAt(w, t, 1) \o (PartAt(w, t, 2) \o (PartAt(w, t, 3) \o PartAt(w, t, 4)))
  BY DEF Stream
<1>6. /\ n = 0 => /\ a = <<>> /\ b = <<>> /\ c = <<>> /\ d = <<>>
                  /\ PartAt(w, t, 1) = x /\ PartAt(w, t, 2) = <<>>
                  /\ PartAt(w, t, 3) = <<>> /\ PartAt(w, t, 4) = <<>>
      /\ n = 1 => /\ b = <<>> /\ c = <<>> /\ d = <<>>
                  /\ PartAt(w, t, 1) = a /\ PartAt(w, t, 2) = x
                  /\ PartAt(w, t, 3) = <<>> /\ PartAt(w, t, 4) = <<>>
      /\ n = 2 => /\ c = <<>> /\ d = <<>>
                  /\ PartAt(w, t, 1) = a /\ PartAt(w, t, 2) = b
                  /\ PartAt(w, t, 3) = x /\ PartAt(w, t, 4) = <<>>
      /\ n = 3 => /\ d = <<>>
                  /\ PartAt(w, t, 1) = a /\ PartAt(w, t, 2) = b
                  /\ PartAt(w, t, 3) = c /\ PartAt(w, t, 4) = x
  <2> HIDE DEF t, n
  <2> QED
    BY <1>1, <1>2
<1> HIDE DEF a, b, c, d, x, t, n
<1>7. /\ x \o <<>> = x /\ <<>> \o x = x /\ <<>> \o <<>> = <<>>
      /\ a \o <<>> = a /\ b \o <<>> = b /\ c \o <<>> = c
  BY <1>3, ConcatEmptySeq
<1>8. /\ a \o (b \o x) = (a \o b) \o x
      /\ a \o (b \o (c \o x)) = ((a \o b) \o c) \o x
      /\ a \o (b \o c) = (a \o b) \o c
  <2>1. a \o (b \o x) = (a \o b) \o x
    BY <1>3, ConcatAssociative, SMTT(90)
  <2>2. a \o (b \o (c \o x)) = ((a \o b) \o c) \o x
    <3>1. /\ a \in Seq(V) /\ b \in Seq(V) /\ c \in Seq(V) /\ x \in Seq(V)
      BY <1>3
    <3> QED
      BY ONLY <3>1, LeftOfFour, SMTT(90)
  <2>3. a \o (b \o c) = (a \o b) \o c
    <3>1. a \in Seq(V) /\ b \in Seq(V) /\ c \in Seq(V)
      BY <1>3
    <3> QED
      BY ONLY <3>1, ConcatAssociative, SMTT(90)
  <2> QED
    BY <2>1, <2>2, <2>3
<1>9. Stream(w, t) = Stream(w, s) \o x
  <2>0. CASE n = 0
    BY <1>4, <1>5, <1>6, <1>7, <2>0
  <2>1. CASE n = 1
    BY <1>4, <1>5, <1>6, <1>7, <2>1
  <2>2. CASE n = 2
    BY <1>4, <1>5, <1>6, <1>7, <1>8, <2>2, ZenonT(60)
  <2>3. CASE n = 3
    BY <1>4, <1>5, <1>6, <1>7, <1>8, <2>3, ZenonT(60)
  <2> QED
    BY <1>1, <2>0, <2>1, <2>2, <2>3
<1> QED
  BY <1>9 DEF t, x

(* The stream depends on the entries that are there.                       *)
LEMMA StreamAgrees ==
    ASSUME NEW S, NEW s \in Seq(S), NEW v, NEW w,
           \A k \in 1 .. Len(s) : v[s[k]] = w[s[k]]
    PROVE  Stream(v, s) = Stream(w, s)
<1>1. ASSUME NEW k \in Nat PROVE PartAt(v, s, k) = PartAt(w, s, k)
  BY DEF PartAt
<1>2. /\ PartAt(v, s, 1) = PartAt(w, s, 1) /\ PartAt(v, s, 2) = PartAt(w, s, 2)
      /\ PartAt(v, s, 3) = PartAt(w, s, 3) /\ PartAt(v, s, 4) = PartAt(w, s, 4)
  BY <1>1
<1> QED
  BY <1>2 DEF Stream
-----------------------------------------------------------------------------
(***************************************************************************)
(* The strengthened invariant.  A word is an address, or None for the      *)
(* answer of a write.  The words a header stands for are those the bus     *)
(* will answer to it; the words an entry of the acknowledge buffer stands  *)
(* for are those the port has asked for.                                   *)
(***************************************************************************)
Word == Nat \cup {None}

HdrWords == [h \in Request |-> IF h.we THEN <<None>> ELSE Words(h.addr, Beats(h) + 1)]
DatWords == [h \in Request |-> IF h.we THEN <<h.addr>> ELSE <<>>]

DBase == IF dreq = None THEN 0 ELSE dreq.addr
IBase == IF ireq = None THEN 0 ELSE ireq
BaseIn(d, i, e)  == IF e.type = "D" THEN d ELSE i
Base(e)          == BaseIn(DBase, IBase, e)
AnsWords(d, i) == [e \in Answer |-> IF e.wr THEN <<None>>
                                             ELSE Words(BaseIn(d, i, e), e.cnt + 1)]

(* On the bus, still to be sent, and what the ACK machine waits for.       *)
Shown(b) == IF b.we THEN None ELSE b.adr
Shows(s) == [k \in 1 .. Len(s) |-> Shown(s[k])]
Sent     == Shows(bus)
OnTheWay == IF wb_we THEN <<None>> ELSE Words(tr_addr, tr_cnt + 1)
ToCome   == IF wb_stb THEN OnTheWay \o Stream(HdrWords, Tail(hdr))
                      ELSE Stream(HdrWords, hdr)
RestOfLine == Words(Base(Head(ack_buf)) + LineWords - ack_cnt, ack_cnt)
Expected == IF AckOpen
            THEN RestOfLine \o Stream(AnsWords(DBase, IBase), Tail(ack_buf))
            ELSE Stream(AnsWords(DBase, IBase), ack_buf)

(* Word for word, what comes is what is expected.                          *)
InOrder == Sent \o ToCome = Expected

(* The entries of the acknowledge buffer are what the arbiter pushes, and  *)
(* a read of the data port is of the kind that is still asked.             *)
WellFormed(e) == /\ e.cnt = IF e.wr \/ e.nc THEN 0 ELSE LineWords - 1
                 /\ e.type = "I" => ~e.wr /\ ~e.nc
                 /\ IsRead(e, "D") => e.nc = dreq.nc
Entries == \A k \in 1 .. Len(ack_buf) : WellFormed(ack_buf[k])

(* The open line: the words that have come are at the top of the shift     *)
(* register.                                                               *)
Collected == AckOpen =>
    /\ ~Head(ack_buf).wr /\ Head(ack_buf).cnt = LineWords - 1
    /\ \A j \in ack_cnt + 1 .. LineWords :
          ack_data[j] = Base(Head(ack_buf)) + j - ack_cnt - 1

(* The data FIFO holds the words of the buffered write headers, in order.  *)
DataInOrder == /\ dat = Stream(DatWords, hdr)
               /\ wb_stb /\ wb_we => tr_cnt = 0 /\ tr_addr = Head(hdr).addr

OrderInv == /\ InOrder /\ Entries /\ Collected /\ DataInOrder
            /\ AnswerIsWhatWasAsked

LEMMA WordTypes ==
    /\ HdrWords \in [Request -> Seq(Word)]
    /\ DatWords \in [Request -> Seq(Nat)]
    /\ \A d, i \in Nat : AnsWords(d, i) \in [Answer -> Seq(Word)]
    /\ <<>> \in Seq(Word)
<1>0. <<None>> \in Seq(Word) /\ <<>> \in Seq(Word) /\ <<>> \in Seq(Nat)
  BY DEF Word
<1>1. ASSUME NEW h \in Request
      PROVE  (IF h.we THEN <<None>> ELSE Words(h.addr, Beats(h) + 1)) \in Seq(Word)
  <2>1. h.addr \in Nat /\ Beats(h) + 1 \in Nat
    BY LineAssumption DEF Request, Beats
  <2>2. Words(h.addr, Beats(h) + 1) \in Seq(Word)
    BY <2>1, WordsFacts DEF Word
  <2> QED
    BY <1>0, <2>2
<1>2. ASSUME NEW h \in Request
      PROVE  (IF h.we THEN <<h.addr>> ELSE <<>>) \in Seq(Nat)
  BY <1>0 DEF Request
<1>3. ASSUME NEW d \in Nat, NEW i \in Nat, NEW e \in Answer
      PROVE  (IF e.wr THEN <<None>> ELSE Words(BaseIn(d, i, e), e.cnt + 1)) \in Seq(Word)
  <2>1. BaseIn(d, i, e) \in Nat /\ e.cnt + 1 \in Nat
    BY DEF BaseIn, Answer
  <2>2. Words(BaseIn(d, i, e), e.cnt + 1) \in Seq(Word)
    BY <2>1, WordsFacts DEF Word
  <2> QED
    BY <1>0, <2>2
<1> QED
  BY <1>0, <1>1, <1>2, <1>3 DEF HdrWords, DatWords, AnsWords

LEMMA BaseTypes ==
    ASSUME TypeOK
    PROVE  DBase \in Nat /\ IBase \in Nat
  BY RequestAssumption DEF TypeOK, DBase, IBase, Request

(* The stream of a buffer after an edge, and of what is behind its head    *)
(* when the head stays.                                                    *)
Pushed(w, push, e) == IF push THEN w[e] ELSE <<>>

StreamEdge(w, s, push, pop, e) ==
    /\ Stream(w, PopPush(s, push, pop, e))
         = (IF pop THEN Stream(w, Tail(s)) ELSE Stream(w, s)) \o Pushed(w, push, e)
    /\ s # <<>> /\ pop = FALSE
         => /\ Head(PopPush(s, push, pop, e)) = Head(s)
            /\ Stream(w, Tail(PopPush(s, push, pop, e)))
                 = Stream(w, Tail(s)) \o Pushed(w, push, e)

PushEdge(w, s, push, e) ==
    Stream(w, IF push THEN Append(s, e) ELSE s) = Stream(w, s) \o Pushed(w, push, e)

LEMMA StreamOfPush ==
    ASSUME NEW S, NEW V, NEW w \in [S -> Seq(V)], NEW s \in Seq(S), NEW e,
           NEW push \in BOOLEAN, push => e \in S, Len(s) <= 4, push => Len(s) < 4
    PROVE  PushEdge(w, s, push, e)
<1>1. CASE push
  <2>1. Stream(w, Append(s, e)) = Stream(w, s) \o w[e]
    BY <1>1, StreamOfAppend, SMTT(90)
  <2> QED
    BY <1>1, <2>1 DEF Pushed, PushEdge
<1>2. CASE ~push
  <2>1. Stream(w, s) \in Seq(V)
    BY StreamType
  <2>2. Stream(w, s) \o <<>> = Stream(w, s)
    BY <2>1, ConcatEmptySeq
  <2> QED
    BY <1>2, <2>2 DEF Pushed, PushEdge
<1> QED
  BY <1>1, <1>2

LEMMA StreamOfEdge ==
    ASSUME NEW S, NEW V, NEW w \in [S -> Seq(V)], NEW s \in Seq(S), NEW e,
           NEW push \in BOOLEAN, NEW pop \in BOOLEAN,
           pop => s # <<>>, push => e \in S, Len(s) <= 4, push => Len(s) < 4
    PROVE  StreamEdge(w, s, push, pop, e)
<1> DEFINE p == IF pop THEN Tail(s) ELSE s
           t == Tail(s)
<1>1. /\ p \in Seq(S) /\ Len(p) <= Len(s) /\ Len(s) \in Nat /\ Len(p) \in Nat
  BY TailFacts
<1>2. s # <<>> => t \in Seq(S) /\ Len(t) <= Len(s) /\ Len(t) \in Nat
  BY TailFacts
<1>3. PopPush(s, push, pop, e) = IF push THEN Append(p, e) ELSE p
  BY DEF PopPush
<1>4. Stream(w, p) = IF pop THEN Stream(w, Tail(s)) ELSE Stream(w, s)
  OBVIOUS
<1>5. s # <<>> /\ pop = FALSE
        => /\ Head(PopPush(s, push, pop, e)) = Head(s)
           /\ Tail(PopPush(s, push, pop, e)) = IF push THEN Append(t, e) ELSE t
  <2> SUFFICES ASSUME s # <<>>, pop = FALSE
               PROVE  /\ Head(PopPush(s, push, pop, e)) = Head(s)
                      /\ Tail(PopPush(s, push, pop, e)) = IF push THEN Append(t, e) ELSE t
    OBVIOUS
  <2>1. PopPush(s, push, pop, e) = IF push THEN Append(s, e) ELSE s
    BY DEF PopPush
  <2>2. Head(Append(s, e)) = Head(s) /\ Tail(Append(s, e)) = Append(t, e)
    BY HeadTailAppend
  <2> QED
    BY <2>1, <2>2
<1> HIDE DEF p, t
<1>6. PushEdge(w, p, push, e)
  <2>1. Len(p) <= 4 /\ (push => Len(p) < 4)
    BY <1>1
  <2> QED
    BY <1>1, <2>1, StreamOfPush, ZenonT(60)
<1>7. s # <<>> => PushEdge(w, t, push, e)
  <2> SUFFICES ASSUME s # <<>> PROVE PushEdge(w, t, push, e)
    OBVIOUS
  <2>1. Len(t) <= 4 /\ (push => Len(t) < 4)
    BY <1>1, <1>2
  <2> QED
    BY <1>2, <2>1, StreamOfPush, ZenonT(60)
<1>8. Stream(w, PopPush(s, push, pop, e))
        = (IF pop THEN Stream(w, Tail(s)) ELSE Stream(w, s)) \o Pushed(w, push, e)
  BY <1>3, <1>4, <1>6 DEF PushEdge
<1>9. s # <<>> /\ pop = FALSE
        => Stream(w, Tail(PopPush(s, push, pop, e))) = Stream(w, Tail(s)) \o Pushed(w, push, e)
  BY <1>5, <1>7 DEF t, PushEdge
<1> QED
  BY <1>5, <1>8, <1>9 DEF StreamEdge

(***************************************************************************)
(* A port holds its request while a read of it is in the buffer, is being  *)
(* accepted or is delivered at this edge.                                  *)
(***************************************************************************)
LEMMA PortsHeld ==
    ASSUME IInv, NEW stall \in BOOLEAN, NEW ack \in BOOLEAN, Clock(stall, ack)
    PROVE  /\ Reads(ack_buf, "D") # {} \/ (req_d_val /\ ~dreq.we)
                 => dreq' = dreq /\ dreq # None /\ ~dreq.we
           /\ Reads(ack_buf, "I") # {} \/ req_i_val => ireq' = ireq /\ ireq # None
           /\ l1d_rd_ack' => Reads(ack_buf, "D") # {}
           /\ l1i_req_ack' => Reads(ack_buf, "I") # {}
<1>0. TypeOK /\ BuffersNeverUnderrun /\ OneReadPerPort
  BY DEF IInv
<1>1. Reads(ack_buf, "D") # {} \/ (req_d_val /\ ~dreq.we)
        => dreq # None /\ ~dreq.we /\ ~l1d_rd_ack
  BY <1>0 DEF OneReadPerPort, OwesOne, req_d_val
<1>2. Reads(ack_buf, "I") # {} \/ req_i_val => ireq # None /\ ~l1i_req_ack
  BY <1>0 DEF OneReadPerPort, OwesOne, req_i_val
<1>3. dreq # None /\ ~dreq.we /\ ~l1d_rd_ack => dreq' = dreq
  BY DEF Clock, DCache, req_wr
<1>4. ireq # None /\ ~l1i_req_ack => ireq' = ireq
  BY DEF Clock, ICache
<1>5. /\ r_ack(ack) => ack_buf # <<>>
      /\ r_ack(ack) \in BOOLEAN
  BY <1>0, PopWires DEF Clock
<1>6. ASSUME NEW t, ack_buf # <<>>, IsRead(Head(ack_buf), t)
      PROVE  Reads(ack_buf, t) # {}
  <2>1. Head(ack_buf) = ack_buf[1] /\ Len(ack_buf) \in Nat \ {0}
    BY <1>0, <1>6, TailFacts DEF TypeOK
  <2>2. 1 \in Reads(ack_buf, t)
    BY <1>6, <2>1 DEF Reads
  <2> QED
    BY <2>2
<1>7. /\ l1d_rd_ack' => r_ack(ack) /\ IsRead(Head(ack_buf), "D")
      /\ l1i_req_ack' => r_ack(ack) /\ IsRead(Head(ack_buf), "I")
  BY <1>0, DeliveryEdge
<1> QED
  BY <1>1, <1>2, <1>3, <1>4, <1>5, <1>6, <1>7

(* So an entry stands for the same words after the edge, and a new entry   *)
(* for the words of its header.                                            *)
LEMMA BaseHeld ==
    ASSUME IInv, Entries, NEW stall \in BOOLEAN, NEW ack \in BOOLEAN, Clock(stall, ack)
    PROVE  /\ \A k \in 1 .. Len(ack_buf) :
                 /\ ack_buf[k] \in Answer
                 /\ ~ack_buf[k].wr => BaseIn(DBase', IBase', ack_buf[k]) = Base(ack_buf[k])
                 /\ AnsWords(DBase', IBase')[ack_buf[k]] = AnsWords(DBase, IBase)[ack_buf[k]]
           /\ req_val => AnsWords(DBase', IBase')[w_ack_data] = HdrWords[req_hdr_data]
           /\ DBase' \in Nat /\ IBase' \in Nat
<1>0. TypeOK /\ BuffersNeverUnderrun /\ OneReadPerPort
  BY DEF IInv
<1>1. DBase' \in Nat /\ IBase' \in Nat
  <2>1. TypeOK'
    BY <1>0, TypeStep
  <2>2. TypeOK' => DBase' \in Nat /\ IBase' \in Nat
    BY RequestAssumption DEF TypeOK, DBase, IBase, Request
  <2> QED
    BY <2>1, <2>2
<1>2. ASSUME NEW k \in 1 .. Len(ack_buf)
      PROVE  /\ ack_buf[k] \in Answer
             /\ ~ack_buf[k].wr => BaseIn(DBase', IBase', ack_buf[k]) = Base(ack_buf[k])
             /\ AnsWords(DBase', IBase')[ack_buf[k]] = AnsWords(DBase, IBase)[ack_buf[k]]
  <2> DEFINE e == ack_buf[k]
  <2>1. e \in Answer
    BY <1>0, ElementOfSeq DEF TypeOK
  <2>2. ~e.wr => BaseIn(DBase', IBase', e) = Base(e)
    <3> SUFFICES ASSUME ~e.wr PROVE BaseIn(DBase', IBase', e) = Base(e)
      OBVIOUS
    <3>1. CASE e.type = "D"
      <4>1. k \in Reads(ack_buf, "D")
        BY <3>1 DEF Reads, IsRead
      <4>2. dreq' = dreq
        BY <4>1, PortsHeld
      <4> QED
        BY <3>1, <4>2 DEF BaseIn, Base, DBase
    <3>2. CASE e.type = "I"
      <4>1. k \in Reads(ack_buf, "I")
        BY <3>2 DEF Reads, IsRead
      <4>2. ireq' = ireq
        BY <4>1, PortsHeld
      <4> QED
        BY <3>2, <4>2 DEF BaseIn, Base, IBase
    <3> QED
      BY <2>1, <3>1, <3>2 DEF Answer
  <2>3. AnsWords(DBase', IBase')[e] = AnsWords(DBase, IBase)[e]
    BY <2>1, <2>2 DEF AnsWords, Base
  <2> QED
    BY <2>1, <2>2, <2>3
<1>3. ASSUME req_val PROVE AnsWords(DBase', IBase')[w_ack_data] = HdrWords[req_hdr_data]
  <2>1. /\ req_hdr_data \in Request /\ w_ack_data \in Answer
        /\ w_ack_data.cnt = Beats(req_hdr_data)
        /\ req_hdr_data.we = req_wr
        /\ req_wr \in BOOLEAN /\ req_d_val \in BOOLEAN /\ req_i_val \in BOOLEAN
    BY <1>0, <1>3, RequestWires
  <2>2. /\ w_ack_data.wr = req_wr
        /\ w_ack_data.type = IF req_d_val THEN "D" ELSE "I"
        /\ req_hdr_data.addr = IF req_d_val THEN dreq.addr ELSE ireq
    BY DEF w_ack_data, req_hdr_data
  <2>3. ~req_wr => BaseIn(DBase', IBase', w_ack_data) = req_hdr_data.addr
    <3> SUFFICES ASSUME ~req_wr PROVE BaseIn(DBase', IBase', w_ack_data) = req_hdr_data.addr
      OBVIOUS
    <3>1. CASE req_d_val
      <4>1. dreq' = dreq /\ dreq # None
        BY <3>1, PortsHeld DEF req_wr
      <4> QED
        BY <2>2, <3>1, <4>1 DEF BaseIn, DBase
    <3>2. CASE ~req_d_val
      <4>1. ireq' = ireq /\ ireq # None
        BY <1>3, <3>2, PortsHeld DEF req_val
      <4>2. w_ack_data.type = "I" /\ req_hdr_data.addr = ireq
        BY <2>2, <3>2
      <4> QED
        BY <4>1, <4>2 DEF BaseIn, IBase
    <3> QED
      BY <3>1, <3>2
  <2>4. AnsWords(DBase', IBase')[w_ack_data]
          = IF req_wr THEN <<None>> ELSE Words(BaseIn(DBase', IBase', w_ack_data), Beats(req_hdr_data) + 1)
    BY <2>1, <2>2 DEF AnsWords
  <2>5. HdrWords[req_hdr_data]
          = IF req_wr THEN <<None>> ELSE Words(req_hdr_data.addr, Beats(req_hdr_data) + 1)
    BY <2>1 DEF HdrWords
  <2> QED
    BY <2>3, <2>4, <2>5
<1> QED
  BY <1>1, <1>2, <1>3

LEMMA WordsJoin ==
    ASSUME NEW a \in Seq(Word), NEW b \in Seq(Word), NEW c \in Seq(Word)
    PROVE  /\ a \o (b \o c) = (a \o b) \o c
           /\ a \o b \in Seq(Word)
           /\ <<>> \o a = a /\ a \o <<>> = a
<1>1. a \o (b \o c) = (a \o b) \o c
  BY ConcatAssociative, SMTT(90)
<1>2. a \o b \in Seq(Word)
  BY ConcatProperties
<1>3. <<>> \o a = a /\ a \o <<>> = a
  BY ConcatEmptySeq
<1> QED
  BY <1>1, <1>2, <1>3

(***************************************************************************)
(* What the ACK machine expects: an answer beat takes the first word, a    *)
(* request adds its words at the end.                                      *)
(***************************************************************************)
NewWords == Pushed(HdrWords, req_val, req_hdr_data)

NextWord == IF AckOpen THEN Base(Head(ack_buf)) + LineWords - ack_cnt
            ELSE IF Head(ack_buf).wr THEN None ELSE Base(Head(ack_buf))

ExpectedAfter(x, rest) == /\ Expected = <<x>> \o rest
                          /\ Expected' = rest \o NewWords

LEMMA ExpectedEdge ==
    ASSUME IInv, Entries, Collected,
           NEW stall \in BOOLEAN, NEW ack \in BOOLEAN, Clock(stall, ack)
    PROVE  /\ Expected \in Seq(Word) /\ NewWords \in Seq(Word)
           /\ ~ack => Expected' = Expected \o NewWords
           /\ ack => /\ NextWord \in Word
                     /\ \E rest \in Seq(Word) : ExpectedAfter(NextWord, rest)
<1> DEFINE b == ack_buf
           h == Head(ack_buf)
           t == Tail(ack_buf)
           pop == r_ack(ack)
           u == AnsWords(DBase, IBase)
           v == AnsWords(DBase', IBase')
           sb == Stream(u, b)
           st == Stream(u, t)
           base == Base(h)
           n == NewWords
<1>0. TypeOK /\ BuffersNeverUnderrun /\ OneReadPerPort
  BY DEF IInv
<1>1. /\ b \in Seq(Answer) /\ Len(b) <= 4 /\ ack_cnt \in 0 .. LineWords - 1
      /\ LineWords \in Nat \ {0} /\ (ack => bus # <<>>)
      /\ DBase \in Nat /\ IBase \in Nat /\ DBase' \in Nat /\ IBase' \in Nat
      /\ u \in [Answer -> Seq(Word)] /\ v \in [Answer -> Seq(Word)]
  <2>1. DBase \in Nat /\ IBase \in Nat /\ DBase' \in Nat /\ IBase' \in Nat
    BY <1>0, BaseTypes, BaseHeld
  <2>2. u \in [Answer -> Seq(Word)] /\ v \in [Answer -> Seq(Word)]
    BY <2>1, WordTypes
  <2> QED
    BY <1>0, <2>1, <2>2, LineAssumption DEF TypeOK, AckDepth, Clock
<1>2. /\ req_val \in BOOLEAN /\ pop \in BOOLEAN
      /\ req_val => w_ack_data \in Answer /\ Len(b) < 4 /\ req_hdr_data \in Request
      /\ pop => b # <<>>
      /\ AckOpen \/ ack => b # <<>>
      /\ ack_buf' = PopPush(b, req_val, pop, w_ack_data)
  <2>1. req_val => Len(b) < 4
    BY <1>0, RequestWires DEF AckDepth
  <2>2. AckOpen \/ ack => b # <<>>
    BY <1>0, <1>1 DEF BuffersNeverUnderrun
  <2> QED
    BY <1>0, <1>1, <2>1, <2>2, RequestWires, PopWires, BuffersEdge
<1>3. /\ Pushed(v, req_val, w_ack_data) = n /\ n \in Seq(Word)
  <2>1. req_val => v[w_ack_data] = HdrWords[req_hdr_data]
    BY BaseHeld
  <2>2. req_val => HdrWords[req_hdr_data] \in Seq(Word)
    BY <1>2, WordTypes
  <2> QED
    BY <2>1, <2>2, WordTypes DEF NewWords, Pushed
<1>4. Stream(v, b) = sb /\ sb \in Seq(Word)
  <2>1. \A k \in 1 .. Len(b) : v[b[k]] = u[b[k]]
    BY BaseHeld
  <2> HIDE DEF b, u, v
  <2>2. Stream(v, b) = Stream(u, b)
    BY <1>1, <2>1, StreamAgrees
  <2>3. Stream(u, b) \in Seq(Word)
    BY <1>1, StreamType
  <2> QED
    BY <2>2, <2>3
<1>5. b # <<>> => /\ h \in Answer /\ WellFormed(h)
                  /\ h.cnt \in 0 .. LineWords - 1 /\ base \in Nat
                  /\ ~h.wr => BaseIn(DBase', IBase', h) = base
                  /\ t \in Seq(Answer)
                  /\ Stream(v, t) = st /\ st \in Seq(Word)
                  /\ sb = u[h] \o st
  <2> SUFFICES ASSUME b # <<>>
               PROVE  /\ h \in Answer /\ WellFormed(h)
                      /\ h.cnt \in 0 .. LineWords - 1 /\ base \in Nat
                      /\ ~h.wr => BaseIn(DBase', IBase', h) = base
                      /\ t \in Seq(Answer)
                      /\ Stream(v, t) = st /\ st \in Seq(Word)
                      /\ sb = u[h] \o st
    OBVIOUS
  <2>1. /\ h = b[1] /\ 1 \in 1 .. Len(b) /\ t \in Seq(Answer) /\ Len(t) = Len(b) - 1
        /\ \A k \in 1 .. Len(b) - 1 : t[k] = b[k + 1]
        /\ Len(b) \in Nat \ {0}
    BY <1>1, TailFacts
  <2>2. h \in Answer /\ WellFormed(h) /\ (~h.wr => BaseIn(DBase', IBase', h) = base)
    BY <2>1, BaseHeld DEF Entries
  <2>3. h.cnt \in 0 .. LineWords - 1 /\ base \in Nat
    BY <1>1, <2>2 DEF Answer, Base, BaseIn
  <2>4. \A k \in 1 .. Len(t) : v[t[k]] = u[t[k]]
    <3>1. \A k \in 1 .. Len(b) : v[b[k]] = u[b[k]]
      BY BaseHeld
    <3> HIDE DEF b, t, u, v
    <3> QED
      BY <2>1, <3>1
  <2>0. h = Head(b) /\ t = Tail(b)
    OBVIOUS
  <2> HIDE DEF b, h, t, u, v, base
  <2>5. Stream(v, t) = Stream(u, t)
    BY <2>1, <2>4, StreamAgrees
  <2>6. Stream(u, t) \in Seq(Word)
    BY <1>1, <2>1, StreamType
  <2>7. Stream(u, b) = u[h] \o Stream(u, t)
    <3>1. Stream(u, b) = u[Head(b)] \o Stream(u, Tail(b))
      <4>1. /\ u \in [Answer -> Seq(Word)] /\ b \in Seq(Answer)
            /\ b # <<>> /\ Len(b) <= 4
        BY <1>1
      <4> QED
        BY ONLY <4>1, StreamOfTail, SMTT(90)
    <3> QED
      BY <2>0, <3>1
  <2> QED
    BY <2>1, <2>2, <2>3, <2>5, <2>6, <2>7
<1>6. /\ Stream(v, ack_buf') = (IF pop THEN Stream(v, t) ELSE Stream(v, b)) \o n
      /\ b # <<>> /\ pop = FALSE => /\ Head(ack_buf') = h
                                    /\ Stream(v, Tail(ack_buf')) = Stream(v, t) \o n
  <2> DEFINE e == w_ack_data
  <2>1. StreamEdge(v, b, req_val, pop, e)
    <3> HIDE DEF b, v, pop, e
    <3> QED
      BY <1>1, <1>2, StreamOfEdge, ZenonT(60) DEF e
  <2> QED
    BY <1>2, <1>3, <2>1 DEF StreamEdge
<1>7. Expected = IF AckOpen THEN Words(base + LineWords - ack_cnt, ack_cnt) \o st ELSE sb
  BY DEF Expected, RestOfLine
<1>8. Expected' = IF AckOpen' THEN Words(BaseIn(DBase', IBase', Head(ack_buf')) + LineWords - ack_cnt', ack_cnt')
                                     \o Stream(v, Tail(ack_buf'))
                              ELSE Stream(v, ack_buf')
  BY DEF Expected, RestOfLine, Base
<1>9. /\ AckMachine(ack)
      /\ pop <=> IF ack /\ ~AckOpen THEN h.cnt = 0 ELSE ack /\ ack_cnt = 1
      /\ AckOpen => ~h.wr /\ h.cnt = LineWords - 1 /\ ack_cnt # 0
      /\ NextWord = IF AckOpen THEN base + LineWords - ack_cnt
                    ELSE IF h.wr THEN None ELSE base
  BY DEF Clock, r_ack, Collected, AckOpen, NextWord
<1>10. b # <<>> => /\ u[h] = IF h.wr THEN <<None>> ELSE Words(base, h.cnt + 1)
                   /\ h.cnt = IF h.wr \/ h.nc THEN 0 ELSE LineWords - 1
  BY <1>5 DEF AnsWords, Base, WellFormed
<1>11. None \in Word /\ \A i \in Nat : i \in Word
  BY DEF Word
<1> HIDE DEF b, h, t, pop, u, v, sb, st, base, n
<1>17. ack_cnt \in Nat /\ LineWords \in Nat /\ ack_cnt <= LineWords - 1
  BY <1>1
<1>18. b # <<>> => /\ base \in Nat /\ base + 1 \in Nat /\ base + LineWords - ack_cnt \in Nat
                   /\ h.cnt \in Nat /\ h.cnt + 1 \in Nat \ {0}
  BY <1>5, <1>17
<1>12. \A x, y \in Nat : Words(x, y) \in Seq(Word)
  BY WordsFacts DEF Word
<1>13. Expected \in Seq(Word)
  <2>1. CASE AckOpen
    <3>1. base + LineWords - ack_cnt \in Nat /\ ack_cnt \in Nat
      BY <1>2, <1>17, <1>18, <2>1
    <3>2. Words(base + LineWords - ack_cnt, ack_cnt) \in Seq(Word)
      BY <1>12, <3>1
    <3> QED
      BY <1>2, <1>5, <1>7, <2>1, <3>2, WordsJoin
  <2>2. CASE ~AckOpen
    BY <1>4, <1>7, <2>2
  <2> QED
    BY <2>1, <2>2
<1>14. CASE AckNone(ack)
  <2>1. ~ack /\ pop = FALSE /\ ack_cnt' = ack_cnt /\ (AckOpen' <=> AckOpen)
    BY <1>2, <1>9, <1>14 DEF AckNone, AckOpen
  <2>2. Expected' = Expected \o n
    <3>1. CASE AckOpen
      <4>1. b # <<>> /\ Head(ack_buf') = h /\ ~h.wr
        BY <1>2, <1>6, <1>9, <2>1, <3>1
      <4>2. Expected' = Words(base + LineWords - ack_cnt, ack_cnt) \o (st \o n)
        BY <1>5, <1>6, <1>8, <2>1, <3>1, <4>1
      <4>3. base + LineWords - ack_cnt \in Nat /\ ack_cnt \in Nat
        BY <1>17, <1>18, <4>1
      <4> DEFINE r == Words(base + LineWords - ack_cnt, ack_cnt)
      <4>4. r \in Seq(Word)
        BY <1>12, <4>3
      <4> HIDE DEF r
      <4>5. r \o (st \o n) = (r \o st) \o n
        BY <1>3, <1>5, <4>1, <4>4, WordsJoin, SMTT(90)
      <4> QED
        BY <1>7, <3>1, <4>2, <4>5 DEF r
    <3>2. CASE ~AckOpen
      BY <1>4, <1>6, <1>7, <1>8, <2>1, <3>2
    <3> QED
      BY <3>1, <3>2
  <2> QED
    BY <1>3, <1>13, <2>1, <2>2 DEF n
<1>15. CASE AckFirst(ack)
  <2>1. ack /\ ~AckOpen /\ b # <<>> /\ ack_cnt' = h.cnt /\ (AckOpen' <=> h.cnt # 0)
    BY <1>2, <1>15 DEF AckFirst, AckOpen, h
  <2>2. NextWord \in Word /\ NextWord = (IF h.wr THEN None ELSE base)
    BY <1>5, <1>9, <1>11, <2>1
  <2>3. CASE h.cnt = 0
    <3>1. pop = TRUE /\ Expected' = st \o n
      BY <1>2, <1>5, <1>6, <1>8, <1>9, <2>1, <2>3
    <3>2. u[h] = <<NextWord>>
      <4>1. ~h.wr => Words(base, h.cnt + 1) = <<base>>
        <5>1. Words(base, 1) = <<base>> \o Words(base + 1, 0)
          <6>1. Words(base, 1) = <<base>> \o Words(base + 1, 1 - 1)
            <7>1. base \in Nat /\ 1 \in Nat \ {0}
              BY <1>18, <2>1
            <7> QED
              BY ONLY <7>1, WordsFirst, SMTT(90)
          <6>2. 1 - 1 = 0
            OBVIOUS
          <6> QED
            BY <6>1, <6>2
        <5>2. Words(base + 1, 0) = <<>>
          BY <1>5, <2>1, WordsFacts
        <5>3. <<base>> \in Seq(Word)
          BY <1>5, <1>11, <2>1
        <5>4. <<base>> \o <<>> = <<base>>
          BY <5>3, ConcatEmptySeq
        <5> QED
          BY <2>3, <5>1, <5>2, <5>4
      <4> QED
        BY <1>10, <2>1, <2>2, <4>1
    <3>3. Expected = <<NextWord>> \o st
      BY <1>5, <1>7, <2>1, <3>2
    <3>4. ExpectedAfter(NextWord, st) /\ st \in Seq(Word)
      BY <1>5, <2>1, <3>1, <3>3 DEF ExpectedAfter, n
    <3> QED
      BY <1>3, <1>13, <2>1, <2>2, <3>4 DEF n
  <2>4. CASE h.cnt # 0
    <3>1. ~h.wr /\ h.cnt = LineWords - 1 /\ pop = FALSE
      BY <1>2, <1>9, <1>10, <2>1, <2>4
    <3> DEFINE r == Words(base + 1, h.cnt)
    <3>2. r \in Seq(Word) /\ base + 1 \in Nat /\ h.cnt + 1 \in Nat \ {0} /\ NextWord = base
      BY <1>12, <1>18, <2>1, <2>2, <3>1
    <3>3. u[h] = <<base>> \o r
      <4>1. Words(base, h.cnt + 1) = <<base>> \o Words(base + 1, (h.cnt + 1) - 1)
        BY <1>5, <2>1, <3>2, WordsFirst
      <4>2. (h.cnt + 1) - 1 = h.cnt
        BY <1>5, <2>1
      <4> QED
        BY <1>10, <2>1, <3>1, <4>1, <4>2
    <3>4. Head(ack_buf') = h /\ Stream(v, Tail(ack_buf')) = st \o n
      BY <1>5, <1>6, <2>1, <3>1
    <3>5. Expected' = r \o (st \o n)
      <4>1. base + LineWords - h.cnt = base + 1
        BY <1>1, <1>5, <2>1, <3>1
      <4>2. Expected' = Words(base + LineWords - h.cnt, h.cnt) \o (st \o n)
        BY <1>5, <1>8, <2>1, <2>4, <3>1, <3>4
      <4> QED
        BY <4>1, <4>2
    <3> HIDE DEF r
    <3> DEFINE one == <<base>>
    <3>6. one \in Seq(Word)
      BY <1>5, <1>11, <2>1
    <3>7. Expected = (one \o r) \o st
      BY <1>5, <1>7, <2>1, <3>3
    <3> HIDE DEF one
    <3>8. /\ (one \o r) \o st = one \o (r \o st) /\ r \o (st \o n) = (r \o st) \o n
          /\ r \o st \in Seq(Word)
      <4>1. st \in Seq(Word)
        BY <1>5, <2>1
      <4>2. (one \o r) \o st = one \o (r \o st)
        BY <3>2, <3>6, <4>1, WordsJoin, SMTT(90)
      <4>3. r \o (st \o n) = (r \o st) \o n /\ r \o st \in Seq(Word)
        BY <1>3, <3>2, <4>1, WordsJoin, SMTT(90)
      <4> QED
        BY <4>2, <4>3
    <3>9. ExpectedAfter(NextWord, r \o st)
      BY <3>2, <3>5, <3>7, <3>8 DEF ExpectedAfter, one, n
    <3> QED
      BY <1>3, <1>13, <2>1, <2>2, <3>8, <3>9 DEF n
  <2> QED
    BY <2>3, <2>4
<1>16. CASE AckMore(ack)
  <2>1. ack /\ AckOpen /\ b # <<>> /\ ack_cnt' = ack_cnt - 1 /\ ~h.wr /\ ack_cnt \in Nat \ {0}
    BY <1>1, <1>2, <1>9, <1>16 DEF AckMore
  <2>2. (AckOpen' <=> ack_cnt # 1) /\ (pop <=> ack_cnt = 1)
    BY <1>9, <1>16, <2>1 DEF AckMore, AckOpen
  <2> DEFINE f == base + LineWords - ack_cnt
             r == Words(f + 1, ack_cnt - 1)
             one == <<f>>
  <2>3. f \in Nat /\ f + 1 \in Nat /\ ack_cnt - 1 \in Nat /\ NextWord = f /\ f \in Word
    BY <1>9, <1>11, <1>17, <1>18, <2>1
  <2>4. r \in Seq(Word) /\ one \in Seq(Word)
    BY <1>12, <2>3
  <2>5. Words(f, ack_cnt) = one \o r
    BY <2>1, <2>3, WordsFirst
  <2>6. Expected = (one \o r) \o st
    BY <1>7, <2>1, <2>5
  <2>7. Expected' = r \o (st \o n)
    <3>1. CASE ack_cnt = 1
      <4>1. Expected' = st \o n
        BY <1>5, <1>6, <1>8, <2>1, <2>2, <3>1
      <4>2. r = <<>>
        BY <2>3, <3>1, WordsFacts
      <4>3. st \in Seq(Word) /\ n \in Seq(Word)
        BY <1>3, <1>5, <2>1
      <4>4. <<>> \o (st \o n) = st \o n
        <5>1. st \o n \in Seq(Word)
          BY <4>3, WordsJoin
        <5> QED
          BY <5>1, ConcatEmptySeq
      <4> QED
        BY <4>1, <4>2, <4>4
    <3>2. CASE ack_cnt # 1
      <4>1. pop = FALSE
        BY <1>2, <2>2, <3>2
      <4>2. Head(ack_buf') = h /\ Stream(v, Tail(ack_buf')) = st \o n
        BY <1>5, <1>6, <2>1, <4>1
      <4>3. Expected' = Words(base + LineWords - (ack_cnt - 1), ack_cnt - 1) \o (st \o n)
        BY <1>5, <1>8, <2>1, <2>2, <3>2, <4>2
      <4>4. base + LineWords - (ack_cnt - 1) = f + 1
        BY <1>1, <1>5, <2>1
      <4> QED
        BY <4>3, <4>4
    <3> QED
      BY <3>1, <3>2
  <2> HIDE DEF f, r, one
  <2>8. /\ (one \o r) \o st = one \o (r \o st) /\ r \o (st \o n) = (r \o st) \o n
        /\ r \o st \in Seq(Word)
    <3>1. st \in Seq(Word)
      BY <1>5, <2>1
    <3>2. (one \o r) \o st = one \o (r \o st)
      BY <2>4, <3>1, WordsJoin
    <3>3. r \o (st \o n) = (r \o st) \o n /\ r \o st \in Seq(Word)
      BY <1>3, <2>4, <3>1, WordsJoin, SMTT(90)
    <3> QED
      BY <3>2, <3>3
  <2>9. ExpectedAfter(NextWord, r \o st)
    BY <2>3, <2>6, <2>7, <2>8 DEF ExpectedAfter, one, n
  <2> QED
    BY <1>3, <1>13, <2>1, <2>3, <2>8, <2>9 DEF n
<1> QED
  BY <1>9, <1>14, <1>15, <1>16 DEF AckMachine

(***************************************************************************)
(* What is on the bus: an answer takes the first word, a beat that is not  *)
(* stalled adds one.                                                       *)
(***************************************************************************)
Beat    == [we |-> wb_we, adr |-> tr_addr]
BeatSent(stall) == IF wb_stb /\ ~stall THEN <<Shown(Beat)>> ELSE <<>>

LEMMA ShowsFacts ==
    ASSUME NEW s \in Seq([we : BOOLEAN, adr : Nat]), NEW b \in [we : BOOLEAN, adr : Nat]
    PROVE  /\ Shows(s) \in Seq(Word) /\ Shown(b) \in Word
           /\ Shows(Append(s, b)) = Shows(s) \o <<Shown(b)>>
           /\ s # <<>> => /\ Shown(Head(s)) \in Word
                          /\ Shows(s) = <<Shown(Head(s))>> \o Shows(Tail(s))
<1> DEFINE B == [we : BOOLEAN, adr : Nat]
<1>1. \A x \in B : Shown(x) \in Word
  BY DEF Shown, Word
<1> HIDE DEF B
<1>0. s \in Seq(B) /\ b \in B
  BY DEF B
<1>2. ASSUME NEW t \in Seq(B)
      PROVE  /\ Shows(t) \in Seq(Word) /\ Len(Shows(t)) = Len(t)
             /\ \A k \in 1 .. Len(t) : Shows(t)[k] = Shown(t[k])
  <2>1. \A k \in 1 .. Len(t) : Shown(t[k]) \in Word
    BY <1>1, ElementOfSeq
  <2>2. Len(t) \in Nat
    BY LenProperties
  <2> QED
    BY <2>1, <2>2 DEF Shows
<1>3. Shows(Append(s, b)) = Shows(s) \o <<Shown(b)>>
  <2> DEFINE p == Append(s, b)
             q == Append(Shows(s), Shown(b))
  <2>1. /\ p \in Seq(B) /\ Len(p) = Len(s) + 1 /\ Len(s) \in Nat
        /\ \A k \in 1 .. Len(s) : p[k] = s[k]
        /\ p[Len(s) + 1] = b
    BY <1>0, AppendFacts
  <2>2. /\ q \in Seq(Word) /\ Len(q) = Len(s) + 1
        /\ \A k \in 1 .. Len(s) : q[k] = Shows(s)[k]
        /\ q[Len(s) + 1] = Shown(b)
    BY <1>0, <1>1, <1>2, AppendFacts
  <2>3. /\ Shows(p) \in Seq(Word) /\ Len(Shows(p)) = Len(s) + 1
        /\ \A k \in 1 .. Len(s) + 1 : Shows(p)[k] = Shown(p[k])
    BY <1>2, <2>1
  <2>4. \A k \in 1 .. Len(s) : Shows(s)[k] = Shown(s[k])
    BY <1>0, <1>2
  <2> HIDE DEF p, q
  <2>5. ASSUME NEW k \in 1 .. Len(s) + 1 PROVE Shows(p)[k] = q[k]
    <3>1. CASE k = Len(s) + 1
      BY <2>1, <2>2, <2>3, <3>1
    <3>2. CASE k # Len(s) + 1
      <4>1. k \in 1 .. Len(s)
        BY <2>1, <3>2
      <4> QED
        BY <2>1, <2>2, <2>3, <2>4, <4>1
    <3> QED
      BY <3>1, <3>2
  <2>6. Shows(p) = q
    BY <2>2, <2>3, <2>5, SeqEqual
  <2>7. q = Shows(s) \o <<Shown(b)>>
    BY <1>0, <1>1, <1>2, AppendIsConcat DEF q
  <2> QED
    BY <2>6, <2>7 DEF p
<1>4. s # <<>> => /\ Shown(Head(s)) \in Word
                  /\ Shows(s) = <<Shown(Head(s))>> \o Shows(Tail(s))
  <2> SUFFICES ASSUME s # <<>>
               PROVE  /\ Shown(Head(s)) \in Word
                      /\ Shows(s) = <<Shown(Head(s))>> \o Shows(Tail(s))
    OBVIOUS
  <2> DEFINE t == Tail(s)
             q == Shows(s)
  <2>1. /\ t \in Seq(B) /\ Len(t) = Len(s) - 1 /\ Len(s) \in Nat \ {0}
        /\ \A k \in 1 .. Len(s) - 1 : t[k] = s[k + 1]
        /\ Head(s) = s[1] /\ s[1] \in B
    BY <1>0, TailFacts
  <2>2. /\ q \in Seq(Word) /\ Len(q) = Len(s)
        /\ \A k \in 1 .. Len(s) : q[k] = Shown(s[k])
    BY <1>0, <1>2
  <2>3. q # <<>>
    BY <2>1, <2>2
  <2>4. /\ Head(q) = q[1] /\ Tail(q) \in Seq(Word) /\ Len(Tail(q)) = Len(s) - 1
        /\ \A k \in 1 .. Len(s) - 1 : Tail(q)[k] = q[k + 1]
    BY <2>2, <2>3, TailFacts, SMTT(90)
  <2>5. /\ Shows(t) \in Seq(Word) /\ Len(Shows(t)) = Len(s) - 1
        /\ \A k \in 1 .. Len(s) - 1 : Shows(t)[k] = Shown(t[k])
    BY <1>2, <2>1
  <2> HIDE DEF t, q
  <2>6. ASSUME NEW k \in 1 .. Len(s) - 1 PROVE Tail(q)[k] = Shows(t)[k]
    <3>1. k + 1 \in 1 .. Len(s)
      BY <2>1
    <3> QED
      BY <2>1, <2>2, <2>4, <2>5, <3>1, ZenonT(60)
  <2>7. Tail(q) = Shows(t)
    BY <2>4, <2>5, <2>6, SeqEqual
  <2>8. Head(q) = Shown(Head(s))
    BY <2>1, <2>2, <2>4
  <2>9. q = <<Head(q)>> \o Tail(q)
    BY <2>2, <2>3, HeadAndTail
  <2>10. Shown(Head(s)) \in Word
    BY <1>1, <2>1
  <2> QED
    BY <2>7, <2>8, <2>9, <2>10 DEF t, q
<1> QED
  BY <1>0, <1>1, <1>2, <1>3, <1>4

SentAfter(stall, rest) == /\ Sent = <<Shown(Head(bus))>> \o rest
                          /\ Sent' = rest \o BeatSent(stall)

LEMMA SentEdge ==
    ASSUME IInv, NEW stall \in BOOLEAN, NEW ack \in BOOLEAN, Clock(stall, ack)
    PROVE  /\ Sent \in Seq(Word) /\ BeatSent(stall) \in Seq(Word)
           /\ ~ack => Sent' = Sent \o BeatSent(stall)
           /\ ack => /\ Shown(Head(bus)) \in Word
                     /\ \E rest \in Seq(Word) : SentAfter(stall, rest)
<1> DEFINE B == [we : BOOLEAN, adr : Nat]
           left == IF ack THEN Tail(bus) ELSE bus
<1>0. TypeOK /\ BuffersNeverUnderrun
  BY DEF IInv
<1>1. bus \in Seq(B) /\ (ack => bus # <<>>)
  BY <1>0 DEF TypeOK, Clock
<1>2. wb_stb => Beat \in B
  BY <1>0, <1>1, PopWires DEF wb_we, Request, TypeOK, Beat
<1>3. bus' = IF wb_stb /\ ~stall THEN Append(left, Beat) ELSE left
  BY DEF Clock, Bus, Beat
<1>4. left \in Seq(B)
  BY <1>1, TailFacts
<1>5. Sent \in Seq(Word) /\ Shows(left) \in Seq(Word) /\ BeatSent(stall) \in Seq(Word)
  <2>1. [we |-> TRUE, adr |-> 0] \in B
    OBVIOUS
  <2>2. Shows(bus) \in Seq(Word) /\ Shows(left) \in Seq(Word)
    BY <1>1, <1>4, <2>1, ShowsFacts
  <2>3. wb_stb => Shown(Beat) \in Word
    BY <1>1, <1>2, ShowsFacts
  <2>4. wb_stb => <<Shown(Beat)>> \in Seq(Word)
    BY <2>3
  <2> QED
    BY <2>2, <2>4, WordTypes DEF Sent, BeatSent
<1>6. Sent' = Shows(left) \o BeatSent(stall)
  <2>1. Sent' = Shows(bus')
    BY DEF Sent
  <2>2. CASE wb_stb /\ ~stall
    <3>1. Shows(Append(left, Beat)) = Shows(left) \o <<Shown(Beat)>>
      BY <1>2, <1>4, <2>2, ShowsFacts
    <3> QED
      BY <1>3, <2>1, <2>2, <3>1 DEF BeatSent
  <2>3. CASE ~(wb_stb /\ ~stall)
    <3>1. bus' = left /\ BeatSent(stall) = <<>>
      BY <1>3, <2>3 DEF BeatSent
    <3> HIDE DEF left
    <3>2. Shows(left) \o <<>> = Shows(left)
      BY <1>5, ConcatEmptySeq
    <3> QED
      BY <2>1, <3>1, <3>2
  <2> QED
    BY <2>2, <2>3
<1>7. ack => /\ Shown(Head(bus)) \in Word
             /\ Sent = <<Shown(Head(bus))>> \o Shows(left)
  <2> SUFFICES ASSUME ack PROVE /\ Shown(Head(bus)) \in Word
                                /\ Sent = <<Shown(Head(bus))>> \o Shows(left)
    OBVIOUS
  <2>1. [we |-> TRUE, adr |-> 0] \in B
    OBVIOUS
  <2>2. /\ Shown(Head(bus)) \in Word
        /\ Shows(bus) = <<Shown(Head(bus))>> \o Shows(Tail(bus))
    BY <1>1, <2>1, ShowsFacts
  <2> QED
    BY <2>2 DEF Sent
<1>8. ~ack => left = bus
  OBVIOUS
<1> HIDE DEF left, B
<1>9. ack => SentAfter(stall, Shows(left))
  BY <1>6, <1>7 DEF SentAfter
<1> QED
  BY <1>5, <1>6, <1>7, <1>8, <1>9 DEF Sent

(***************************************************************************)
(* What is still to be sent: the TR machine sends the words of a header    *)
(* one by one, a request adds its words at the end.                        *)
(***************************************************************************)
ToComeAfter(stall, rest) == /\ ToCome = BeatSent(stall) \o rest
                            /\ ToCome' = rest \o NewWords

LEMMA ToComeEdge ==
    ASSUME IInv, DataInOrder, NEW stall \in BOOLEAN, NEW ack \in BOOLEAN, Clock(stall, ack)
    PROVE  \E rest \in Seq(Word) : ToComeAfter(stall, rest)
<1> DEFINE h == Head(hdr)
           t == Tail(hdr)
           w == HdrWords
           pop == hdr_finished(stall)
           st == Stream(w, t)
           n == NewWords
<1>0. TypeOK /\ BuffersNeverUnderrun
  BY DEF IInv
<1>1. /\ hdr \in Seq(Request) /\ Len(hdr) <= 4 /\ w \in [Request -> Seq(Word)]
      /\ tr_cnt \in Nat /\ tr_addr \in Nat /\ (ack => bus # <<>>)
  BY <1>0, WordTypes, LineAssumption DEF TypeOK, HdrDepth, Clock
<1>2. /\ req_val \in BOOLEAN /\ pop \in BOOLEAN
      /\ req_val => req_hdr_data \in Request /\ Len(hdr) < 4
      /\ pop => hdr # <<>>
      /\ hdr' = PopPush(hdr, req_val, pop, req_hdr_data)
      /\ wb_stb => hdr # <<>>
  <2>1. req_val => Len(hdr) < 4
    BY <1>0, RequestWires DEF HdrDepth
  <2>2. wb_stb => hdr # <<>>
    BY <1>0 DEF BuffersNeverUnderrun
  <2> QED
    BY <1>0, <1>1, <2>1, <2>2, RequestWires, PopWires, BuffersEdge
<1>3. n = Pushed(w, req_val, req_hdr_data) /\ n \in Seq(Word)
  <2>1. req_val => w[req_hdr_data] \in Seq(Word)
    BY <1>1, <1>2
  <2> QED
    BY <2>1, WordTypes DEF NewWords, Pushed
<1>4. hdr # <<>> => /\ h \in Request /\ st \in Seq(Word)
                    /\ Stream(w, hdr) = w[h] \o st
  <2> SUFFICES ASSUME hdr # <<>>
               PROVE  /\ h \in Request /\ st \in Seq(Word)
                      /\ Stream(w, hdr) = w[h] \o st
    OBVIOUS
  <2>1. h \in Request /\ t \in Seq(Request)
    BY <1>1, TailFacts
  <2> HIDE DEF w
  <2>2. Stream(w, t) \in Seq(Word)
    BY <1>1, <2>1, StreamType
  <2>3. Stream(w, hdr) = w[h] \o Stream(w, t)
    <3>1. w \in [Request -> Seq(Word)] /\ hdr \in Seq(Request) /\ Len(hdr) <= 4
      BY <1>1
    <3> QED
      BY <3>1, StreamOfTail, SMTT(90)
  <2> QED
    BY <2>1, <2>2, <2>3
<1>5. /\ Stream(w, hdr') = (IF pop THEN st ELSE Stream(w, hdr)) \o n
      /\ hdr # <<>> /\ pop = FALSE => /\ Head(hdr') = h
                                      /\ Stream(w, Tail(hdr')) = st \o n
  <2> DEFINE e == req_hdr_data
  <2>1. StreamEdge(w, hdr, req_val, pop, e)
    <3> HIDE DEF w, pop, e
    <3> QED
      BY <1>1, <1>2, StreamOfEdge DEF e
  <2> QED
    BY <1>2, <1>3, <2>1 DEF StreamEdge
<1>6. /\ ToCome = IF wb_stb THEN OnTheWay \o st ELSE Stream(w, hdr)
      /\ ToCome' = IF wb_stb' THEN OnTheWay' \o Stream(w, Tail(hdr')) ELSE Stream(w, hdr')
      /\ OnTheWay = IF h.we THEN <<None>> ELSE Words(tr_addr, tr_cnt + 1)
      /\ OnTheWay' = IF Head(hdr').we THEN <<None>> ELSE Words(tr_addr', tr_cnt' + 1)
      /\ BeatSent(stall) = IF wb_stb /\ ~stall THEN <<IF h.we THEN None ELSE tr_addr>> ELSE <<>>
      /\ wb_stb /\ h.we => tr_cnt = 0
      /\ pop <=> wb_stb /\ tr_cnt = 0 /\ ~stall
  BY DEF ToCome, OnTheWay, wb_we, BeatSent, Beat, Shown, DataInOrder, hdr_finished
<1>7. Tr(stall)
  BY DEF Clock
<1>8. hdr # <<>> => w[h] = IF h.we THEN <<None>> ELSE Words(h.addr, Beats(h) + 1)
  BY <1>4 DEF HdrWords
<1>9. None \in Word /\ (\A i \in Nat : i \in Word) /\ <<>> \in Seq(Word)
  BY WordTypes DEF Word
<1>10. OnTheWay \in Seq(Word)
  <2>1. tr_cnt + 1 \in Nat
    BY <1>1
  <2>2. Words(tr_addr, tr_cnt + 1) \in Seq(Word)
    BY <1>1, <2>1, WordsFacts DEF Word
  <2>3. <<None>> \in Seq(Word)
    BY <1>9
  <2> QED
    BY <1>6, <2>2, <2>3
<1> HIDE DEF h, t, w, pop, st, n
<1>11. Stream(w, hdr) \in Seq(Word)
  BY <1>1, StreamType
<1>12. ASSUME BeatSent(stall) = <<>>, ToCome' = ToCome \o n, ToCome \in Seq(Word)
       PROVE  \E rest \in Seq(Word) : ToComeAfter(stall, rest)
  <2>1. <<>> \o ToCome = ToCome
    BY <1>12, ConcatEmptySeq
  <2>2. ToComeAfter(stall, ToCome)
    BY <1>12, <2>1 DEF ToComeAfter, n
  <2> QED
    BY <1>12, <2>2
<1>13. CASE TrIdle
  <2>1. ~wb_stb /\ ~wb_stb' /\ pop = FALSE
    BY <1>2, <1>6, <1>13 DEF TrIdle, wb_stb, trVars
  <2>2. BeatSent(stall) = <<>> /\ ToCome' = ToCome \o n /\ ToCome \in Seq(Word)
    BY <1>5, <1>6, <1>11, <2>1
  <2> QED
    BY <1>12, <2>2
<1>14. CASE TrStart
  <2>1. /\ ~wb_stb /\ wb_stb' /\ pop = FALSE /\ hdr # <<>>
        /\ tr_addr' = h.addr /\ tr_cnt' = Beats(h)
    BY <1>2, <1>6, <1>14 DEF TrStart, wb_stb, h
  <2>2. Head(hdr') = h /\ Stream(w, Tail(hdr')) = st \o n
    BY <1>5, <2>1
  <2>3. OnTheWay' = w[h]
    BY <1>6, <1>8, <2>1, <2>2
  <2>4. ToCome' = w[h] \o (st \o n)
    BY <1>6, <2>1, <2>2, <2>3
  <2>5. w[h] \o (st \o n) = (w[h] \o st) \o n
    <3> DEFINE p == w[h]
    <3>1. p \in Seq(Word) /\ st \in Seq(Word)
      BY <1>1, <1>4, <2>1
    <3> HIDE DEF p
    <3>2. p \o (st \o n) = (p \o st) \o n
      BY <1>3, <3>1, WordsJoin
    <3> QED
      BY <3>2 DEF p
  <2>6. BeatSent(stall) = <<>> /\ ToCome' = ToCome \o n /\ ToCome \in Seq(Word)
    BY <1>4, <1>6, <1>11, <2>1, <2>4, <2>5
  <2> QED
    BY <1>12, <2>6
<1>15. CASE TrStall(stall)
  <2>1. /\ wb_stb /\ wb_stb' /\ stall /\ pop = FALSE /\ hdr # <<>>
        /\ tr_addr' = tr_addr /\ tr_cnt' = tr_cnt
    BY <1>2, <1>6, <1>15 DEF TrStall, wb_stb, trVars
  <2>2. Head(hdr') = h /\ Stream(w, Tail(hdr')) = st \o n
    BY <1>5, <2>1
  <2>3. OnTheWay' = OnTheWay
    BY <1>6, <2>1, <2>2
  <2>4. ToCome' = OnTheWay \o (st \o n) /\ ToCome = OnTheWay \o st
    BY <1>6, <2>1, <2>2, <2>3
  <2>5. OnTheWay \o (st \o n) = (OnTheWay \o st) \o n /\ OnTheWay \o st \in Seq(Word)
    <3>1. st \in Seq(Word)
      BY <1>4, <2>1
    <3> QED
      BY <1>3, <1>10, <3>1, WordsJoin, SMTT(90)
  <2>6. BeatSent(stall) = <<>> /\ ToCome' = ToCome \o n /\ ToCome \in Seq(Word)
    BY <1>6, <2>1, <2>4, <2>5
  <2> QED
    BY <1>12, <2>6
<1>16. CASE TrBeat(stall)
  <2>1. /\ wb_stb /\ wb_stb' /\ ~stall /\ pop = FALSE /\ hdr # <<>> /\ tr_cnt # 0
        /\ tr_addr' = tr_addr + 1 /\ tr_cnt' = tr_cnt - 1
    BY <1>2, <1>6, <1>16 DEF TrBeat, wb_stb
  <2>2. Head(hdr') = h /\ Stream(w, Tail(hdr')) = st \o n /\ ~h.we
    BY <1>5, <1>6, <2>1
  <2> DEFINE r == Words(tr_addr + 1, tr_cnt)
             one == <<tr_addr>>
  <2>3. r \in Seq(Word) /\ one \in Seq(Word) /\ st \in Seq(Word)
    <3>1. tr_addr + 1 \in Nat
      BY <1>1
    <3>2. r \in Seq(Word)
      BY <1>1, <3>1, WordsFacts DEF Word
    <3> QED
      BY <1>1, <1>4, <1>9, <2>1, <3>2
  <2>4. OnTheWay = one \o r
    <3>1. tr_cnt + 1 \in Nat \ {0} /\ (tr_cnt + 1) - 1 = tr_cnt
      BY <1>1
    <3>2. Words(tr_addr, tr_cnt + 1) = <<tr_addr>> \o Words(tr_addr + 1, (tr_cnt + 1) - 1)
      <4> DEFINE m == tr_cnt + 1
      <4>1. tr_addr \in Nat /\ m \in Nat \ {0}
        BY <1>1, <3>1
      <4> HIDE DEF m
      <4>2. Words(tr_addr, m) = <<tr_addr>> \o Words(tr_addr + 1, m - 1)
        BY <4>1, WordsFirst
      <4> QED
        BY <4>2 DEF m
    <3> QED
      BY <1>6, <2>2, <3>1, <3>2
  <2>5. OnTheWay' = r
    <3>1. tr_cnt - 1 + 1 = tr_cnt
      BY <1>1
    <3> QED
      BY <1>6, <2>1, <2>2, <3>1
  <2>6. /\ ToCome = (one \o r) \o st /\ ToCome' = r \o (st \o n)
        /\ BeatSent(stall) = one
    BY <1>6, <2>1, <2>2, <2>4, <2>5
  <2> HIDE DEF r, one
  <2>7. (one \o r) \o st = one \o (r \o st)
    BY <2>3, WordsJoin
  <2>8. r \o (st \o n) = (r \o st) \o n /\ r \o st \in Seq(Word)
    BY <1>3, <2>3, WordsJoin, SMTT(90)
  <2>9. ToComeAfter(stall, r \o st)
    BY <2>6, <2>7, <2>8 DEF ToComeAfter, n
  <2> QED
    BY <2>8, <2>9
<1>17. CASE TrLast(stall)
  <2>1. /\ wb_stb /\ ~wb_stb' /\ ~stall /\ pop = TRUE /\ hdr # <<>> /\ tr_cnt = 0
    BY <1>2, <1>6, <1>17 DEF TrLast, wb_stb
  <2>2. ToCome' = st \o n
    BY <1>5, <1>6, <2>1
  <2>3. OnTheWay = BeatSent(stall)
    <3>1. Words(tr_addr, 1) = <<tr_addr>>
      <4>1. 1 \in Nat \ {0} /\ 1 - 1 = 0 /\ tr_addr + 1 \in Nat /\ 0 \in Nat
        BY <1>1
      <4>2. Words(tr_addr, 1) = <<tr_addr>> \o Words(tr_addr + 1, 1 - 1)
        BY <1>1, <4>1, WordsFirst
      <4>3. Words(tr_addr + 1, 0) = <<>>
        BY <4>1, WordsFacts
      <4>4. <<tr_addr>> \in Seq(Word)
        BY <1>1, <1>9
      <4>5. <<tr_addr>> \o <<>> = <<tr_addr>>
        BY <4>4, ConcatEmptySeq
      <4> QED
        BY <4>1, <4>2, <4>3, <4>5
    <3> QED
      BY <1>6, <2>1, <3>1
  <2>4. ToComeAfter(stall, st)
    BY <1>6, <2>1, <2>2, <2>3 DEF ToComeAfter, n
  <2> QED
    BY <1>4, <2>1, <2>4
<1> QED
  BY <1>7, <1>13, <1>14, <1>15, <1>16, <1>17 DEF Tr

(***************************************************************************)
(* So the words that come stay the words that are expected, and an answer  *)
(* beat brings the word that is due.                                       *)
(***************************************************************************)
LEMMA Regroup ==
    ASSUME NEW a \in Seq(Word), NEW b \in Seq(Word), NEW c \in Seq(Word), NEW d \in Seq(Word)
    PROVE  (a \o b) \o (c \o d) = (a \o (b \o c)) \o d
<1> DEFINE p == a \o b
<1>1. p \in Seq(Word)
  BY WordsJoin
<1>2. a \o (b \o c) = p \o c
  BY WordsJoin, SMTT(90)
<1> HIDE DEF p
<1>3. p \o (c \o d) = (p \o c) \o d
  BY <1>1, WordsJoin, SMTT(90)
<1> QED
  BY <1>2, <1>3 DEF p

LEMMA InOrderStep ==
    ASSUME IInv, OrderInv, NEW stall \in BOOLEAN, NEW ack \in BOOLEAN, Clock(stall, ack)
    PROVE  /\ InOrder'
           /\ ack => Shown(Head(bus)) = NextWord
<1> DEFINE b == BeatSent(stall)
           n == NewWords
<1>0. InOrder /\ Entries /\ Collected /\ DataInOrder
  BY DEF OrderInv
<1>1. /\ Sent \in Seq(Word) /\ b \in Seq(Word)
      /\ Expected \in Seq(Word) /\ n \in Seq(Word)
  BY <1>0, SentEdge, ExpectedEdge
<1>2. PICK rest \in Seq(Word) : ToCome = b \o rest /\ ToCome' = rest \o n
  BY <1>0, ToComeEdge DEF ToComeAfter
<1>3. Sent \o ToCome = Expected
  BY <1>0 DEF InOrder
<1>4. InOrder' <=> Sent' \o ToCome' = Expected'
  BY DEF InOrder
<1>5. CASE ~ack
  <2>1. Sent' = Sent \o b /\ Expected' = Expected \o n
    BY <1>0, <1>5, SentEdge, ExpectedEdge
  <2> HIDE DEF b, n
  <2>2. (Sent \o b) \o (rest \o n) = (Sent \o (b \o rest)) \o n
    <3>1. Sent \in Seq(Word) /\ b \in Seq(Word) /\ rest \in Seq(Word) /\ n \in Seq(Word)
      BY <1>1
    <3> QED
      BY ONLY <3>1, Regroup, SMTT(90)
  <2> QED
    BY <1>2, <1>3, <1>4, <1>5, <2>1, <2>2
<1>6. CASE ack
  <2>1. Shown(Head(bus)) \in Word /\ NextWord \in Word
    BY <1>0, <1>6, SentEdge, ExpectedEdge
  <2>2. PICK s \in Seq(Word) : Sent = <<Shown(Head(bus))>> \o s /\ Sent' = s \o b
    BY <1>6, SentEdge DEF SentAfter
  <2>3. PICK e \in Seq(Word) : Expected = <<NextWord>> \o e /\ Expected' = e \o n
    BY <1>0, <1>6, ExpectedEdge DEF ExpectedAfter
  <2> DEFINE x == Shown(Head(bus))
             z == NextWord
             one == <<x>>
             c == ToCome
  <2>4. c \in Seq(Word) /\ one \in Seq(Word) /\ x \in Word /\ z \in Word
    <3>1. b \o rest \in Seq(Word)
      <4> HIDE DEF b
      <4> QED
        BY <1>1, WordsJoin
    <3> QED
      BY <1>2, <2>1, <3>1
  <2>5. (one \o s) \o c = <<z>> \o e
    BY <1>3, <2>2, <2>3
  <2> HIDE DEF b, n, x, z, one, c
  <2>6. (one \o s) \o c = one \o (s \o c) /\ s \o c \in Seq(Word)
    BY <2>4, WordsJoin, SMTT(90)
  <2>7. <<x>> \o (s \o c) = <<z>> \o e
    BY <2>5, <2>6 DEF one
  <2>8. x = z /\ s \o c = e
    <3> DEFINE q == s \o c
    <3>1. q \in Seq(Word) /\ <<x>> \o q = <<z>> \o e
      BY <2>6, <2>7
    <3> HIDE DEF q
    <3>2. x = z /\ q = e
      <4>1. /\ x \in Word /\ z \in Word /\ q \in Seq(Word) /\ e \in Seq(Word)
            /\ <<x>> \o q = <<z>> \o e
        BY <2>4, <3>1
      <4> QED
        BY ONLY <4>1, FirstWord, SMTT(90)
    <3> QED
      BY <3>2 DEF q
  <2>9. (s \o b) \o (rest \o n) = (s \o (b \o rest)) \o n
    <3>1. s \in Seq(Word) /\ b \in Seq(Word) /\ rest \in Seq(Word) /\ n \in Seq(Word)
      BY <1>1
    <3> QED
      BY ONLY <3>1, Regroup, SMTT(90)
  <2>10. InOrder'
    BY <1>2, <1>4, <2>2, <2>3, <2>8, <2>9 DEF c
  <2> QED
    BY <1>6, <2>8, <2>10 DEF x, z
<1> QED
  BY <1>5, <1>6

(***************************************************************************)
(* The shift register.                                                     *)
(***************************************************************************)
LEMMA ShiftEdge ==
    ASSUME IInv, NEW stall \in BOOLEAN, NEW ack \in BOOLEAN, Clock(stall, ack)
    PROVE  /\ ~ack => ack_data' = ack_data
           /\ ack => /\ ack_data'[LineWords] = Shown(Head(bus))
                     /\ \A j \in 1 .. LineWords - 1 : ack_data'[j] = ack_data[j + 1]
           /\ ack_data' \in Seq(Word) /\ Len(ack_data') = LineWords
<1>0. TypeOK /\ BuffersNeverUnderrun
  BY DEF IInv
<1>1. TypeOK'
  BY <1>0, TypeStep
<1>2. ack_data' \in Seq(Word) /\ Len(ack_data') = LineWords
  BY <1>1 DEF TypeOK, Word
<1>3. ~ack => ack_data' = ack_data
  BY DEF Clock, Shift
<1>4. ASSUME ack
      PROVE  /\ ack_data'[LineWords] = Shown(Head(bus))
             /\ \A j \in 1 .. LineWords - 1 : ack_data'[j] = ack_data[j + 1]
  <2> DEFINE d == Shown(Head(bus))
             t == Tail(ack_data)
  <2>1. ack_data' = Append(t, d)
    BY <1>4 DEF Clock, Shift, Shown
  <2>2. d \in Word
    BY <1>4, SentEdge
  <2>3. ack_data \in Seq(Word) /\ ack_data # <<>> /\ Len(ack_data) = LineWords
    BY <1>0, LineAssumption DEF TypeOK, Word
  <2>4. /\ t \in Seq(Word) /\ Len(t) = LineWords - 1
        /\ \A k \in 1 .. LineWords - 1 : t[k] = ack_data[k + 1]
    BY <2>3, TailFacts
  <2> HIDE DEF d, t
  <2>5. /\ \A k \in 1 .. LineWords - 1 : Append(t, d)[k] = t[k]
        /\ Append(t, d)[LineWords - 1 + 1] = d
    BY <2>2, <2>4, AppendFacts
  <2>6. LineWords - 1 + 1 = LineWords
    BY LineAssumption
  <2> QED
    BY <2>1, <2>4, <2>5, <2>6 DEF d
<1> QED
  BY <1>2, <1>3, <1>4

(***************************************************************************)
(* Entries of the acknowledge buffer.                                      *)
(***************************************************************************)
EveryIs(s, q, push, e) == \A k \in 1 .. Len(q) :
    (\E j \in 1 .. Len(s) : q[k] = s[j]) \/ (push /\ q[k] = e)

LEMMA EntriesOfEdge ==
    ASSUME NEW S, NEW s \in Seq(S), NEW e, NEW push \in BOOLEAN, NEW pop \in BOOLEAN,
           pop => s # <<>>, push => e \in S
    PROVE  EveryIs(s, PopPush(s, push, pop, e), push, e)
<1> DEFINE p == IF pop THEN Tail(s) ELSE s
           q == PopPush(s, push, pop, e)
<1>1. p \in Seq(S) /\ \A k \in 1 .. Len(p) : \E j \in 1 .. Len(s) : p[k] = s[j]
  <2>1. CASE pop
    <3> DEFINE t == Tail(s)
    <3>1. /\ t \in Seq(S) /\ Len(t) = Len(s) - 1 /\ Len(s) \in Nat \ {0}
          /\ \A k \in 1 .. Len(s) - 1 : t[k] = s[k + 1]
      BY <2>1, TailFacts
    <3>2. p = t
      BY <2>1
    <3> HIDE DEF p, t
    <3>3. ASSUME NEW k \in 1 .. Len(p) PROVE \E j \in 1 .. Len(s) : p[k] = s[j]
      <4>1. k + 1 \in 1 .. Len(s) /\ p[k] = s[k + 1]
        BY <3>1, <3>2
      <4> QED
        BY <4>1
    <3> QED
      BY <3>1, <3>2, <3>3
  <2>2. CASE ~pop
    BY <2>2
  <2> QED
    BY <2>1, <2>2
<1>2. q = IF push THEN Append(p, e) ELSE p
  BY DEF PopPush
<1> HIDE DEF p, q
<1>3. CASE push
  <2>1. /\ q = Append(p, e) /\ Len(q) = Len(p) + 1 /\ Len(p) \in Nat
        /\ \A k \in 1 .. Len(p) : q[k] = p[k]
        /\ q[Len(p) + 1] = e
    BY <1>1, <1>2, <1>3, AppendFacts
  <2>2. \A k \in 1 .. Len(q) : k \in 1 .. Len(p) \/ k = Len(p) + 1
    BY <2>1
  <2>3. EveryIs(s, q, push, e)
    BY <1>1, <1>3, <2>1, <2>2 DEF EveryIs
  <2> QED
    BY <2>3 DEF q
<1>4. CASE ~push
  <2>1. q = p
    BY <1>2, <1>4
  <2>2. EveryIs(s, q, push, e)
    BY <1>1, <2>1 DEF EveryIs
  <2> QED
    BY <2>2 DEF q
<1> QED
  BY <1>3, <1>4

LEMMA EntriesStep ==
    ASSUME IInv, Entries, NEW stall \in BOOLEAN, NEW ack \in BOOLEAN, Clock(stall, ack)
    PROVE  Entries'
<1> DEFINE Fits(e) == /\ e.cnt = IF e.wr \/ e.nc THEN 0 ELSE LineWords - 1
                      /\ e.type = "I" => ~e.wr /\ ~e.nc
                      /\ IsRead(e, "D") => e.nc = dreq'.nc
<1>0. TypeOK /\ BuffersNeverUnderrun
  BY DEF IInv
<1>1. EveryIs(ack_buf, ack_buf', req_val, w_ack_data)
  <2> DEFINE e == w_ack_data
             pop == r_ack(ack)
  <2>1. /\ ack_buf \in Seq(Answer) /\ req_val \in BOOLEAN /\ pop \in BOOLEAN
        /\ (pop => ack_buf # <<>>) /\ (req_val => e \in Answer)
        /\ ack_buf' = PopPush(ack_buf, req_val, pop, e)
    BY <1>0, RequestWires, PopWires, BuffersEdge DEF TypeOK, Clock
  <2> HIDE DEF e, pop
  <2>2. EveryIs(ack_buf, PopPush(ack_buf, req_val, pop, e), req_val, e)
    BY <2>1, EntriesOfEdge
  <2> QED
    BY <2>1, <2>2 DEF e
<1>2. ASSUME NEW j \in 1 .. Len(ack_buf) PROVE Fits(ack_buf[j])
  <2>1. WellFormed(ack_buf[j])
    BY DEF Entries
  <2>2. IsRead(ack_buf[j], "D") => dreq' = dreq
    <3>1. IsRead(ack_buf[j], "D") => j \in Reads(ack_buf, "D")
      BY DEF Reads
    <3> QED
      BY <3>1, PortsHeld
  <2> QED
    BY <2>1, <2>2 DEF WellFormed
<1>3. ASSUME req_val PROVE Fits(w_ack_data)
  <2>1. /\ w_ack_data.wr = req_wr /\ w_ack_data.nc = req_nc /\ w_ack_data.cnt = w_ack_cnt
        /\ w_ack_data.type = IF req_d_val THEN "D" ELSE "I"
    BY DEF w_ack_data
  <2>2. IsRead(w_ack_data, "D") => req_d_val /\ ~dreq.we
    BY <1>0, <1>3, RequestWires
  <2>3. IsRead(w_ack_data, "D") => dreq' = dreq /\ req_nc = dreq.nc
    <3>1. req_d_val => dreq \in Request
      BY <1>0, RequestAssumption DEF req_d_val, TypeOK
    <3> QED
      BY <2>2, <3>1, PortsHeld DEF req_nc, Request
  <2>4. w_ack_data.type = "I" => ~req_wr /\ ~req_nc
    BY <2>1 DEF req_wr, req_nc
  <2> QED
    BY <2>1, <2>3, <2>4 DEF w_ack_cnt
<1>4. Entries' <=> \A k \in 1 .. Len(ack_buf') : Fits(ack_buf'[k])
  BY DEF Entries, WellFormed, IsRead
<1> HIDE DEF Fits
<1> QED
  BY <1>1, <1>2, <1>3, <1>4 DEF EveryIs

(***************************************************************************)
(* The line that is being collected.                                       *)
(***************************************************************************)
LEMMA HeadIsThere ==
    ASSUME IInv, Entries, ack_buf # <<>>
    PROVE  /\ Head(ack_buf) = ack_buf[1] /\ 1 \in 1 .. Len(ack_buf)
           /\ Head(ack_buf) \in Answer /\ WellFormed(Head(ack_buf))
           /\ Base(Head(ack_buf)) \in Nat
<1>1. ack_buf \in Seq(Answer) /\ DBase \in Nat /\ IBase \in Nat
  BY BaseTypes DEF IInv, TypeOK
<1>2. /\ Head(ack_buf) = ack_buf[1] /\ 1 \in 1 .. Len(ack_buf)
      /\ Head(ack_buf) \in Answer
  BY <1>1, TailFacts
<1>3. WellFormed(Head(ack_buf))
  BY <1>2 DEF Entries
<1> QED
  BY <1>1, <1>2, <1>3 DEF Base, BaseIn

LEMMA CollectedStep ==
    ASSUME IInv, OrderInv, NEW stall \in BOOLEAN, NEW ack \in BOOLEAN, Clock(stall, ack)
    PROVE  Collected'
<1> DEFINE h == Head(ack_buf)
           base == Base(h)
           pop == r_ack(ack)
<1>0. /\ TypeOK /\ BuffersNeverUnderrun /\ InOrder /\ Entries /\ Collected
      /\ ack_cnt \in Nat /\ ack_cnt <= LineWords - 1 /\ LineWords \in Nat \ {0}
  BY LineAssumption DEF IInv, OrderInv, TypeOK
<1>1. AckOpen \/ ack => ack_buf # <<>>
  BY <1>0 DEF BuffersNeverUnderrun, Clock
<1>2. AckMachine(ack)
  BY DEF Clock
<1> SUFFICES ASSUME AckOpen' PROVE
             /\ ~(Head(ack_buf').wr) /\ Head(ack_buf').cnt = LineWords - 1
             /\ \A j \in ack_cnt' + 1 .. LineWords :
                   ack_data'[j] = BaseIn(DBase', IBase', Head(ack_buf')) + j - ack_cnt' - 1
  BY DEF Collected, Base
<1>3. ack_buf # <<>> /\ pop = FALSE
  <2>1. pop \in BOOLEAN
    BY <1>0, PopWires DEF Clock
  <2>2. CASE AckNone(ack)
    BY <1>1, <2>1, <2>2 DEF AckNone, AckOpen, r_ack
  <2>3. CASE AckFirst(ack)
    BY <1>1, <2>1, <2>3 DEF AckFirst, AckOpen, r_ack
  <2>4. CASE AckMore(ack)
    BY <1>0, <1>1, <2>1, <2>4 DEF AckMore, AckOpen, r_ack
  <2> QED
    BY <1>2, <2>2, <2>3, <2>4 DEF AckMachine
<1>4. /\ h = ack_buf[1] /\ 1 \in 1 .. Len(ack_buf)
      /\ h \in Answer /\ WellFormed(h) /\ base \in Nat
      /\ ~h.wr => BaseIn(DBase', IBase', h) = base
  BY <1>0, <1>3, HeadIsThere, BaseHeld
<1>5. Head(ack_buf') = h
  <2> DEFINE e == w_ack_data
  <2>1. /\ ack_buf \in Seq(Answer) /\ req_val \in BOOLEAN /\ (req_val => e \in Answer)
        /\ ack_buf' = PopPush(ack_buf, req_val, FALSE, e)
    BY <1>0, <1>3, RequestWires, BuffersEdge DEF TypeOK
  <2> HIDE DEF e
  <2>2. PopPush(ack_buf, req_val, FALSE, e) = IF req_val THEN Append(ack_buf, e) ELSE ack_buf
    BY DEF PopPush
  <2>3. Head(Append(ack_buf, e)) = h
    BY <1>3, <2>1, HeadTailAppend
  <2> QED
    BY <2>1, <2>2, <2>3
<1>6. LineWords \in Nat \ {0} /\ ack_cnt \in Nat
  BY <1>0
<1>7. CASE AckNone(ack)
  <2>1. AckOpen /\ ack_cnt' = ack_cnt /\ ack_data' = ack_data
    BY <1>7, ShiftEdge DEF AckNone, AckOpen
  <2>2. /\ ~h.wr /\ h.cnt = LineWords - 1
        /\ \A j \in ack_cnt + 1 .. LineWords : ack_data[j] = base + j - ack_cnt - 1
    BY <1>0, <2>1 DEF Collected
  <2> QED
    BY <1>4, <1>5, <2>1, <2>2
<1>8. CASE AckFirst(ack)
  <2>1. ~AckOpen /\ ack_cnt' = h.cnt /\ h.cnt # 0 /\ ack
    BY <1>8 DEF AckFirst, AckOpen
  <2>2. ~h.wr /\ h.cnt = LineWords - 1
    BY <1>4, <2>1 DEF WellFormed
  <2>3. ack_data'[LineWords] = base
    <3>1. ack_data'[LineWords] = NextWord
      BY <2>1, ShiftEdge, InOrderStep
    <3> QED
      BY <2>1, <2>2, <3>1 DEF NextWord
  <2> HIDE DEF h, base
  <2>4. ASSUME NEW j \in ack_cnt' + 1 .. LineWords
        PROVE  ack_data'[j] = base + j - ack_cnt' - 1
    <3>1. j = LineWords /\ base + j - ack_cnt' - 1 = base
      BY <1>4, <1>6, <2>1, <2>2
    <3> QED
      BY <2>3, <3>1
  <2> QED
    BY <1>4, <1>5, <2>2, <2>4
<1>9. CASE AckMore(ack)
  <2>1. AckOpen /\ ack_cnt' = ack_cnt - 1 /\ ack /\ ack_cnt # 0
    BY <1>9 DEF AckMore, AckOpen
  <2>2. /\ ~h.wr /\ h.cnt = LineWords - 1
        /\ \A j \in ack_cnt + 1 .. LineWords : ack_data[j] = base + j - ack_cnt - 1
    BY <1>0, <2>1 DEF Collected
  <2>3. /\ ack_data'[LineWords] = base + LineWords - ack_cnt
        /\ \A j \in 1 .. LineWords - 1 : ack_data'[j] = ack_data[j + 1]
    <3>1. ack_data'[LineWords] = NextWord
      BY <2>1, ShiftEdge, InOrderStep
    <3>2. \A j \in 1 .. LineWords - 1 : ack_data'[j] = ack_data[j + 1]
      BY <2>1, ShiftEdge
    <3> QED
      BY <2>1, <3>1, <3>2 DEF NextWord
  <2> HIDE DEF h, base
  <2>4. ASSUME NEW j \in ack_cnt' + 1 .. LineWords
        PROVE  ack_data'[j] = base + j - ack_cnt' - 1
    <3>0. j \in Nat /\ j >= ack_cnt /\ j <= LineWords /\ j >= 1
      BY <1>6, <2>1
    <3>1. CASE j = LineWords
      BY <1>4, <1>6, <2>1, <2>3, <3>1
    <3>2. CASE j # LineWords
      <4>1. j \in 1 .. LineWords - 1 /\ j + 1 \in ack_cnt + 1 .. LineWords
        BY <1>6, <3>0, <3>2
      <4>2. ack_data'[j] = base + (j + 1) - ack_cnt - 1
        BY <2>2, <2>3, <4>1
      <4> QED
        BY <1>4, <1>6, <2>1, <3>0, <4>2
    <3> QED
      BY <3>1, <3>2
  <2> QED
    BY <1>4, <1>5, <2>2, <2>4
<1> QED
  BY <1>2, <1>7, <1>8, <1>9 DEF AckMachine

(***************************************************************************)
(* The answer that is delivered.                                           *)
(***************************************************************************)
LEMMA AnswerStep ==
    ASSUME IInv, OrderInv, NEW stall \in BOOLEAN, NEW ack \in BOOLEAN, Clock(stall, ack)
    PROVE  AnswerIsWhatWasAsked'
<1> DEFINE h == Head(ack_buf)
           base == Base(h)
<1>0. /\ TypeOK /\ BuffersNeverUnderrun /\ InOrder /\ Entries /\ Collected
      /\ ack_cnt \in Nat /\ ack_cnt <= LineWords - 1 /\ LineWords \in Nat \ {0}
  BY LineAssumption DEF IInv, OrderInv, TypeOK
<1>1. /\ l1d_rd_ack' => r_ack(ack) /\ IsRead(h, "D")
      /\ l1i_req_ack' => r_ack(ack) /\ IsRead(h, "I")
  BY <1>0, DeliveryEdge
<1>2. ASSUME r_ack(ack), ~h.wr
      PROVE  /\ ack_buf # <<>> /\ h \in Answer /\ WellFormed(h) /\ base \in Nat
             /\ ack_r'.nc = h.nc
             /\ h.nc => ack_data'[LineWords] = base
             /\ ~h.nc => ack_data' = LineAt(base)
  <2>1. ack_buf # <<>> /\ ack
    <3>1. ack
      BY <1>2 DEF r_ack
    <3> QED
      BY <1>0, <1>2, <3>1, PopWires DEF Clock
  <2>2. h \in Answer /\ WellFormed(h) /\ base \in Nat
    BY <1>0, <2>1, HeadIsThere
  <2>3. ack_r'.nc = h.nc
    BY <1>2 DEF Clock, AckMachine
  <2>4. /\ ack_data'[LineWords] = IF AckOpen THEN base + LineWords - 1 ELSE base
        /\ \A j \in 1 .. LineWords - 1 : ack_data'[j] = ack_data[j + 1]
        /\ ack_data' \in Seq(Word) /\ Len(ack_data') = LineWords
    <3>1. ack_data'[LineWords] = NextWord
      BY <2>1, ShiftEdge, InOrderStep
    <3>2. AckOpen => ack_cnt = 1
      BY <1>2, <2>1 DEF r_ack
    <3> QED
      BY <1>2, <2>1, <3>1, <3>2, ShiftEdge DEF NextWord
  <2>5. CASE AckOpen
    <3>1. ack_cnt = 1 /\ h.cnt = LineWords - 1 /\ LineWords # 1
      BY <1>0, <1>2, <2>1, <2>5 DEF r_ack, Collected
    <3>2. \A j \in 2 .. LineWords : ack_data[j] = base + j - 2
      <4>1. \A j \in ack_cnt + 1 .. LineWords : ack_data[j] = base + j - ack_cnt - 1
        BY <1>0, <2>5 DEF Collected
      <4> HIDE DEF base
      <4> QED
        BY <1>0, <2>2, <3>1, <4>1
    <3>3. ~h.nc
      BY <1>0, <2>2, <3>1 DEF WellFormed, Answer
    <3> HIDE DEF h, base
    <3>4. \A j \in 1 .. LineWords : ack_data'[j] = base + j - 1
      <4> SUFFICES ASSUME NEW j \in 1 .. LineWords PROVE ack_data'[j] = base + j - 1
        OBVIOUS
      <4>1. CASE j = LineWords
        BY <2>4, <2>5, <4>1
      <4>2. CASE j # LineWords
        <5>1. j \in 1 .. LineWords - 1 /\ j + 1 \in 2 .. LineWords
          BY <1>0, <4>2
        <5>2. ack_data'[j] = base + (j + 1) - 2
          BY <2>4, <3>2, <5>1
        <5> QED
          BY <2>2, <5>1, <5>2
      <4> QED
        BY <4>1, <4>2
    <3>5. ack_data' = LineAt(base)
      <4>1. /\ LineAt(base) \in Seq(Word) /\ Len(LineAt(base)) = LineWords
            /\ \A j \in 1 .. LineWords : LineAt(base)[j] = base + j - 1
        BY <1>0, <2>2 DEF LineAt, Word
      <4> QED
        BY <2>4, <3>4, <4>1, SeqEqual
    <3> QED
      BY <2>1, <2>2, <2>3, <3>3, <3>5
  <2>6. CASE ~AckOpen
    <3>1. h.cnt = 0
      BY <1>2, <2>1, <2>6 DEF r_ack
    <3>2. ~h.nc => LineWords = 1
      BY <1>0, <1>2, <2>2, <3>1 DEF WellFormed
    <3> HIDE DEF h, base
    <3>3. LineWords = 1 => ack_data' = LineAt(base)
      <4> SUFFICES ASSUME LineWords = 1 PROVE ack_data' = LineAt(base)
        OBVIOUS
      <4>1. /\ LineAt(base) \in Seq(Word) /\ Len(LineAt(base)) = 1
            /\ LineAt(base)[1] = base
        BY <2>2 DEF LineAt, Word
      <4>2. \A j \in 1 .. Len(ack_data') : ack_data'[j] = LineAt(base)[j]
        BY <2>4, <2>6, <4>1
      <4> QED
        BY <2>4, <4>1, <4>2, SeqEqual
    <3> QED
      BY <2>1, <2>2, <2>3, <2>4, <2>6, <3>2, <3>3
  <2> QED
    BY <2>5, <2>6
<1>3. ASSUME l1i_req_ack' PROVE ireq' # None /\ ack_data' = LineAt(ireq')
  <2>1. r_ack(ack) /\ h.type = "I" /\ ack_buf # <<>>
    <3>1. r_ack(ack) /\ IsRead(h, "I")
      BY <1>1, <1>3
    <3> QED
      BY <1>0, <3>1, PopWires DEF IsRead, Clock
  <2>2. ~h.wr /\ ~h.nc
    BY <1>0, <2>1, HeadIsThere DEF WellFormed
  <2>3. ireq' = ireq /\ ireq # None
    BY <1>3, PortsHeld
  <2>4. base = ireq
    BY <2>1, <2>3 DEF Base, BaseIn, IBase
  <2> HIDE DEF h, base
  <2> QED
    BY <1>2, <2>1, <2>2, <2>3, <2>4
<1>4. ASSUME l1d_rd_ack'
      PROVE  /\ dreq' # None /\ ~(dreq'.we)
             /\ l1d_ack_nc' = dreq'.nc
             /\ IF dreq'.nc THEN ack_data'[LineWords] = dreq'.addr
                            ELSE ack_data' = LineAt(dreq'.addr)
  <2>1. r_ack(ack) /\ h.type = "D" /\ ~h.wr /\ IsRead(h, "D")
    BY <1>1, <1>4 DEF IsRead
  <2>2. dreq' = dreq /\ dreq # None /\ ~dreq.we
    BY <1>4, PortsHeld
  <2>3. base = dreq.addr
    BY <2>1, <2>2 DEF Base, BaseIn, DBase
  <2>4. h.nc = dreq.nc
    BY <1>2, <2>1 DEF WellFormed
  <2>5. l1d_ack_nc' = ack_r'.nc
    <3>1. req_wr' = FALSE
      BY <2>2 DEF req_wr
    <3>2. ack_r'.nc \in BOOLEAN
      <4>1. TypeOK'
        BY <1>0, TypeStep
      <4> QED
        BY <4>1 DEF TypeOK, Grant
    <3> QED
      BY <3>1, <3>2 DEF l1d_ack_nc
  <2> HIDE DEF h, base
  <2> QED
    BY <1>2, <2>1, <2>2, <2>3, <2>4, <2>5
<1> QED
  BY <1>3, <1>4 DEF AnswerIsWhatWasAsked

(***************************************************************************)
(* The data FIFO.                                                          *)
(***************************************************************************)
(* The data of the queued headers begin with those of the oldest.          *)
LEMMA DataOfFirst ==
    ASSUME TypeOK, hdr # <<>>
    PROVE  /\ Head(hdr) \in Request /\ Tail(hdr) \in Seq(Request)
           /\ Stream(DatWords, hdr) = DatWords[Head(hdr)] \o Stream(DatWords, Tail(hdr))
<1> DEFINE h == Head(hdr)
           t == Tail(hdr)
           w == DatWords
           N == Nat
           R == Request
<1>1. /\ hdr \in Seq(Request) /\ Len(hdr) <= 4 /\ w \in [Request -> Seq(Nat)]
  BY WordTypes DEF TypeOK, HdrDepth
<1>2. h \in Request /\ t \in Seq(Request)
  BY <1>1, TailFacts
<1>3. w \in [R -> Seq(N)] /\ hdr \in Seq(R) /\ hdr # <<>> /\ Len(hdr) <= 4
  BY <1>1
<1> HIDE DEF w, N, R
<1>4. Stream(w, hdr) = w[h] \o Stream(w, t)
  BY ONLY <1>3, StreamOfTail, SMTT(90)
<1> QED
  BY <1>2, <1>4 DEF w

LEMMA DataOrderStep ==
    ASSUME IInv, OrderInv, NEW stall \in BOOLEAN, NEW ack \in BOOLEAN, Clock(stall, ack)
    PROVE  DataInOrder'
<1> DEFINE h == Head(hdr)
           t == Tail(hdr)
           w == DatWords
           pop == hdr_finished(stall)
           fin == dat_finished(stall)
           adr == dreq.addr
<1>0. TypeOK /\ BuffersNeverUnderrun /\ DataInOrder /\ (ack => bus # <<>>)
  BY DEF IInv, OrderInv, Clock
<1>1. /\ hdr \in Seq(Request) /\ Len(hdr) <= 4 /\ w \in [Request -> Seq(Nat)]
      /\ dat \in Seq(Nat)
  BY <1>0, WordTypes DEF TypeOK, HdrDepth
<1>2. /\ req_val \in BOOLEAN /\ pop \in BOOLEAN /\ req_wr \in BOOLEAN /\ fin \in BOOLEAN
      /\ req_val => req_hdr_data \in Request /\ Len(hdr) < 4 /\ req_hdr_data.we = req_wr
      /\ req_wr => req_val /\ adr \in Nat /\ req_hdr_data.addr = adr
      /\ pop => hdr # <<>>
      /\ hdr' = PopPush(hdr, req_val, pop, req_hdr_data)
      /\ dat' = PopPush(dat, req_wr, fin, adr)
      /\ wb_stb => hdr # <<>>
  <2>1. req_val => Len(hdr) < 4
    BY <1>0, RequestWires DEF HdrDepth
  <2>2. wb_stb => hdr # <<>>
    BY <1>0 DEF BuffersNeverUnderrun
  <2>3. req_wr => req_hdr_data.addr = adr
    BY DEF req_wr, req_hdr_data
  <2> QED
    BY <1>0, <1>1, <2>1, <2>2, <2>3, RequestWires, PopWires, BuffersEdge
<1>3. hdr # <<>> => /\ h \in Request /\ t \in Seq(Request)
                    /\ Stream(w, t) \in Seq(Nat)
                    /\ Stream(w, hdr) = w[h] \o Stream(w, t)
  <2> SUFFICES ASSUME hdr # <<>>
               PROVE  /\ h \in Request /\ t \in Seq(Request)
                      /\ Stream(w, t) \in Seq(Nat)
                      /\ Stream(w, hdr) = w[h] \o Stream(w, t)
    OBVIOUS
  <2>1. h \in Request /\ t \in Seq(Request)
    BY <1>1, TailFacts
  <2>3. Stream(w, hdr) = w[h] \o Stream(w, t)
    BY <1>0, DataOfFirst
  <2> HIDE DEF w
  <2>2. Stream(w, t) \in Seq(Nat)
    BY <1>1, <2>1, StreamType
  <2> QED
    BY <2>1, <2>2, <2>3
<1>4. /\ Stream(w, hdr') = (IF pop THEN Stream(w, t) ELSE Stream(w, hdr))
                             \o Pushed(w, req_val, req_hdr_data)
      /\ hdr # <<>> /\ pop = FALSE => Head(hdr') = h
  <2> DEFINE e == req_hdr_data
  <2>1. StreamEdge(w, hdr, req_val, pop, e)
    <3> HIDE DEF w, pop, e
    <3> QED
      BY <1>1, <1>2, StreamOfEdge, ZenonT(60) DEF e
  <2> QED
    BY <1>2, <2>1 DEF StreamEdge
<1>5. Pushed(w, req_val, req_hdr_data) = IF req_wr THEN <<adr>> ELSE <<>>
  BY <1>2 DEF Pushed, DatWords
<1>6. dat = Stream(w, hdr)
  BY <1>0 DEF DataInOrder
<1>7. hdr # <<>> => w[h] = IF h.we THEN <<h.addr>> ELSE <<>>
  BY <1>3 DEF DatWords
<1>8. fin <=> pop /\ h.we
  BY DEF dat_finished, wb_we
<1> DEFINE p == IF fin THEN Tail(dat) ELSE dat
           r == IF pop THEN Stream(w, t) ELSE Stream(w, hdr)
<1>9. p = r /\ p \in Seq(Nat)
  <2>1. CASE pop
    <3>1. hdr # <<>> /\ r = Stream(w, t)
      BY <1>2, <2>1
    <3> DEFINE q == Stream(w, t)
    <3>2. q \in Seq(Nat) /\ dat = w[h] \o q
      BY <1>3, <1>6, <3>1
    <3>3. CASE h.we
      <4>1. p = Tail(dat) /\ dat = <<h.addr>> \o q
        BY <1>7, <1>8, <2>1, <3>1, <3>2, <3>3
      <4> DEFINE a == h.addr
      <4>2. a \in Nat
        BY <1>3, <3>1 DEF Request
      <4> HIDE DEF q, a, p, r
      <4>3. Tail(dat) = q
        <5>1. dat = <<a>> \o q
          BY <4>1 DEF a
        <5>2. dat \in Seq(Nat) /\ dat # <<>>
          BY <1>1, <1>2, <1>8, <2>1, <3>3, PopWires, <1>0 DEF fin
        <5> QED
          BY <3>2, <4>2, <5>1, <5>2, TakeFirst
      <4> QED
        BY <3>1, <3>2, <4>1, <4>3 DEF a, q
    <3>4. CASE ~h.we
      <4>1. p = dat /\ dat = <<>> \o q
        BY <1>7, <1>8, <3>1, <3>2, <3>4
      <4>2. <<>> \o q = q
        BY <3>2, ConcatEmptySeq
      <4> QED
        BY <3>1, <3>2, <4>1, <4>2
    <3> QED
      BY <3>3, <3>4
  <2>2. CASE ~pop
    BY <1>1, <1>6, <1>8, <2>2
  <2> QED
    BY <2>1, <2>2
<1>10. dat' = IF req_wr THEN Append(p, adr) ELSE p
  BY <1>2 DEF PopPush
<1>11. Stream(w, hdr') = r \o (IF req_wr THEN <<adr>> ELSE <<>>)
  BY <1>4, <1>5
<1>12. dat' = Stream(w, hdr')
  <2> HIDE DEF p, r, w
  <2>1. CASE req_wr
    <3>1. Append(p, adr) = p \o <<adr>>
      BY <1>2, <1>9, <2>1, AppendIsConcat
    <3> QED
      BY <1>9, <1>10, <1>11, <2>1, <3>1
  <2>2. CASE ~req_wr
    <3>1. p \o <<>> = p
      BY <1>9, ConcatEmptySeq
    <3> QED
      BY <1>9, <1>10, <1>11, <2>2, <3>1
  <2> QED
    BY <2>1, <2>2
<1>13. wb_stb' /\ wb_we' => tr_cnt' = 0 /\ tr_addr' = Head(hdr').addr
  <2> SUFFICES ASSUME wb_stb', wb_we' PROVE tr_cnt' = 0 /\ tr_addr' = Head(hdr').addr
    OBVIOUS
  <2>1. Tr(stall)
    BY DEF Clock
  <2>2. hdr # <<>> /\ pop = FALSE
    <3>1. CASE TrIdle
      BY <3>1 DEF TrIdle, wb_stb, trVars
    <3>2. CASE TrStart
      BY <1>2, <3>2 DEF TrStart, wb_stb, hdr_finished
    <3>3. CASE TrStall(stall)
      BY <1>2, <3>3 DEF TrStall, hdr_finished
    <3>4. CASE TrBeat(stall)
      BY <1>2, <3>4 DEF TrBeat, hdr_finished
    <3>5. CASE TrLast(stall)
      BY <3>5 DEF TrLast, wb_stb
    <3> QED
      BY <2>1, <3>1, <3>2, <3>3, <3>4, <3>5 DEF Tr
  <2>3. Head(hdr') = h
    BY <1>4, <2>2
  <2>4. h.we
    BY <2>3 DEF wb_we
  <2>5. CASE TrIdle
    BY <2>2, <2>5 DEF TrIdle
  <2>6. CASE TrStart
    BY <2>3, <2>4, <2>6 DEF TrStart, Beats
  <2>7. wb_stb => tr_cnt = 0 /\ tr_addr = h.addr
    BY <1>0, <2>4 DEF DataInOrder, wb_we
  <2>8. CASE TrStall(stall)
    BY <2>3, <2>7, <2>8 DEF TrStall, trVars
  <2>9. CASE TrBeat(stall)
    BY <2>7, <2>9 DEF TrBeat
  <2>10. CASE TrLast(stall)
    BY <2>10 DEF TrLast, wb_stb
  <2> QED
    BY <2>1, <2>5, <2>6, <2>8, <2>9, <2>10 DEF Tr
<1>14. DataInOrder' <=> /\ dat' = Stream(DatWords, hdr')
                        /\ wb_stb' /\ wb_we' => tr_cnt' = 0 /\ tr_addr' = Head(hdr').addr
  BY DEF DataInOrder
<1> QED
  BY <1>12, <1>13, <1>14
-----------------------------------------------------------------------------
LEMMA OrderInit == Init => OrderInv
<1> SUFFICES ASSUME Init PROVE OrderInv
  OBVIOUS
<1>1. \A w : Stream(w, <<>>) = <<>>
  <2>1. ASSUME NEW w PROVE Stream(w, <<>>) = <<>>
    <3>1. \A k \in Nat : PartAt(w, <<>>, k) = <<>>
      BY DEF PartAt
    <3>2. <<>> \o <<>> = <<>>
      BY WordTypes, ConcatEmptySeq
    <3> QED
      BY <3>1, <3>2 DEF Stream
  <2> QED
    BY <2>1
<1>2. ~wb_stb /\ ~AckOpen /\ hdr = <<>> /\ dat = <<>> /\ ack_buf = <<>> /\ bus = <<>>
  BY DEF Init, wb_stb, AckOpen
<1>3. InOrder
  <2>1. Sent = <<>> /\ ToCome = <<>> /\ Expected = <<>>
    BY <1>1, <1>2 DEF Sent, Shows, ToCome, Expected
  <2>2. <<>> \o <<>> = <<>>
    BY WordTypes, ConcatEmptySeq
  <2> QED
    BY <2>1, <2>2 DEF InOrder
<1>4. Entries /\ Collected /\ DataInOrder
  BY <1>1, <1>2 DEF Entries, Collected, DataInOrder
<1>5. AnswerIsWhatWasAsked
  BY DEF Init, AnswerIsWhatWasAsked, l1i_req_ack, l1d_rd_ack, req_ack
<1> QED
  BY <1>3, <1>4, <1>5 DEF OrderInv

LEMMA OrderStep == IInv /\ OrderInv /\ [Next]_vars => OrderInv'
<1>1. ASSUME IInv, OrderInv, NEW stall \in BOOLEAN, NEW ack \in BOOLEAN, Clock(stall, ack)
      PROVE  OrderInv'
  <2>1. Entries
    BY <1>1 DEF OrderInv
  <2>2. InOrder'
    BY <1>1, InOrderStep
  <2>3. Entries'
    BY <1>1, <2>1, EntriesStep
  <2>4. Collected' /\ AnswerIsWhatWasAsked' /\ DataInOrder'
    BY <1>1, CollectedStep, AnswerStep, DataOrderStep
  <2> QED
    BY <2>2, <2>3, <2>4 DEF OrderInv
<1>2. ASSUME OrderInv, UNCHANGED vars PROVE OrderInv'
  <2>1. InOrder'
    BY <1>2 DEF OrderInv, vars, ports, bufs, trVars, ackVars, InOrder, Sent, ToCome, OnTheWay,
                Expected, RestOfLine, AckOpen, wb_stb, wb_we, DBase, IBase, Base
  <2>2. Entries' /\ Collected'
    BY <1>2 DEF OrderInv, vars, ports, bufs, trVars, ackVars, Entries, WellFormed,
                Collected, AckOpen, DBase, IBase, Base
  <2>3. DataInOrder' /\ AnswerIsWhatWasAsked'
    BY <1>2 DEF OrderInv, vars, ports, bufs, trVars, ackVars, DataInOrder, wb_stb, wb_we,
                AnswerIsWhatWasAsked, l1i_req_ack, l1d_rd_ack, l1d_ack_nc, req_ack,
                req_wr, req_nc, req_d_val, room
  <2> QED
    BY <2>1, <2>2, <2>3 DEF OrderInv
<1> QED
  BY <1>1, <1>2 DEF Next

(* For every line length and set of requests, the beats on the bus and     *)
(* those still to be sent are, word for word, what the ports are owed.     *)
THEOREM WordsStayInOrder == Spec => [](IInv /\ OrderInv)
<1>1. Init => IInv /\ OrderInv
  BY InvInit, OrderInit
<1>2. (IInv /\ OrderInv) /\ [Next]_vars => (IInv /\ OrderInv)'
  BY InvStep, OrderStep
<1> QED
  BY <1>1, <1>2, PTL DEF Spec

(* The acknowledge a cache sees brings the line or the word that is asked  *)
(* at its port, in ascending order, whatever else is in flight.            *)
THEOREM AnswersAreRight == Spec => []AnswerIsWhatWasAsked
<1>1. OrderInv => AnswerIsWhatWasAsked
  BY DEF OrderInv
<1> QED
  BY <1>1, WordsStayInOrder, PTL

(* A write goes out with its own data, although headers and data are kept  *)
(* in FIFOs of different depths that are popped by different conditions.   *)
THEOREM WritesMeetTheirData == Spec => []WriteMeetsItsData
<1>1. IInv /\ OrderInv => WriteMeetsItsData
  <2> SUFFICES ASSUME IInv, OrderInv, wb_stb, wb_we
               PROVE  dat # <<>> /\ Head(dat) = tr_addr
    BY DEF WriteMeetsItsData
  <2>1. /\ hdr \in Seq(Request) /\ Len(hdr) <= 4 /\ hdr # <<>>
        /\ dat \in Seq(Nat) /\ dat # <<>>
    BY DEF IInv, TypeOK, HdrDepth, BuffersNeverUnderrun
  <2>2. dat = Stream(DatWords, hdr) /\ tr_addr = Head(hdr).addr
    BY DEF OrderInv, DataInOrder
  <2>3. Head(hdr) \in Request /\ Tail(hdr) \in Seq(Request)
    BY <2>1, TailFacts
  <2> DEFINE w == DatWords
             q == Stream(w, Tail(hdr))
             a == Head(hdr).addr
  <2>4. w \in [Request -> Seq(Nat)] /\ w[Head(hdr)] = <<a>> /\ a \in Nat
    BY <2>3, WordTypes DEF DatWords, wb_we, Request
  <2>5. dat = Stream(w, hdr)
    BY <2>2
  <2> HIDE DEF w
  <2>6. Stream(w, hdr) = w[Head(hdr)] \o q
    BY <2>1, DataOfFirst DEF w, IInv
  <2>7. q \in Seq(Nat)
    BY <2>3, <2>4, StreamType
  <2> HIDE DEF q, a
  <2>8. dat = <<a>> \o q
    BY <2>4, <2>5, <2>6
  <2>9. Head(dat) = a
    BY <2>1, <2>4, <2>7, <2>8, TakeFirst
  <2> QED
    BY <2>1, <2>2, <2>9 DEF a
<1> QED
  BY <1>1, WordsStayInOrder, PTL
=============================================================================
