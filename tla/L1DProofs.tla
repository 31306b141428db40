------------------------------ MODULE L1DProofs ------------------------------
(***************************************************************************)
(* The data cache, for every geometry, every set of requests and every     *)
(* choice of a victim.  The control part (one request in flight, a line in *)
(* one way, a deferred store that keeps its line) needs no hypothesis; the *)
(* part about values names the two that the code relies on.                *)
(***************************************************************************)
EXTENDS L1D, TLAPS

(***************************************************************************)
(* The inductive invariant of the control part.                            *)
(*                                                                         *)
(* The lookup happens in the first cycle of S1 only: lru_req_r and what is *)
(* derived from it (a hit, a forwarding) are never set in a stalled cycle. *)
(***************************************************************************)
Pipeline ==
    /\ lru_req_r => s1_val /\ ~is_nc(s1_req)
    /\ del_hit => del_addr_hit
    /\ del_addr_hit => lru_req_r /\ s1_req.op = "RD"
    /\ mau_acc => s1_val /\ ~is_we(s1_req) /\ ~lru_req_r
    /\ mau_req_ack => s1_val /\ (is_we(s1_req) \/ mau_acc)
    /\ mau_ack_r => ~s1_val /\ s1_req # None /\ ~is_we(s1_req)
    /\ mau_nc_r <=> mau_ack_r /\ is_nc(s1_req)
    /\ owed = IF Busy THEN <<s1_req>> ELSE <<>>

(* The store in S1 is the one in the buffer, and it found the buffer free; *)
(* nothing is deferred while the MAU reads.                                *)
Buffer ==
    /\ lru_req_r /\ is_we(s1_req) => del_val /\ del_buf = s1_req /\ ~del_dm_wr
    /\ mau_acc => ~del_dm_wr
    /\ del_buf # None => del_buf.op = "WR"

(* A load that waits for its line has a victim, and no way holds its tag.  *)
VictimIsNoCopy ==
    s1_val /\ s1_req.op = "RD" /\ ~lru_req_r =>
        /\ \E w \in Ways : lru_way_r = {w}
        /\ \A w \in Ways : ld[w][s1_req.loc.idx] # s1_req.loc.tag

LinesAreWords ==
    \A w \in Ways, i \in Sets : ld[w][i] # None => dm[w][i] \in [Words -> Word]

Control == /\ TypeOK /\ Pipeline /\ Buffer /\ LinesAreWords
           /\ VictimIsNoCopy /\ OneWayHits /\ DeferredStoreHasItsLine

(* A clock edge from a state of the invariant.                             *)
Cycle(r) == /\ Control /\ Clock(r)
            /\ r \in CoreReqs \cup {None} /\ (stall => r = None)
-----------------------------------------------------------------------------
(* The fields of a request.                                                *)
LEMMA RequestFields ==
    ASSUME NEW r \in CoreReqs
    PROVE  /\ r # None /\ r.op \in {"RD", "WR", "RDNC", "WRNC"}
           /\ r.loc \in Loc /\ r.loc.tag \in Tags /\ r.loc.idx \in Sets
           /\ r.loc.word \in Words
           /\ r.data \in Word /\ r.loc.tag # None
  BY GeometryAssumption DEF Request, Loc

(* Merging two words gives a word.                                         *)
LEMMA MergeIsWord ==
    ASSUME NEW a \in Word, NEW b \in Word, NEW be
    PROVE  Merge(a, b, be) \in Word
  BY DEF Merge, Word

(* Another word of the line of a location.                                 *)
LEMMA LineLocation ==
    ASSUME NEW x \in Loc, NEW k \in Words
    PROVE  /\ [x EXCEPT !.word = k] \in Loc
           /\ [x EXCEPT !.word = k] = [tag |-> x.tag, idx |-> x.idx, word |-> k]
  BY DEF Loc

(* What a cycle of the control part can be: a refill stalls the pipeline   *)
(* and finds the buffer idle, and the store of the buffer that needs the   *)
(* data memory is the one in S1.                                           *)
LEMMA Shape ==
    ASSUME NEW r, Cycle(r)
    PROVE  /\ s1_val => s1_req \in CoreReqs
           /\ lru_hit \/ s1_hit => lru_req_r
           /\ stall <=> s1_val /\ IF is_we(s1_req) THEN ~mau_req_ack ELSE ~s1_hit
           /\ fill => /\ mau_acc /\ s1_val /\ s1_req.op = "RD" /\ ~lru_req_r
                      /\ stall /\ r = None /\ ~del_dm_wr
           /\ del_buf_need_dm_wr =>
                  /\ lru_req_r /\ s1_val /\ s1_req.op = "WR" /\ ~fill
                  /\ del_val /\ del_buf = s1_req /\ ~del_dm_wr /\ hit_vect # {}
           /\ core_req_ack <=> Busy /\ ~stall
           /\ mau_req_ack /\ ~is_we(s1_req) => stall
<1>1. s1_val => s1_req \in CoreReqs /\ s1_req.op \in {"RD", "WR", "RDNC", "WRNC"}
  BY RequestFields DEF Cycle, Control, TypeOK
<1>2. lru_hit => lru_req_r
  BY DEF lru_hit, hit_vect
<1>3. s1_hit => lru_req_r
  BY <1>2 DEF s1_hit, Cycle, Control, Pipeline
<1>4. mau_req_ack /\ ~is_we(s1_req) => mau_acc /\ s1_val /\ ~lru_req_r /\ stall
  BY <1>3 DEF Cycle, Control, Pipeline, stall
<1>5. fill => /\ mau_acc /\ s1_val /\ s1_req.op = "RD" /\ ~lru_req_r
              /\ stall /\ r = None /\ ~del_dm_wr
  BY <1>1, <1>4 DEF fill, mau_ack_rd, Cycle, Control, Buffer, is_we, is_nc
<1>6. del_buf_need_dm_wr =>
          /\ lru_req_r /\ s1_val /\ s1_req.op = "WR" /\ ~fill
          /\ del_val /\ del_buf = s1_req /\ ~del_dm_wr /\ hit_vect # {}
  BY <1>1, <1>2, <1>5 DEF del_buf_need_dm_wr, lru_hit, Cycle, Control, Pipeline, Buffer,
                          is_we, is_nc
<1>7. core_req_ack <=> Busy /\ ~stall
  BY <1>3 DEF core_req_ack, req_rd_ack, req_we_ack, Busy, stall, Cycle, Control, Pipeline, TypeOK
<1> QED
  BY <1>1, <1>2, <1>3, <1>4, <1>5, <1>6, <1>7 DEF stall

(* The pipeline part of the invariant.                                     *)
LEMMA PipelineStep ==
    ASSUME NEW r, Cycle(r)
    PROVE  Pipeline'
<1> USE Shape
<1>0. /\ r \in CoreReqs \cup {None}
      /\ s1_req' = IF stall THEN s1_req ELSE IF r # None THEN r ELSE s1_req
      /\ s1_val' = IF stall THEN ~mau_req_ack ELSE r # None
      /\ stall => r = None
  BY DEF Cycle, Clock, S1
<1>1. lru_req_r' => s1_val' /\ ~is_nc(s1_req')
  BY <1>0 DEF Cycle, Clock, Lru
<1>2. del_hit' => del_addr_hit'
  BY DEF Cycle, Clock, DelayedBuffer
<1>3. del_addr_hit' => lru_req_r' /\ s1_req'.op = "RD"
  BY <1>0 DEF Cycle, Clock, DelayedBuffer, Lru, s0_rd, is_nc
<1>4. mau_acc' => s1_val' /\ ~is_we(s1_req') /\ ~lru_req_r'
  <2>1. mau_acc' => s1_val /\ ~is_we(s1_req) /\ ~mau_req_ack /\ stall
    BY DEF Cycle, Clock, Mau, Control, Pipeline, mau_req_val, stall, TypeOK
  <2> QED
    BY <1>0, <2>1 DEF Cycle, Clock, Lru
<1>5. mau_req_ack' => s1_val' /\ (is_we(s1_req') \/ mau_acc')
  BY DEF Cycle, Clock, Mau, mau_req_val
<1>6. mau_ack_r' => ~s1_val' /\ s1_req' # None /\ ~is_we(s1_req')
  <2>1. mau_ack_r' => mau_req_ack /\ ~is_we(s1_req) /\ stall /\ s1_req \in CoreReqs
    BY DEF Cycle, Clock, MauAckRegs, mau_ack_rd, Control, Pipeline
  <2> QED
    BY <1>0, <2>1, RequestFields
<1>7. mau_nc_r' <=> mau_ack_r' /\ is_nc(s1_req')
  <2>1. mau_ack_r' <=> mau_req_ack /\ ~is_we(s1_req)
    BY DEF Cycle, Clock, MauAckRegs, mau_ack_rd
  <2>2. mau_nc_r' <=> mau_ack_r' /\ is_nc(s1_req)
    BY DEF Cycle, Clock, MauAckRegs, mau_ack_rd
  <2> QED
    BY <1>0, <2>1, <2>2
<1>8. owed' = IF Busy' THEN <<s1_req'>> ELSE <<>>
  <2> DEFINE left == IF core_req_ack THEN SubSeq(owed, 2, Len(owed)) ELSE owed
  <2>1. owed' = IF r # None THEN Append(left, r) ELSE left
    BY DEF Cycle, Clock, History
  <2>2. owed = IF Busy THEN <<s1_req>> ELSE <<>>
    BY DEF Cycle, Control, Pipeline
  <2>3. left = IF stall THEN <<s1_req>> ELSE <<>>
    <3>1. stall => Busy
      BY DEF Busy
    <3>2. SubSeq(<<s1_req>>, 2, Len(<<s1_req>>)) = <<>>
      OBVIOUS
    <3> QED
      BY <2>2, <3>1, <3>2
  <2>4. Busy' <=> s1_val' \/ mau_ack_r'
    BY DEF Busy
  <2>5. mau_ack_r' <=> mau_req_ack /\ ~is_we(s1_req)
    BY DEF Cycle, Clock, MauAckRegs, mau_ack_rd
  <2>6. stall => Busy'
    BY <1>0, <2>4, <2>5
  <2>7. ~stall => (Busy' <=> r # None)
    BY <1>0, <2>4, <2>5
  <2> HIDE DEF left
  <2>8. Append(<<>>, r) = <<r>>
    OBVIOUS
  <2> QED
    BY <1>0, <2>1, <2>3, <2>6, <2>7, <2>8
<1> QED
  BY <1>1, <1>2, <1>3, <1>4, <1>5, <1>6, <1>7, <1>8 DEF Pipeline

(* A store that enters S1 finds the buffer free, and so does a read of the *)
(* MAU: with the pipeline stalled nothing keeps the buffer from the port.  *)
LEMMA BufferStep ==
    ASSUME NEW r, Cycle(r)
    PROVE  Buffer'
<1> USE Shape
<1>0. /\ r \in CoreReqs \cup {None}
      /\ s1_req' = IF stall THEN s1_req ELSE IF r # None THEN r ELSE s1_req
      /\ stall => r = None
      /\ lru_req_r' <=> r # None /\ ~is_nc(r)
      /\ del_val' <=> s0_wr(r) \/ (del_val /\ ~del_buf_clean(r))
      /\ del_buf' = IF s0_wr(r) THEN r ELSE del_buf
      /\ del_dm_wr' <=> \/ del_buf_need_dm_wr /\ dm_blocked(r)
                        \/ del_dm_wr /\ ~del_buf_clean(r)
      /\ del_dm_wr => (del_buf_clean(r) <=> ~dm_blocked(r))
      /\ dm_blocked(r) <=> s0_rd(r) \/ fill
  BY DEF Cycle, Clock, S1, Lru, DelayedBuffer, del_buf_clean, dm_blocked
<1>1. lru_req_r' /\ is_we(s1_req') => del_val' /\ del_buf' = s1_req' /\ ~del_dm_wr'
  <2> SUFFICES ASSUME lru_req_r', is_we(s1_req')
               PROVE  del_val' /\ del_buf' = s1_req' /\ ~del_dm_wr'
    OBVIOUS
  <2>1. r \in CoreReqs /\ r # None /\ s1_req' = r /\ r.op = "WR" /\ ~fill
    BY <1>0, RequestFields DEF is_we, is_nc
  <2>2. s0_wr(r) /\ ~dm_blocked(r)
    BY <1>0, <2>1 DEF s0_wr, s0_rd
  <2> QED
    BY <1>0, <2>1, <2>2
<1>2. mau_acc' => ~del_dm_wr'
  <2>1. mau_acc' => \/ mau_acc /\ ~mau_req_ack
                    \/ ~mau_acc /\ s1_val /\ ~is_we(s1_req) /\ stall
    BY DEF Cycle, Clock, Mau, Control, Pipeline, mau_req_val, stall, TypeOK
  <2>2. mau_acc' => stall /\ ~is_we(s1_req) /\ ~fill
    BY <2>1 DEF Cycle, Control, Pipeline, fill, mau_ack_rd
  <2>3. mau_acc' => ~dm_blocked(r) /\ ~del_buf_need_dm_wr
    BY <1>0, <2>2 DEF s0_rd, del_buf_need_dm_wr
  <2> QED
    BY <1>0, <2>3
<1>3. del_buf' # None => del_buf'.op = "WR"
  BY <1>0 DEF s0_wr, Cycle, Control, Buffer
<1> QED
  BY <1>1, <1>2, <1>3 DEF Buffer

(* The tag memory changes in a refill only, in the one way of the victim.  *)
LEMMA TagsAfter ==
    ASSUME NEW r, Cycle(r)
    PROVE  /\ ~fill => ld' = ld
           /\ fill => \E v \in Ways :
                 /\ lru_way_r = {v}
                 /\ \A w \in Ways, i \in Sets :
                       ld'[w][i] = IF w = v /\ i = s1_req.loc.idx THEN s1_req.loc.tag
                                   ELSE ld[w][i]
           /\ fill => \A w \in Ways : ld[w][s1_req.loc.idx] # s1_req.loc.tag
<1>1. /\ ld' = [w \in Ways |-> IF fill /\ w \in lru_way_r
                               THEN [ld[w] EXCEPT ![s1_req.loc.idx] = s1_req.loc.tag]
                               ELSE ld[w]]
      /\ ld \in [Ways -> [Sets -> Tags \cup {None}]]
  BY DEF Cycle, Clock, Ld, Control, TypeOK
<1>2. ~fill => ld' = ld
  BY <1>1
<1>3. fill => /\ \E v \in Ways : lru_way_r = {v}
              /\ \A w \in Ways : ld[w][s1_req.loc.idx] # s1_req.loc.tag
              /\ s1_req \in CoreReqs
  BY Shape DEF Cycle, Control, VictimIsNoCopy
<1>4. ASSUME fill, NEW v \in Ways, lru_way_r = {v}
      PROVE  \A w \in Ways, i \in Sets :
                ld'[w][i] = IF w = v /\ i = s1_req.loc.idx THEN s1_req.loc.tag
                            ELSE ld[w][i]
  <2> TAKE w \in Ways, i \in Sets
  <2>1. ld'[w] = IF w = v THEN [ld[w] EXCEPT ![s1_req.loc.idx] = s1_req.loc.tag] ELSE ld[w]
    BY <1>1, <1>4
  <2>2. ld[w] \in [Sets -> Tags \cup {None}]
    BY <1>1
  <2> QED
    BY <2>1, <2>2
<1> QED
  BY <1>2, <1>3, <1>4

(* A refill makes no second copy of a line.                                *)
LEMMA OneWayStep ==
    ASSUME NEW r, Cycle(r)
    PROVE  OneWayHits'
<1>0. OneWayHits
  BY DEF Cycle, Control
<1>1. CASE ~fill
  BY <1>0, <1>1, TagsAfter DEF OneWayHits
<1>2. CASE fill
  <2>1. PICK v \in Ways :
            \A w \in Ways, i \in Sets :
               ld'[w][i] = IF w = v /\ i = s1_req.loc.idx THEN s1_req.loc.tag
                           ELSE ld[w][i]
    BY <1>2, TagsAfter
  <2>2. \A w \in Ways : ld[w][s1_req.loc.idx] # s1_req.loc.tag
    BY <1>2, TagsAfter
  <2> SUFFICES ASSUME NEW i \in Sets, NEW u \in Ways, NEW w \in Ways,
                      ld'[u][i] = ld'[w][i], ld'[u][i] # None
               PROVE  u = w
    BY DEF OneWayHits
  <2> QED
    BY <1>0, <2>1, <2>2 DEF OneWayHits
<1> QED
  BY <1>1, <1>2

(* The victim is chosen when the lookup failed, and until the refill no    *)
(* other one changes the tags.                                             *)
LEMMA VictimStep ==
    ASSUME NEW r, Cycle(r)
    PROVE  VictimIsNoCopy'
<1> SUFFICES ASSUME s1_val', s1_req'.op = "RD", ~lru_req_r'
             PROVE  /\ \E w \in Ways : lru_way_r' = {w}
                    /\ \A w \in Ways : ld'[w][s1_req'.loc.idx] # s1_req'.loc.tag
  BY DEF VictimIsNoCopy
<1>1. stall /\ s1_req' = s1_req /\ ~mau_req_ack /\ s1_val /\ r = None
  BY DEF Cycle, Clock, S1, Lru, stall, is_nc
<1>2. ld' = ld
  BY <1>1, TagsAfter DEF fill, mau_ack_rd
<1>3. CASE lru_req_r
  <2>1. ~lru_hit
    BY <1>1 DEF stall, s1_hit, is_we
  <2>2. lru_way_r' \in {{w} : w \in Ways}
    BY <1>3, <2>1 DEF Cycle, Clock, Lru
  <2>3. \A w \in Ways : ld[w][s1_req.loc.idx] # s1_req.loc.tag
    BY <1>3, <2>1 DEF lru_hit, hit_vect
  <2> QED
    BY <1>1, <1>2, <2>2, <2>3
<1>4. CASE ~lru_req_r
  BY <1>1, <1>2, <1>4 DEF Cycle, Clock, Lru, Control, VictimIsNoCopy
<1> QED
  BY <1>3, <1>4

(* No refill comes between the lookup of a store and its deferred write.   *)
LEMMA DeferredStep ==
    ASSUME NEW r, Cycle(r)
    PROVE  DeferredStoreHasItsLine'
<1> SUFFICES ASSUME del_dm_wr'
             PROVE  /\ del_val' /\ del_way' # {}
                    /\ \A w \in del_way' : ld'[w][del_buf'.loc.idx] = del_buf'.loc.tag
  BY DEF DeferredStoreHasItsLine
<1>0. /\ del_val' <=> s0_wr(r) \/ (del_val /\ ~del_buf_clean(r))
      /\ del_buf' = IF s0_wr(r) THEN r ELSE del_buf
      /\ del_way' = IF del_buf_need_dm_wr THEN hit_vect ELSE del_way
      /\ del_dm_wr' <=> \/ del_buf_need_dm_wr /\ dm_blocked(r)
                        \/ del_dm_wr /\ ~del_buf_clean(r)
      /\ del_buf_clean(r) <=> IF del_dm_wr THEN ~dm_blocked(r) ELSE ~del_buf_need_dm_wr
      /\ dm_blocked(r) <=> s0_rd(r) \/ fill
  BY DEF Cycle, Clock, DelayedBuffer, del_buf_clean, dm_blocked
<1>1. ~fill /\ s0_rd(r) /\ ~s0_wr(r) /\ ld' = ld
  <2>1. ~fill
    BY <1>0, Shape
  <2> QED
    BY <1>0, <2>1, TagsAfter DEF s0_rd, s0_wr
<1>2. CASE del_buf_need_dm_wr
  <2>1. /\ del_val /\ ~del_dm_wr /\ hit_vect # {} /\ del_buf = s1_req
    BY <1>2, Shape
  <2>2. \A w \in hit_vect : ld[w][s1_req.loc.idx] = s1_req.loc.tag
    BY DEF hit_vect
  <2> QED
    BY <1>0, <1>1, <1>2, <2>1, <2>2
<1>3. CASE ~del_buf_need_dm_wr
  BY <1>0, <1>1, <1>3 DEF Cycle, Control, DeferredStoreHasItsLine
<1> QED
  BY <1>2, <1>3

(* Where the store of the buffer goes: only to ways that hold its line.    *)
LEMMA StoreWays ==
    ASSUME NEW r, Cycle(r)
    PROVE  /\ store_ways \subseteq Ways
           /\ \A w \in store_ways : /\ del_val /\ del_buf \in CoreReqs
                                    /\ ld[w][del_buf.loc.idx] = del_buf.loc.tag
<1>1. CASE del_buf_need_dm_wr
  <2>1. del_val /\ del_buf = s1_req /\ s1_req \in CoreReqs /\ store_ways = hit_vect
    BY <1>1, Shape DEF store_ways
  <2>2. \A w \in hit_vect : w \in Ways /\ ld[w][s1_req.loc.idx] = s1_req.loc.tag
    BY DEF hit_vect
  <2> QED
    BY <2>1, <2>2
<1>2. CASE ~del_buf_need_dm_wr /\ del_dm_wr
  BY <1>2 DEF store_ways, Cycle, Control, DeferredStoreHasItsLine, TypeOK
<1>3. CASE ~del_buf_need_dm_wr /\ ~del_dm_wr
  BY <1>3 DEF store_ways
<1> QED
  BY <1>1, <1>2, <1>3

(* What the data memory holds after the edge: the line of the MAU in the   *)
(* victim, or the bytes of the store merged into their word.               *)
FilledLine(x) == [k \in Words |-> mem[[x EXCEPT !.word = k]]]
StoredLine(line) ==
    [line EXCEPT ![del_buf.loc.word] = Merge(@, del_buf.data, word_be(del_buf))]

LEMMA DataAfter ==
    ASSUME NEW r, Cycle(r)
    PROVE  /\ fill => \E v \in Ways :
                 /\ lru_way_r = {v}
                 /\ \A w \in Ways, i \in Sets :
                       dm'[w][i] = IF w = v /\ i = s1_req.loc.idx THEN FilledLine(s1_req.loc)
                                   ELSE dm[w][i]
           /\ ~fill /\ ~s0_rd(r) => \A w \in Ways, i \in Sets :
                 dm'[w][i] = IF w \in store_ways /\ i = del_buf.loc.idx
                             THEN StoredLine(dm[w][i]) ELSE dm[w][i]
           /\ s0_rd(r) => ~fill /\ dm' = dm /\ dm_addr' = [w \in Ways |-> r.loc.idx]
<1>0. /\ dm \in [Ways -> [Sets -> [Words -> Word \cup {None}]]]
      /\ \/ DmRead(r) \/ DmFill(r) \/ DmStore(r)
  BY DEF Cycle, Clock, Control, TypeOK
<1>1. ASSUME fill
      PROVE  \E v \in Ways :
                 /\ lru_way_r = {v}
                 /\ \A w \in Ways, i \in Sets :
                       dm'[w][i] = IF w = v /\ i = s1_req.loc.idx THEN FilledLine(s1_req.loc)
                                   ELSE dm[w][i]
  <2>1. PICK v \in Ways : lru_way_r = {v}
    BY <1>1, TagsAfter
  <2>2. dm' = [w \in Ways |-> IF w \in lru_way_r
                   THEN [dm[w] EXCEPT ![s1_req.loc.idx] = FilledLine(s1_req.loc)]
                   ELSE dm[w]]
    <3>1. ~s0_rd(r)
      BY <1>1, Shape DEF s0_rd
    <3> QED
      BY <1>0, <1>1, <3>1 DEF DmRead, DmFill, DmStore, dm_blocked, FilledLine
  <2>3. ASSUME NEW w \in Ways, NEW i \in Sets
        PROVE  dm'[w][i] = IF w = v /\ i = s1_req.loc.idx THEN FilledLine(s1_req.loc)
                           ELSE dm[w][i]
    <3>1. dm'[w] = IF w = v THEN [dm[w] EXCEPT ![s1_req.loc.idx] = FilledLine(s1_req.loc)]
                   ELSE dm[w]
      BY <2>1, <2>2
    <3>2. dm[w] \in [Sets -> [Words -> Word \cup {None}]]
      BY <1>0
    <3> QED
      BY <3>1, <3>2
  <2> QED
    BY <2>1, <2>3
<1>2. ASSUME ~fill, ~s0_rd(r), NEW w \in Ways, NEW i \in Sets
      PROVE  dm'[w][i] = IF w \in store_ways /\ i = del_buf.loc.idx
                         THEN StoredLine(dm[w][i]) ELSE dm[w][i]
  <2>1. dm' = [u \in Ways |-> IF u \in store_ways
                 THEN [dm[u] EXCEPT ![del_buf.loc.idx][del_buf.loc.word] =
                         Merge(@, del_buf.data, word_be(del_buf))]
                 ELSE dm[u]]
    BY <1>0, <1>2 DEF DmRead, DmFill, DmStore, dm_blocked
  <2>2. dm'[w] = IF w \in store_ways
                 THEN [dm[w] EXCEPT ![del_buf.loc.idx] = StoredLine(@)]
                 ELSE dm[w]
    BY <2>1 DEF StoredLine
  <2>3. dm[w] \in [Sets -> [Words -> Word \cup {None}]]
    BY <1>0
  <2> QED
    BY <2>2, <2>3
<1>3. s0_rd(r) => ~fill /\ dm' = dm /\ dm_addr' = [w \in Ways |-> r.loc.idx]
  <2>1. s0_rd(r) => ~fill
    BY Shape DEF s0_rd
  <2> QED
    BY <1>0, <2>1 DEF DmRead, DmFill, DmStore, dm_blocked
<1> QED
  BY <1>1, <1>2, <1>3

LEMMA FilledLineIsWords ==
    ASSUME mem \in [Loc -> Word], NEW x \in Loc
    PROVE  FilledLine(x) \in [Words -> Word]
  BY LineLocation DEF FilledLine

LEMMA StoredLineIsWords ==
    ASSUME del_buf \in CoreReqs, NEW line \in [Words -> Word]
    PROVE  StoredLine(line) \in [Words -> Word]
<1>1. del_buf.data \in Word /\ del_buf.loc.word \in Words
  BY RequestFields
<1>2. Merge(line[del_buf.loc.word], del_buf.data, word_be(del_buf)) \in Word
  BY <1>1, MergeIsWord
<1> QED
  BY <1>1, <1>2 DEF StoredLine

(* A line that is valid has a word of the memory everywhere.               *)
LEMMA LinesStep ==
    ASSUME NEW r, Cycle(r)
    PROVE  /\ LinesAreWords'
           /\ \A w \in Ways, i \in Sets : dm'[w][i] \in [Words -> Word \cup {None}]
<1>0. /\ LinesAreWords
      /\ dm \in [Ways -> [Sets -> [Words -> Word \cup {None}]]]
      /\ mem \in [Loc -> Word]
      /\ [Words -> Word] \subseteq [Words -> Word \cup {None}]
  BY DEF Cycle, Control, TypeOK
<1>1. SUFFICES ASSUME NEW w \in Ways, NEW i \in Sets
               PROVE  /\ ld'[w][i] # None => dm'[w][i] \in [Words -> Word]
                      /\ dm'[w][i] \in [Words -> Word \cup {None}]
  BY DEF LinesAreWords
<1>2. CASE fill
  <2>2. PICK v2 \in Ways : /\ lru_way_r = {v2}
            /\ \A u \in Ways, j \in Sets :
                  dm'[u][j] = IF u = v2 /\ j = s1_req.loc.idx THEN FilledLine(s1_req.loc)
                              ELSE dm[u][j]
    BY <1>2, DataAfter
  <2>3. FilledLine(s1_req.loc) \in [Words -> Word]
    BY <1>0, <1>2, Shape, RequestFields, FilledLineIsWords
  <2>4. PICK v3 \in Ways : /\ lru_way_r = {v3}
            /\ \A u \in Ways, j \in Sets :
                  ld'[u][j] = IF u = v3 /\ j = s1_req.loc.idx THEN s1_req.loc.tag
                              ELSE ld[u][j]
    BY <1>2, TagsAfter
  <2>5. v3 = v2
    BY <2>2, <2>4
  <2>6. CASE w = v2 /\ i = s1_req.loc.idx
    BY <1>0, <2>2, <2>3, <2>6
  <2>7. CASE ~(w = v2 /\ i = s1_req.loc.idx)
    <3>1. dm'[w][i] = dm[w][i] /\ ld'[w][i] = ld[w][i]
      BY <2>2, <2>4, <2>5, <2>7
    <3> QED
      BY <1>0, <3>1 DEF LinesAreWords
  <2> QED
    BY <2>6, <2>7
<1>3. CASE ~fill /\ ~s0_rd(r)
  <2>1. ld' = ld
    BY <1>3, TagsAfter
  <2>2. dm'[w][i] = IF w \in store_ways /\ i = del_buf.loc.idx
                    THEN StoredLine(dm[w][i]) ELSE dm[w][i]
    BY <1>3, DataAfter
  <2>3. w \in store_ways /\ i = del_buf.loc.idx => StoredLine(dm[w][i]) \in [Words -> Word]
    <3> SUFFICES ASSUME w \in store_ways, i = del_buf.loc.idx
                 PROVE  StoredLine(dm[w][i]) \in [Words -> Word]
      OBVIOUS
    <3>1. del_buf \in CoreReqs /\ ld[w][i] = del_buf.loc.tag
      BY StoreWays
    <3>2. ld[w][i] # None
      BY <3>1, RequestFields
    <3> QED
      BY <1>0, <3>1, <3>2, StoredLineIsWords DEF LinesAreWords
  <2> QED
    BY <1>0, <2>1, <2>2, <2>3 DEF LinesAreWords
<1>4. CASE s0_rd(r)
  <2>1. ~fill /\ dm' = dm
    BY <1>4, DataAfter
  <2>2. ld' = ld
    BY <2>1, TagsAfter
  <2> QED
    BY <1>0, <2>1, <2>2 DEF LinesAreWords
<1> QED
  BY <1>2, <1>3, <1>4

LEMMA TypeStep ==
    ASSUME NEW r, Cycle(r)
    PROVE  TypeOK'
<1> USE Shape
<1>0. /\ TypeOK /\ r \in CoreReqs \cup {None}
  BY DEF Cycle, Control
<1>1. ld' \in [Ways -> [Sets -> Tags \cup {None}]]
  <2>1. fill => s1_req.loc.tag \in Tags
    BY RequestFields
  <2> QED
    BY <1>0, <2>1 DEF Cycle, Clock, Ld, TypeOK
<1>2. dm' \in [Ways -> [Sets -> [Words -> Word \cup {None}]]]
  <2>1. dm \in [Ways -> [Sets -> [Words -> Word \cup {None}]]]
    BY <1>0 DEF TypeOK
  <2>2. /\ dm' = [w \in Ways |-> dm'[w]]
        /\ \A w \in Ways : dm'[w] = [i \in Sets |-> dm'[w][i]]
    <3>1. CASE DmRead(r)
      BY <2>1, <3>1 DEF DmRead
    <3>2. CASE DmFill(r)
      BY <2>1, <3>2 DEF DmFill
    <3>3. CASE DmStore(r)
      BY <2>1, <3>3 DEF DmStore
    <3> QED
      BY <3>1, <3>2, <3>3 DEF Cycle, Clock
  <2>3. \A w \in Ways, i \in Sets : dm'[w][i] \in [Words -> Word \cup {None}]
    BY LinesStep
  <2>4. \A w \in Ways : dm'[w] \in [Sets -> [Words -> Word \cup {None}]]
    BY <2>2, <2>3
  <2> QED
    BY <2>2, <2>4
<1>3. dm_addr' \in [Ways -> Sets]
  <2>0. dm_addr \in [Ways -> Sets]
    BY <1>0 DEF TypeOK
  <2>1. CASE DmRead(r)
    BY <1>0, <2>1, RequestFields DEF DmRead, s0_rd
  <2>2. CASE DmFill(r)
    <3>1. s1_req.loc.idx \in Sets
      BY <2>2, RequestFields DEF DmFill
    <3> QED
      BY <2>0, <2>2, <3>1 DEF DmFill
  <2>3. CASE DmStore(r)
    <3>1. \A w \in store_ways : del_buf.loc.idx \in Sets
      BY StoreWays, RequestFields
    <3> QED
      BY <2>0, <2>3, <3>1 DEF DmStore
  <2> QED
    BY <2>1, <2>2, <2>3 DEF Cycle, Clock
<1>4. /\ s1_val' \in BOOLEAN /\ s1_req' \in CoreReqs \cup {None}
      /\ s1_val' => s1_req' # None
  BY <1>0, RequestFields DEF Cycle, Clock, S1, TypeOK
<1>5. lru_req_r' \in BOOLEAN /\ lru_way_r' \subseteq Ways
  BY <1>0 DEF Cycle, Clock, Lru, TypeOK, hit_vect
<1>6. /\ del_val' \in BOOLEAN /\ del_buf' \in CoreReqs \cup {None}
      /\ del_val' => del_buf' # None
      /\ del_way' \subseteq Ways /\ del_dm_wr' \in BOOLEAN
      /\ del_hit' \in BOOLEAN /\ del_addr_hit' \in BOOLEAN
  <2>1. /\ del_val' = (s0_wr(r) \/ (del_val /\ ~del_buf_clean(r)))
        /\ del_buf' = IF s0_wr(r) THEN r ELSE del_buf
        /\ del_way' = IF del_buf_need_dm_wr THEN hit_vect ELSE del_way
        /\ del_dm_wr' = \/ del_buf_need_dm_wr /\ dm_blocked(r)
                        \/ del_dm_wr /\ ~del_buf_clean(r)
        /\ del_addr_hit' = (del_val /\ s0_rd(r) /\ del_buf.loc = r.loc)
        /\ del_hit' = ((del_val /\ s0_rd(r) /\ del_buf.loc = r.loc)
                          /\ word_be(r) \subseteq word_be(del_buf))
    BY DEF Cycle, Clock, DelayedBuffer
  <2>2. hit_vect \subseteq Ways
    BY DEF hit_vect
  <2>3. s0_wr(r) => r \in CoreReqs /\ r # None
    BY <1>0 DEF s0_wr
  <2>4. /\ del_val' \in BOOLEAN /\ del_dm_wr' \in BOOLEAN
        /\ del_hit' \in BOOLEAN /\ del_addr_hit' \in BOOLEAN
    BY <2>1
  <2> QED
    BY <1>0, <2>1, <2>2, <2>3, <2>4 DEF TypeOK
<1>7. mau_req_ack' \in BOOLEAN /\ mau_acc' \in BOOLEAN
  BY <1>0 DEF Cycle, Clock, Mau, mau_req_val, TypeOK
<1>8. /\ mau_ack_r' \in BOOLEAN /\ mau_nc_r' \in BOOLEAN
      /\ mau_data_r' \in [Words -> Word \cup {None}]
  <2>1. mau_ack_r' \in BOOLEAN /\ mau_nc_r' \in BOOLEAN
    BY <1>0 DEF Cycle, Clock, MauAckRegs, mau_ack_rd, TypeOK
  <2>2. CASE fill
    <3>1. mau_data_r' = FilledLine(s1_req.loc)
      <4>1. Cycle(r) => MauAckRegs
        BY DEF Cycle, Clock
      <4>2. fill /\ MauAckRegs => mau_data_r' = [k \in Words |-> mem[[s1_req.loc EXCEPT !.word = k]]]
        BY DEF MauAckRegs, fill
      <4> QED
        BY <2>2, <4>1, <4>2 DEF FilledLine
    <3>2. FilledLine(s1_req.loc) \in [Words -> Word]
      BY <1>0, <2>2, RequestFields, FilledLineIsWords DEF TypeOK
    <3> QED
      BY <2>1, <3>1, <3>2
  <2>3. NoLine \in [Words -> Word \cup {None}]
    BY DEF NoLine
  <2>4. CASE ~fill /\ mau_ack_rd /\ is_nc(s1_req)
    <3>1. mau_data_r' = [NoLine EXCEPT ![LineWords - 1] = mem[s1_req.loc]]
      BY <2>4 DEF Cycle, Clock, MauAckRegs
    <3>2. mem[s1_req.loc] \in Word
      BY <1>0, <2>4, RequestFields DEF TypeOK, mau_ack_rd, Cycle, Control, Pipeline
    <3> QED
      BY <2>1, <2>3, <3>1, <3>2
  <2>5. CASE ~fill /\ ~(mau_ack_rd /\ is_nc(s1_req))
    BY <2>1, <2>3, <2>5 DEF Cycle, Clock, MauAckRegs
  <2> QED
    BY <2>2, <2>4, <2>5
<1>9. mau_acc' => s1_val' /\ ~is_we(s1_req')
  BY PipelineStep DEF Pipeline
<1>10. mem' \in [Loc -> Word]
  <2>1. CASE mau_req_ack /\ is_we(s1_req)
    <3>1. s1_req \in CoreReqs
      BY <2>1 DEF Cycle, Control, Pipeline
    <3>2. s1_req.loc \in Loc /\ s1_req.data \in Word /\ mem \in [Loc -> Word]
      BY <1>0, <3>1, RequestFields DEF TypeOK
    <3>3. Merge(mem[s1_req.loc], s1_req.data, mau_req_be(s1_req)) \in Word
      BY <3>2, MergeIsWord
    <3> QED
      BY <2>1, <3>2, <3>3 DEF Cycle, Clock, Mau
  <2>2. CASE ~(mau_req_ack /\ is_we(s1_req))
    BY <1>0, <2>2 DEF Cycle, Clock, Mau, TypeOK
  <2> QED
    BY <2>1, <2>2
<1>11. latest' \in [Loc -> Word]
  <2>1. CASE r # None /\ is_we(r)
    <3>1. r.loc \in Loc /\ r.data \in Word /\ latest \in [Loc -> Word]
      BY <1>0, <2>1, RequestFields DEF TypeOK
    <3>2. Merge(latest[r.loc], r.data, word_be(r)) \in Word
      BY <3>1, MergeIsWord
    <3> QED
      BY <2>1, <3>1, <3>2 DEF Cycle, Clock, History
  <2>2. CASE ~(r # None /\ is_we(r))
    BY <1>0, <2>2 DEF Cycle, Clock, History, TypeOK
  <2> QED
    BY <2>1, <2>2
<1>12. owed' \in Seq(CoreReqs)
  <2>1. owed' = IF Busy' THEN <<s1_req'>> ELSE <<>>
    BY PipelineStep DEF Pipeline
  <2>2. Busy' => s1_req' \in CoreReqs
    BY <1>4, PipelineStep DEF Pipeline, Busy
  <2> QED
    BY <2>1, <2>2
<1> QED
  BY <1>1, <1>2, <1>3, <1>4, <1>5, <1>6, <1>7, <1>8, <1>9, <1>10, <1>11, <1>12 DEF TypeOK

LEMMA ControlInit == Init => Control
<1> SUFFICES ASSUME Init PROVE Control
  OBVIOUS
<1>1. TypeOK
  <2>1. latest = mem /\ mem \in [Loc -> Word]
    BY DEF Init, Word
  <2>2. NoLine \in [Words -> Word \cup {None}]
    BY DEF NoLine
  <2>3. /\ ld \in [Ways -> [Sets -> Tags \cup {None}]]
        /\ dm \in [Ways -> [Sets -> [Words -> Word \cup {None}]]]
        /\ dm_addr \in [Ways -> Sets]
    BY <2>2 DEF Init
  <2>4. owed \in Seq(CoreReqs)
    BY DEF Init
  <2>5. /\ s1_req = None /\ del_buf = None /\ ~s1_val /\ ~del_val /\ ~mau_acc
        /\ lru_way_r = {} /\ del_way = {} /\ mau_data_r = NoLine
        /\ s1_val \in BOOLEAN /\ lru_req_r \in BOOLEAN /\ del_val \in BOOLEAN
        /\ del_dm_wr \in BOOLEAN /\ del_hit \in BOOLEAN /\ del_addr_hit \in BOOLEAN
        /\ mau_req_ack \in BOOLEAN /\ mau_acc \in BOOLEAN
        /\ mau_ack_r \in BOOLEAN /\ mau_nc_r \in BOOLEAN
    BY DEF Init
  <2> QED
    BY <2>1, <2>2, <2>3, <2>4, <2>5 DEF TypeOK
<1>2. Pipeline
  BY DEF Init, Pipeline, Busy
<1>3. Buffer /\ VictimIsNoCopy /\ DeferredStoreHasItsLine
  BY DEF Init, Buffer, VictimIsNoCopy, DeferredStoreHasItsLine
<1>4. LinesAreWords /\ OneWayHits
  BY DEF Init, LinesAreWords, OneWayHits
<1> QED
  BY <1>1, <1>2, <1>3, <1>4 DEF Control

LEMMA ControlStep == Control /\ [Next]_vars => Control'
<1> SUFFICES ASSUME Control, [Next]_vars PROVE Control'
  OBVIOUS
<1>1. CASE Next
  <2>1. PICK r \in CoreReqs \cup {None} : Clock(r) /\ (stall => r = None)
    BY <1>1 DEF Next
  <2>2. Cycle(r)
    BY <2>1 DEF Cycle
  <2> QED
    BY <2>2, TypeStep, PipelineStep, BufferStep, LinesStep, VictimStep, OneWayStep,
       DeferredStep DEF Control
<1>2. CASE UNCHANGED vars
  BY <1>2 DEF vars, cacheVars, s1Vars, delVars, mauVars, Control, TypeOK, Pipeline, Busy, Buffer,
     LinesAreWords, VictimIsNoCopy, OneWayHits, DeferredStoreHasItsLine
<1> QED
  BY <1>1, <1>2

(* The control part of the cache holds in every reachable state.           *)
THEOREM ControlIsInvariant == Spec => []Control
  BY ControlInit, ControlStep, PTL DEF Spec

(* Types: what is forwarded, merged or refilled is always data, never the  *)
(* contents of an empty line.                                              *)
THEOREM TypesHold == Spec => []TypeOK
<1>1. Control => TypeOK
  BY DEF Control
<1> QED
  BY <1>1, ControlIsInvariant, PTL

(* The nameless acknowledge belongs to the one request in flight.          *)
THEOREM AcknowledgesBelong == Spec => []OneRequestInFlight
<1>1. Control => OneRequestInFlight
  <2> SUFFICES ASSUME Control PROVE OneRequestInFlight
    OBVIOUS
  <2>1. s1_hit => lru_req_r
    BY DEF s1_hit, lru_hit, hit_vect, Control, Pipeline
  <2>2. mau_req_ack /\ ~is_we(s1_req) => stall
    BY <2>1 DEF Control, Pipeline, stall
  <2>3. core_req_ack <=> Busy /\ ~stall
    BY <2>1, <2>2 DEF core_req_ack, req_rd_ack, req_we_ack, Busy, stall, Control, Pipeline,
                      TypeOK
  <2> QED
    BY <2>3 DEF OneRequestInFlight, Control, Pipeline
<1> QED
  BY <1>1, ControlIsInvariant, PTL

(* A line is in one way at most, so a hit names one way.                   *)
THEOREM HitsAreUnique == Spec => []OneWayHits
<1>1. Control => OneWayHits
  BY DEF Control
<1> QED
  BY <1>1, ControlIsInvariant, PTL

(* No refill takes the line of a deferred store before the store is done.  *)
THEOREM DeferredStoresLand == Spec => []DeferredStoreHasItsLine
<1>1. Control => DeferredStoreHasItsLine
  BY DEF Control
<1> QED
  BY <1>1, ControlIsInvariant, PTL
-----------------------------------------------------------------------------
(***************************************************************************)
(* Values.  Two facts about the requests are not enforced by the cache.    *)
(*                                                                         *)
(* It sends the bytes of a store to the bus at lane 0 whatever lane they   *)
(* are for, so memory is written where the store belongs only for stores   *)
(* at lane 0.  And a non-cached store does not look at the tags, so lines  *)
(* stay current only if no line is also written around the cache.          *)
(***************************************************************************)
StoresAtLaneZero == \A r \in CoreReqs : is_we(r) => r.lane = 0

KindsApart ==
    \A q, r \in CoreReqs : q.op = "RD" /\ r.op = "WRNC" =>
        q.loc.tag # r.loc.tag \/ q.loc.idx # r.loc.idx

IsLatest(r) == \A l \in word_be(r) : r.data[l] = latest[r.loc][l]

(* What the MAU writes is what program order made of the word.             *)
StoreInS1IsLatest == s1_val /\ is_we(s1_req) => IsLatest(s1_req)

(* What the MAU read, in the cycle in which it is handed to the core.      *)
AnswerIsCurrent ==
    mau_ack_r => IF is_nc(s1_req) THEN mau_data_r[LineWords - 1] = latest[s1_req.loc]
                 ELSE \A k \in Words : mau_data_r[k] = latest[[s1_req.loc EXCEPT !.word = k]]

Memory == StoreInS1IsLatest /\ MemoryIsCurrent /\ AnswerIsCurrent

(* A load in its first cycle knows whether the buffer has its word, and    *)
(* the data memories are at its index.                                     *)
Forwarding ==
    /\ del_addr_hit => del_buf # None /\ del_buf.loc = s1_req.loc
    /\ del_hit <=> del_addr_hit /\ word_be(s1_req) \subseteq word_be(del_buf)
    /\ lru_req_r /\ s1_req.op = "RD" /\ del_val /\ del_buf.loc = s1_req.loc => del_addr_hit
    /\ lru_req_r /\ s1_req.op = "RD" => \A w \in Ways : dm_addr[w] = s1_req.loc.idx

(* Only loads allocate.                                                    *)
LinesWereRead ==
    \A w \in Ways, i \in Sets : ld[w][i] # None =>
        \E q \in CoreReqs : q.op = "RD" /\ q.loc.tag = ld[w][i] /\ q.loc.idx = i

BufferIsLatest == del_val \/ del_addr_hit => IsLatest(del_buf)

Coherence == Forwarding /\ LinesWereRead /\ BufferIsLatest /\ LinesAreCurrent
-----------------------------------------------------------------------------
LEMMA MergedByte ==
    ASSUME NEW a, NEW b, NEW be, NEW l \in Lanes
    PROVE  Merge(a, b, be)[l] = IF l \in be THEN b[l] ELSE a[l]
  BY DEF Merge

(* Byte by byte, what an edge does to program order and to memory.         *)
LEMMA LatestAfter ==
    ASSUME NEW r, Cycle(r), NEW x \in Loc, NEW l \in Lanes
    PROVE  latest'[x][l] = IF r # None /\ is_we(r) /\ r.loc = x /\ l \in word_be(r)
                           THEN r.data[l] ELSE latest[x][l]
<1>0. latest \in [Loc -> Word]
  BY DEF Cycle, Control, TypeOK
<1>1. CASE r # None /\ is_we(r)
  <2>1. latest' = [latest EXCEPT ![r.loc] = Merge(latest[r.loc], r.data, word_be(r))]
    BY <1>1 DEF Cycle, Clock, History
  <2>2. latest'[x] = IF r.loc = x THEN Merge(latest[x], r.data, word_be(r)) ELSE latest[x]
    BY <1>0, <2>1
  <2> QED
    BY <1>1, <2>2, MergedByte
<1>2. CASE ~(r # None /\ is_we(r))
  BY <1>2 DEF Cycle, Clock, History
<1> QED
  BY <1>1, <1>2

LEMMA MemoryAfter ==
    ASSUME NEW r, Cycle(r), NEW x \in Loc, NEW l \in Lanes
    PROVE  mem'[x][l] = IF /\ mau_req_ack /\ is_we(s1_req) /\ s1_req.loc = x
                           /\ l \in mau_req_be(s1_req)
                        THEN s1_req.data[l] ELSE mem[x][l]
<1>0. mem \in [Loc -> Word]
  BY DEF Cycle, Control, TypeOK
<1>1. CASE mau_req_ack /\ is_we(s1_req)
  <2>1. mem' = [mem EXCEPT ![s1_req.loc] =
                   Merge(mem[s1_req.loc], s1_req.data, mau_req_be(s1_req))]
    BY <1>1 DEF Cycle, Clock, Mau
  <2>2. mem'[x] = IF s1_req.loc = x
                  THEN Merge(mem[x], s1_req.data, mau_req_be(s1_req)) ELSE mem[x]
    BY <1>0, <2>1
  <2> QED
    BY <1>1, <2>2, MergedByte
<1>2. CASE ~(mau_req_ack /\ is_we(s1_req))
  BY <1>2 DEF Cycle, Clock, Mau
<1> QED
  BY <1>1, <1>2

(* What S1 holds after the edge.                                           *)
LEMMA S1After ==
    ASSUME NEW r, Cycle(r)
    PROVE  /\ stall => r = None /\ s1_req' = s1_req /\ s1_val' = ~mau_req_ack
           /\ ~stall => s1_val' = (r # None)
           /\ r # None => ~stall /\ r \in CoreReqs /\ s1_val' /\ s1_req' = r
           /\ lru_req_r' <=> r # None /\ ~is_nc(r)
  BY DEF Cycle, Clock, S1, Lru

LEMMA ByteEnables ==
    ASSUME StoresAtLaneZero, NEW r \in CoreReqs, is_we(r)
    PROVE  word_be(r) = mau_req_be(r) /\ word_be(r) \subseteq Lanes
<1>1. r.lane = 0 /\ r.size \in Nat
  BY GeometryAssumption DEF StoresAtLaneZero, Request
<1> QED
  BY <1>1, GeometryAssumption DEF word_be, mau_req_be, Lanes

LEMMA StoreInS1Step ==
    ASSUME NEW r, Cycle(r), StoreInS1IsLatest
    PROVE  StoreInS1IsLatest'
<1> SUFFICES ASSUME s1_val', is_we(s1_req'), NEW l \in word_be(s1_req')
             PROVE  s1_req'.data[l] = latest'[s1_req'.loc][l]
  BY DEF StoreInS1IsLatest, IsLatest, word_be, Lanes
<1>1. CASE stall
  <2>1. r = None /\ s1_req' = s1_req /\ s1_val
    BY <1>1, S1After DEF stall
  <2>2. latest' = latest
    BY <2>1 DEF Cycle, Clock, History
  <2> QED
    BY <2>1, <2>2 DEF StoreInS1IsLatest, IsLatest
<1>2. CASE ~stall
  <2>1. r # None /\ s1_req' = r /\ r \in CoreReqs
    BY <1>2, S1After
  <2>2. r.loc \in Loc /\ l \in Lanes
    BY <2>1, RequestFields DEF word_be
  <2> QED
    BY <2>1, <2>2, LatestAfter
<1> QED
  BY <1>1, <1>2

(* A store leaves S1 in the cycle after its acknowledge, with its bytes in *)
(* memory.                                                                 *)
LEMMA MemoryStep ==
    ASSUME StoresAtLaneZero, NEW r, Cycle(r), StoreInS1IsLatest, MemoryIsCurrent
    PROVE  MemoryIsCurrent'
<1> SUFFICES ASSUME NEW x \in Loc, NEW l \in Lanes, mem'[x][l] # latest'[x][l]
             PROVE  s1_val' /\ is_we(s1_req') /\ s1_req'.loc = x /\ l \in word_be(s1_req')
  BY DEF MemoryIsCurrent
<1>1. CASE r # None /\ is_we(r) /\ r.loc = x /\ l \in word_be(r)
  BY <1>1, S1After
<1>2. CASE ~(r # None /\ is_we(r) /\ r.loc = x /\ l \in word_be(r))
  <2>1. latest'[x][l] = latest[x][l]
    BY <1>2, LatestAfter
  <2>2. mau_req_ack /\ is_we(s1_req) =>
            s1_val /\ s1_req \in CoreReqs /\ word_be(s1_req) = mau_req_be(s1_req)
    BY ByteEnables DEF Cycle, Control, Pipeline, TypeOK
  <2>3. ~(mau_req_ack /\ is_we(s1_req) /\ s1_req.loc = x /\ l \in word_be(s1_req))
    BY <2>1, <2>2, MemoryAfter DEF StoreInS1IsLatest, IsLatest
  <2>4. mem'[x][l] = mem[x][l]
    BY <2>2, <2>3, MemoryAfter
  <2>5. s1_val /\ is_we(s1_req) /\ s1_req.loc = x /\ l \in word_be(s1_req)
    BY <2>1, <2>4 DEF MemoryIsCurrent
  <2>6. ~mau_req_ack /\ stall
    BY <2>3, <2>5 DEF stall
  <2> QED
    BY <2>5, <2>6, S1After
<1> QED
  BY <1>1, <1>2

(* With no store in S1, memory is what program order made of it.           *)
LEMMA MemoryIsLatest ==
    ASSUME TypeOK, MemoryIsCurrent, ~(s1_val /\ is_we(s1_req)), NEW x \in Loc
    PROVE  mem[x] = latest[x]
<1>1. mem[x] \in Word /\ latest[x] \in Word
  BY DEF TypeOK
<1>2. \A l \in Lanes : mem[x][l] = latest[x][l]
  BY DEF MemoryIsCurrent
<1> QED
  BY <1>1, <1>2 DEF Word

LEMMA AnswerStep ==
    ASSUME NEW r, Cycle(r), MemoryIsCurrent
    PROVE  AnswerIsCurrent'
<1> SUFFICES ASSUME mau_ack_r'
             PROVE  IF is_nc(s1_req') THEN mau_data_r'[LineWords - 1] = latest'[s1_req'.loc]
                    ELSE \A k \in Words :
                            mau_data_r'[k] = latest'[[s1_req'.loc EXCEPT !.word = k]]
  BY DEF AnswerIsCurrent
<1>1. mau_ack_rd /\ mau_req_ack /\ ~is_we(s1_req)
  BY DEF Cycle, Clock, MauAckRegs, mau_ack_rd
<1>2. s1_val /\ stall /\ s1_req \in CoreReqs /\ s1_req' = s1_req /\ latest' = latest
  <2>1. s1_val /\ stall /\ s1_req \in CoreReqs
    BY <1>1, Shape DEF Cycle, Control, Pipeline
  <2> QED
    BY <2>1, S1After DEF Cycle, Clock, History
<1>3. \A x \in Loc : mem[x] = latest[x]
  BY <1>1, MemoryIsLatest DEF Cycle, Control
<1>4. s1_req.loc \in Loc
  BY <1>2, RequestFields
<1>5. CASE is_nc(s1_req)
  <2>1. mau_data_r' = [NoLine EXCEPT ![LineWords - 1] = mem[s1_req.loc]]
    <3>1. MauAckRegs
      BY DEF Cycle, Clock
    <3> QED
      BY <1>1, <1>5, <3>1 DEF MauAckRegs, fill
  <2>2. LineWords - 1 \in Words
    BY GeometryAssumption DEF Words
  <2> QED
    BY <1>2, <1>3, <1>4, <1>5, <2>1, <2>2 DEF NoLine
<1>6. CASE ~is_nc(s1_req)
  <2>1. mau_data_r' = [k \in Words |-> mem[[s1_req.loc EXCEPT !.word = k]]]
    <3>1. MauAckRegs
      BY DEF Cycle, Clock
    <3> QED
      BY <1>1, <1>6, <3>1 DEF MauAckRegs, fill
  <2>2. \A k \in Words : [s1_req.loc EXCEPT !.word = k] \in Loc
    BY <1>4, LineLocation
  <2> QED
    BY <1>2, <1>3, <1>6, <2>1, <2>2
<1> QED
  BY <1>5, <1>6

LEMMA MemoryInit == Init => Memory
<1> SUFFICES ASSUME Init PROVE Memory
  OBVIOUS
<1>1. StoreInS1IsLatest /\ AnswerIsCurrent
  BY DEF Init, StoreInS1IsLatest, AnswerIsCurrent
<1>2. MemoryIsCurrent
  BY DEF Init, MemoryIsCurrent
<1> QED
  BY <1>1, <1>2 DEF Memory

LEMMA MemoryNext ==
    ASSUME StoresAtLaneZero
    PROVE  Control /\ Memory /\ [Next]_vars => Memory'
<1> SUFFICES ASSUME Control, Memory, [Next]_vars PROVE Memory'
  OBVIOUS
<1>1. CASE Next
  <2>1. PICK r \in CoreReqs \cup {None} : Clock(r) /\ (stall => r = None)
    BY <1>1 DEF Next
  <2>2. Cycle(r)
    BY <2>1 DEF Cycle
  <2> QED
    BY <2>2, StoreInS1Step, MemoryStep, AnswerStep DEF Memory
<1>2. CASE UNCHANGED vars
  BY <1>2 DEF vars, cacheVars, s1Vars, delVars, mauVars, Memory, StoreInS1IsLatest, IsLatest,
     MemoryIsCurrent, AnswerIsCurrent
<1> QED
  BY <1>1, <1>2

(* Write-through: for stores at lane 0, memory lags behind program order   *)
(* by the store in S1 and nothing else.                                    *)
THEOREM MemoryFollowsStores == StoresAtLaneZero => (Spec => []MemoryIsCurrent)
<1> SUFFICES ASSUME StoresAtLaneZero PROVE Spec => []MemoryIsCurrent
  OBVIOUS
<1>1. Memory => MemoryIsCurrent
  BY DEF Memory
<1> QED
  BY <1>1, MemoryInit, MemoryNext, ControlIsInvariant, PTL DEF Spec
-----------------------------------------------------------------------------
LEMMA ForwardingStep ==
    ASSUME NEW r, Cycle(r)
    PROVE  Forwarding'
<1>0. /\ del_val' <=> s0_wr(r) \/ (del_val /\ ~del_buf_clean(r))
      /\ del_buf' = IF s0_wr(r) THEN r ELSE del_buf
      /\ del_addr_hit' <=> del_val /\ s0_rd(r) /\ del_buf.loc = r.loc
      /\ del_hit' <=> del_addr_hit' /\ word_be(r) \subseteq word_be(del_buf)
  BY DEF Cycle, Clock, DelayedBuffer
<1>1. s0_rd(r) => ~s0_wr(r) /\ del_buf' = del_buf /\ s1_req' = r
  BY <1>0, S1After DEF s0_rd, s0_wr
<1>2. lru_req_r' /\ s1_req'.op = "RD" => s0_rd(r)
  BY S1After DEF s0_rd
<1>3. del_addr_hit' => del_buf' # None /\ del_buf'.loc = s1_req'.loc
  BY <1>0, <1>1 DEF Cycle, Control, TypeOK
<1>4. del_hit' <=> del_addr_hit' /\ word_be(s1_req') \subseteq word_be(del_buf')
  BY <1>0, <1>1
<1>5. lru_req_r' /\ s1_req'.op = "RD" /\ del_val' /\ del_buf'.loc = s1_req'.loc => del_addr_hit'
  BY <1>0, <1>1, <1>2
<1>6. lru_req_r' /\ s1_req'.op = "RD" => \A w \in Ways : dm_addr'[w] = s1_req'.loc.idx
  BY <1>1, <1>2, DataAfter
<1>7. (\A w \in Ways : dm_addr[w] = s1_req.loc.idx)' <=> \A w \in Ways : dm_addr'[w] = s1_req'.loc.idx
  OBVIOUS
<1>8. (word_be(s1_req) \subseteq word_be(del_buf))' <=> word_be(s1_req') \subseteq word_be(del_buf')
  BY DEF word_be, Lanes
<1> QED
  BY <1>3, <1>4, <1>5, <1>6, <1>7, <1>8 DEF Forwarding

LEMMA LinesWereReadStep ==
    ASSUME NEW r, Cycle(r), LinesWereRead
    PROVE  LinesWereRead'
<1> SUFFICES ASSUME NEW w \in Ways, NEW i \in Sets, ld'[w][i] # None
             PROVE  \E q \in CoreReqs : q.op = "RD" /\ q.loc.tag = ld'[w][i] /\ q.loc.idx = i
  BY DEF LinesWereRead
<1>1. CASE ld'[w][i] = ld[w][i]
  BY <1>1 DEF LinesWereRead
<1>2. CASE ld'[w][i] # ld[w][i]
  <2>1. fill /\ i = s1_req.loc.idx /\ ld'[w][i] = s1_req.loc.tag
    BY <1>2, TagsAfter
  <2>2. s1_req \in CoreReqs /\ s1_req.op = "RD"
    BY <2>1, Shape
  <2> QED
    BY <2>1, <2>2
<1> QED
  BY <1>1, <1>2

(* While a store stays in the buffer its line is in the cache.             *)
LEMMA KeptStoreHasLine ==
    ASSUME NEW r, Cycle(r), del_val, ~del_buf_clean(r)
    PROVE  /\ del_buf \in CoreReqs
           /\ \E w \in Ways : ld[w][del_buf.loc.idx] = del_buf.loc.tag
<1>1. del_buf \in CoreReqs
  BY DEF Cycle, Control, TypeOK
<1>2. CASE del_dm_wr
  BY <1>1, <1>2 DEF Cycle, Control, TypeOK, DeferredStoreHasItsLine
<1>3. CASE ~del_dm_wr
  <2>1. hit_vect # {} /\ del_buf = s1_req
    BY <1>3, Shape DEF del_buf_clean
  <2> QED
    BY <1>1, <2>1 DEF hit_vect
<1> QED
  BY <1>2, <1>3

(* A non-cached store goes to no line that is in the cache.                *)
LEMMA NoLineIsWrittenAround ==
    ASSUME KindsApart, TypeOK, LinesWereRead, NEW r \in CoreReqs, r.op = "WRNC",
           NEW w \in Ways, NEW x \in Loc, ld[w][x.idx] = x.tag
    PROVE  r.loc # x
<1>1. x.idx \in Sets /\ x.tag # None
  BY GeometryAssumption DEF Loc
<1>2. PICK q \in CoreReqs : q.op = "RD" /\ q.loc.tag = x.tag /\ q.loc.idx = x.idx
  BY <1>1 DEF LinesWereRead
<1> QED
  BY <1>2 DEF KindsApart

LEMMA BufferLatestStep ==
    ASSUME KindsApart, NEW r, Cycle(r), LinesWereRead, BufferIsLatest
    PROVE  BufferIsLatest'
<1> SUFFICES ASSUME del_val' \/ del_addr_hit', NEW l \in word_be(del_buf')
             PROVE  del_buf'.data[l] = latest'[del_buf'.loc][l]
  BY DEF BufferIsLatest, IsLatest, word_be, Lanes
<1>0. /\ del_val' <=> s0_wr(r) \/ (del_val /\ ~del_buf_clean(r))
      /\ del_buf' = IF s0_wr(r) THEN r ELSE del_buf
      /\ del_addr_hit' => del_val /\ s0_rd(r)
  BY DEF Cycle, Clock, DelayedBuffer
<1>1. CASE s0_wr(r)
  <2>1. r # None /\ r \in CoreReqs /\ is_we(r) /\ del_buf' = r
    BY <1>0, <1>1, S1After DEF s0_wr, is_we
  <2>2. r.loc \in Loc /\ l \in Lanes
    BY <2>1, RequestFields DEF word_be
  <2> QED
    BY <2>1, <2>2, LatestAfter
<1>2. CASE ~s0_wr(r)
  <2>1. del_val /\ del_buf' = del_buf /\ del_buf \in CoreReqs
    BY <1>0, <1>2 DEF Cycle, Control, TypeOK
  <2>2. del_buf.loc \in Loc /\ l \in Lanes /\ l \in word_be(del_buf)
    BY <2>1, RequestFields DEF word_be
  <2>3. r # None /\ is_we(r) => r.loc # del_buf.loc
    <3> SUFFICES ASSUME r # None, is_we(r) PROVE r.loc # del_buf.loc
      OBVIOUS
    <3>1. r \in CoreReqs /\ r.op = "WRNC"
      BY <1>2, S1After DEF is_we, s0_wr
    <3>2. del_val /\ ~del_buf_clean(r)
      BY <1>0, <1>2, <3>1 DEF s0_rd
    <3>3. \E w \in Ways : ld[w][del_buf.loc.idx] = del_buf.loc.tag
      BY <3>2, KeptStoreHasLine
    <3> QED
      BY <2>2, <3>1, <3>3, NoLineIsWrittenAround DEF Cycle, Control
  <2>4. latest'[del_buf.loc][l] = latest[del_buf.loc][l]
    BY <2>2, <2>3, LatestAfter
  <2> QED
    BY <2>1, <2>2, <2>4 DEF BufferIsLatest, IsLatest
<1> QED
  BY <1>1, <1>2

(* The location of a word of a valid line.                                 *)
At(w, i, k) == [tag |-> ld[w][i], idx |-> i, word |-> k]

LEMMA LineIsLocation ==
    ASSUME TypeOK, NEW w \in Ways, NEW i \in Sets, NEW k \in Words, ld[w][i] # None
    PROVE  /\ At(w, i, k) \in Loc
           /\ At(w, i, k).tag = ld[w][i] /\ At(w, i, k).idx = i /\ At(w, i, k).word = k
  BY DEF At, Loc, TypeOK

LEMMA StoredByte ==
    ASSUME del_buf \in CoreReqs, NEW line \in [Words -> Word],
           NEW k \in Words, NEW l \in Lanes
    PROVE  StoredLine(line)[k][l] = IF k = del_buf.loc.word /\ l \in word_be(del_buf)
                                    THEN del_buf.data[l] ELSE line[k][l]
<1>1. StoredLine(line)[k] = IF k = del_buf.loc.word
                            THEN Merge(line[k], del_buf.data, word_be(del_buf)) ELSE line[k]
  BY DEF StoredLine
<1> QED
  BY <1>1, MergedByte

(* One byte of one line, edge by edge.  A refill brings what memory has; a *)
(* load on the port defers the store; otherwise the store lands.           *)
LEMMA LinesCurrentStep ==
    ASSUME KindsApart, NEW r, Cycle(r), MemoryIsCurrent, LinesWereRead, BufferIsLatest,
           LinesAreCurrent
    PROVE  LinesAreCurrent'
<1> DEFINE PendingNext(x, l) == /\ del_val' /\ del_buf'.loc = x /\ l \in word_be(del_buf')
                                /\ del_dm_wr' \/ del_buf_need_dm_wr'
<1> USE Shape
<1>0. /\ TypeOK /\ LinesAreWords /\ OneWayHits /\ DeferredStoreHasItsLine /\ Control
      /\ del_val' <=> s0_wr(r) \/ (del_val /\ ~del_buf_clean(r))
      /\ del_buf' = IF s0_wr(r) THEN r ELSE del_buf
      /\ del_dm_wr' <=> \/ del_buf_need_dm_wr /\ dm_blocked(r)
                        \/ del_dm_wr /\ ~del_buf_clean(r)
      /\ del_buf_clean(r) <=> IF del_dm_wr THEN ~dm_blocked(r) ELSE ~del_buf_need_dm_wr
      /\ dm_blocked(r) <=> s0_rd(r) \/ fill
  BY DEF Cycle, Clock, DelayedBuffer, Control, del_buf_clean, dm_blocked
<1> SUFFICES ASSUME NEW w \in Ways, NEW i \in Sets, NEW k \in Words, ld'[w][i] # None,
                    NEW l \in Lanes
             PROVE  \/ dm'[w][i][k][l] = latest'[[tag |-> ld'[w][i], idx |-> i, word |-> k]][l]
                    \/ PendingNext([tag |-> ld'[w][i], idx |-> i, word |-> k], l)
  BY DEF LinesAreCurrent, StorePending, PendingNext
<1>1. CASE fill
  <2>1. r = None /\ ~del_dm_wr /\ ~del_buf_need_dm_wr /\ s1_req \in CoreReqs
        /\ ~is_we(s1_req) /\ latest' = latest
    BY <1>1 DEF Cycle, Clock, History, is_we
  <2>2. PICK v \in Ways : /\ lru_way_r = {v}
            /\ \A u \in Ways, j \in Sets :
                  ld'[u][j] = IF u = v /\ j = s1_req.loc.idx THEN s1_req.loc.tag
                              ELSE ld[u][j]
    BY <1>1, TagsAfter
  <2>3. PICK v2 \in Ways : /\ lru_way_r = {v2}
            /\ \A u \in Ways, j \in Sets :
                  dm'[u][j] = IF u = v2 /\ j = s1_req.loc.idx THEN FilledLine(s1_req.loc)
                              ELSE dm[u][j]
    BY <1>1, DataAfter
  <2>4. v2 = v
    BY <2>2, <2>3
  <2>5. CASE w = v /\ i = s1_req.loc.idx
    <3> DEFINE x == [s1_req.loc EXCEPT !.word = k]
    <3>1. x \in Loc /\ x = [tag |-> s1_req.loc.tag, idx |-> s1_req.loc.idx, word |-> k]
      BY <2>1, RequestFields, LineLocation
    <3>2. mem[x] = latest[x]
      BY <1>0, <2>1, <3>1, MemoryIsLatest
    <3>3. dm'[w][i][k] = mem[x]
      <4>1. dm'[w][i] = FilledLine(s1_req.loc)
        BY <2>3, <2>4, <2>5
      <4>2. FilledLine(s1_req.loc)[k] = mem[x]
        BY DEF FilledLine
      <4> QED
        BY <4>1, <4>2
    <3> QED
      BY <2>1, <2>2, <2>5, <3>1, <3>2, <3>3
  <2>6. CASE ~(w = v /\ i = s1_req.loc.idx)
    <3>1. ld'[w][i] = ld[w][i] /\ dm'[w][i] = dm[w][i]
      BY <2>2, <2>3, <2>4, <2>6
    <3>2. dm[w][i][k][l] = latest[[tag |-> ld[w][i], idx |-> i, word |-> k]][l]
      BY <2>1, <3>1 DEF LinesAreCurrent, StorePending
    <3> QED
      BY <2>1, <3>1, <3>2
  <2> QED
    BY <2>5, <2>6
<1>2. CASE s0_rd(r)
  <2>1. ~fill /\ dm' = dm
    BY <1>2, DataAfter
  <2>2. ld' = ld /\ latest' = latest /\ del_buf' = del_buf
    BY <1>0, <1>2, <2>1, TagsAfter DEF Cycle, Clock, History, is_we, s0_rd, s0_wr
  <2>3. del_val /\ (del_dm_wr \/ del_buf_need_dm_wr) => del_val' /\ del_dm_wr'
    BY <1>0, <1>2
  <2>4. \/ dm[w][i][k][l] = latest[[tag |-> ld[w][i], idx |-> i, word |-> k]][l]
        \/ StorePending([tag |-> ld[w][i], idx |-> i, word |-> k], l)
    BY <2>2 DEF LinesAreCurrent
  <2>5. StorePending([tag |-> ld[w][i], idx |-> i, word |-> k], l)
            => PendingNext([tag |-> ld'[w][i], idx |-> i, word |-> k], l)
    BY <2>2, <2>3 DEF StorePending
  <2> QED
    BY <2>1, <2>2, <2>4, <2>5
<1>3. CASE ~fill /\ ~s0_rd(r)
  <2>0. ld' = ld
    BY <1>3, TagsAfter
  <2> DEFINE x == [tag |-> ld[w][i], idx |-> i, word |-> k]
  <2>1. /\ x \in Loc /\ x = At(w, i, k)
        /\ x.tag = ld[w][i] /\ x.idx = i /\ x.word = k
        /\ dm[w][i] \in [Words -> Word]
    BY <1>0, <2>0, LineIsLocation DEF At, LinesAreWords
  <2> HIDE DEF x
  <2>2. dm'[w][i] = IF w \in store_ways /\ i = del_buf.loc.idx
                    THEN StoredLine(dm[w][i]) ELSE dm[w][i]
    BY <1>3, DataAfter
  <2>3. ld[w][i] # None
    BY <2>0
  <2>4. dm'[w][i][k][l] = latest[x][l]
    <3>1. CASE w \in store_ways /\ i = del_buf.loc.idx /\ k = del_buf.loc.word
               /\ l \in word_be(del_buf)
      <4>1. del_val /\ del_buf \in CoreReqs /\ ld[w][i] = del_buf.loc.tag
        BY <3>1, StoreWays
      <4>2. del_buf.loc = x
        <5>1. del_buf.loc \in Loc
          BY <4>1, RequestFields
        <5> QED
          BY <2>1, <3>1, <4>1, <5>1 DEF Loc
      <4>3. dm'[w][i][k][l] = del_buf.data[l]
        BY <2>1, <2>2, <3>1, <4>1, StoredByte
      <4> QED
        BY <3>1, <4>1, <4>2, <4>3 DEF BufferIsLatest, IsLatest
    <3>2. CASE ~(w \in store_ways /\ i = del_buf.loc.idx /\ k = del_buf.loc.word
                 /\ l \in word_be(del_buf))
      <4>1. dm'[w][i][k][l] = dm[w][i][k][l]
        <5>1. w \in store_ways => del_buf \in CoreReqs
          BY StoreWays
        <5> QED
          BY <2>1, <2>2, <3>2, <5>1, StoredByte
      <4>2. ~StorePending(x, l)
        <5> SUFFICES ASSUME StorePending(x, l) PROVE FALSE
          OBVIOUS
        <5>1. /\ del_val /\ del_buf.loc = x /\ l \in word_be(del_buf)
              /\ del_dm_wr \/ del_buf_need_dm_wr
          BY DEF StorePending
        <5>2. CASE del_buf_need_dm_wr
          <6>1. store_ways = hit_vect /\ del_buf = s1_req /\ lru_req_r
            BY <5>1, <5>2 DEF store_ways
          <6> QED
            BY <2>1, <3>2, <5>1, <6>1 DEF hit_vect
        <5>3. CASE ~del_buf_need_dm_wr
          <6>1. del_dm_wr /\ store_ways = del_way
            BY <5>1, <5>3 DEF store_ways
          <6>2. PICK v \in del_way : v \in Ways /\ ld[v][i] = ld[w][i]
            BY <1>0, <2>1, <5>1, <6>1 DEF DeferredStoreHasItsLine, TypeOK
          <6>3. v = w
            BY <1>0, <2>3, <6>2 DEF OneWayHits
          <6> QED
            BY <2>1, <3>2, <5>1, <6>1, <6>2, <6>3
        <5> QED
          BY <5>2, <5>3
      <4>3. \/ dm[w][i][k][l] = latest[x][l]
            \/ StorePending(x, l)
        BY <2>3 DEF LinesAreCurrent, x
      <4> QED
        BY <4>1, <4>2, <4>3
    <3> QED
      BY <3>1, <3>2
  <2>5. CASE r # None /\ is_we(r) /\ r.loc = x /\ l \in word_be(r)
    <3>1. r \in CoreReqs /\ s1_val' /\ s1_req' = r
      BY <2>5, S1After
    <3>2. r.op # "WRNC"
      BY <1>0, <2>1, <2>5, <3>1, NoLineIsWrittenAround
    <3>3. r.op = "WR" /\ s0_wr(r)
      BY <2>5, <3>1, <3>2 DEF is_we, s0_wr
    <3>4. del_val' /\ del_buf' = r
      BY <1>0, <3>3
    <3>5. lru_req_r' /\ is_we(s1_req')
      BY <2>5, <3>1, <3>3, S1After DEF is_nc
    <3>6. ld'[w][s1_req'.loc.idx] = s1_req'.loc.tag
      BY <2>0, <2>1, <2>5, <3>1
    <3>7. del_buf_need_dm_wr'
      BY <3>1, <3>5, <3>6 DEF del_buf_need_dm_wr, lru_hit, hit_vect
    <3>8. PendingNext([tag |-> ld'[w][i], idx |-> i, word |-> k], l)
      BY <2>0, <2>5, <3>4, <3>7 DEF x
    <3> QED
      BY <3>8
  <2>6. CASE ~(r # None /\ is_we(r) /\ r.loc = x /\ l \in word_be(r))
    <3>1. latest'[x][l] = latest[x][l]
      BY <2>1, <2>6, LatestAfter
    <3> QED
      BY <2>0, <2>4, <3>1 DEF x
  <2> QED
    BY <2>5, <2>6
<1> QED
  BY <1>1, <1>2, <1>3

LEMMA CoherenceInit == Init => Coherence
<1> SUFFICES ASSUME Init PROVE Coherence
  OBVIOUS
<1>1. Forwarding /\ BufferIsLatest
  BY DEF Init, Forwarding, BufferIsLatest
<1>2. LinesWereRead /\ LinesAreCurrent
  BY DEF Init, LinesWereRead, LinesAreCurrent
<1> QED
  BY <1>1, <1>2 DEF Coherence

LEMMA CoherenceNext ==
    ASSUME KindsApart
    PROVE  Control /\ Memory /\ Coherence /\ [Next]_vars => Coherence'
<1> SUFFICES ASSUME Control, Memory, Coherence, [Next]_vars PROVE Coherence'
  OBVIOUS
<1>1. CASE Next
  <2>1. PICK r \in CoreReqs \cup {None} : Clock(r) /\ (stall => r = None)
    BY <1>1 DEF Next
  <2>2. Cycle(r)
    BY <2>1 DEF Cycle
  <2> QED
    BY <2>2, ForwardingStep, LinesWereReadStep, BufferLatestStep, LinesCurrentStep
       DEF Memory, Coherence
<1>2. CASE UNCHANGED vars
  <2>1. Forwarding' /\ BufferIsLatest'
    BY <1>2 DEF vars, cacheVars, s1Vars, delVars, mauVars, Coherence, Forwarding,
       BufferIsLatest, IsLatest
  <2>2. LinesWereRead'
    BY <1>2 DEF vars, cacheVars, Coherence, LinesWereRead
  <2>3. LinesAreCurrent'
    BY <1>2 DEF vars, cacheVars, s1Vars, delVars, mauVars, Coherence, LinesAreCurrent,
       StorePending, del_buf_need_dm_wr, lru_hit, hit_vect
  <2> QED
    BY <2>1, <2>2, <2>3 DEF Coherence
<1> QED
  BY <1>1, <1>2

LEMMA CoherenceIsInvariant ==
    StoresAtLaneZero /\ KindsApart => (Spec => [](Control /\ Memory /\ Coherence))
<1> SUFFICES ASSUME StoresAtLaneZero, KindsApart
             PROVE  Spec => [](Control /\ Memory /\ Coherence)
  OBVIOUS
<1> QED
  BY MemoryInit, MemoryNext, CoherenceInit, CoherenceNext, ControlIsInvariant, PTL DEF Spec

(* A word of a line that hits, where the store in the buffer has no byte.  *)
LEMMA LineByte ==
    ASSUME Control, Coherence, lru_req_r, s1_req.op = "RD", lru_hit,
           NEW l \in word_be(s1_req), ~(del_addr_hit /\ l \in word_be(del_buf))
    PROVE  core_word[l] = latest[s1_req.loc][l]
<1> DEFINE w == CHOOSE v \in hit_vect : TRUE
<1>1. w \in Ways /\ ld[w][s1_req.loc.idx] = s1_req.loc.tag
  BY DEF lru_hit, hit_vect
<1> HIDE DEF w
<1>2. /\ s1_req \in CoreReqs /\ s1_req.loc \in Loc
      /\ s1_req.loc.idx \in Sets /\ s1_req.loc.word \in Words /\ s1_req.loc.tag # None
      /\ l \in Lanes
  BY RequestFields DEF Control, TypeOK, Pipeline, word_be
<1>3. core_word = dm[w][s1_req.loc.idx][s1_req.loc.word]
  BY <1>1 DEF core_word, core_line_data, dm_rdata, w, Coherence, Forwarding
<1>4. s1_req.loc = [tag |-> ld[w][s1_req.loc.idx], idx |-> s1_req.loc.idx,
                    word |-> s1_req.loc.word]
  BY <1>1, <1>2 DEF Loc
<1>5. ~StorePending(s1_req.loc, l)
  BY DEF StorePending, Coherence, Forwarding
<1>6. \/ dm[w][s1_req.loc.idx][s1_req.loc.word][l] = latest[s1_req.loc][l]
      \/ StorePending(s1_req.loc, l)
  BY <1>1, <1>2, <1>4 DEF Coherence, LinesAreCurrent
<1> QED
  BY <1>3, <1>5, <1>6

LEMMA AnswersAreLatest == Control /\ Memory /\ Coherence => ReadReturnsLatest
<1> SUFFICES ASSUME Control, Memory, Coherence,
                    core_req_ack, owed # <<>>, ~is_we(Head(owed)),
                    NEW l \in word_be(Head(owed))
             PROVE  core_ack_data[l] = latest[Head(owed).loc][l]
  BY DEF ReadReturnsLatest
<1>1. Busy /\ Head(owed) = s1_req
  BY DEF Control, Pipeline
<1>2. s1_req \in CoreReqs /\ l \in Lanes /\ s1_req.loc \in Loc /\ s1_req.loc.word \in Words
  BY <1>1, RequestFields DEF Control, TypeOK, Pipeline, Busy, word_be
<1>3. del_addr_hit => \A b \in word_be(del_buf) : del_buf.data[b] = latest[s1_req.loc][b]
  BY DEF Coherence, BufferIsLatest, IsLatest, Forwarding
<1>4. s1_hit => lru_req_r /\ s1_req.op = "RD" /\ (lru_hit \/ del_hit)
  <2>1. s1_hit => lru_req_r
    BY DEF s1_hit, lru_hit, hit_vect, Control, Pipeline
  <2> QED
    BY <1>1, <1>2, <2>1, RequestFields DEF s1_hit, Control, Pipeline, is_we, is_nc
<1>5. s1_hit \/ mau_ack_r
  BY <1>1 DEF core_req_ack, req_rd_ack, req_we_ack
<1>6. mau_ack_r => ~lru_hit /\ ~del_hit /\ ~del_addr_hit
  BY DEF Control, Pipeline, lru_hit, hit_vect
<1>7. CASE del_hit
  <2>1. del_addr_hit /\ l \in word_be(del_buf)
    BY <1>1, <1>7 DEF Coherence, Forwarding
  <2>2. core_ack_data = del_buf.data
    BY <1>7 DEF core_ack_data
  <2> QED
    BY <1>1, <1>3, <2>1, <2>2
<1>8. CASE ~del_hit /\ ~mau_ack_r
  <2>1. lru_hit /\ lru_req_r /\ s1_req.op = "RD"
    BY <1>4, <1>5, <1>8
  <2>2. ~(del_addr_hit /\ l \in word_be(del_buf)) => core_word[l] = latest[s1_req.loc][l]
    BY <1>1, <2>1, LineByte
  <2>3. CASE del_addr_hit
    <3>1. core_ack_data = Merge(core_word, del_buf.data, word_be(del_buf))
      BY <1>8, <2>3 DEF core_ack_data
    <3> QED
      BY <1>1, <1>2, <1>3, <2>2, <2>3, <3>1, MergedByte
  <2>4. CASE ~del_addr_hit
    <3>1. core_ack_data = core_word
      BY <1>8, <2>4 DEF core_ack_data
    <3> QED
      BY <1>1, <2>2, <2>4, <3>1
  <2> QED
    BY <2>3, <2>4
<1>9. CASE mau_ack_r
  <2>1. core_line_data = mau_data_r
    BY <1>6, <1>9 DEF core_line_data
  <2>2. mau_nc_r <=> is_nc(s1_req)
    BY <1>9 DEF Control, Pipeline
  <2>3. CASE is_nc(s1_req)
    <3>1. core_ack_data = mau_data_r[LineWords - 1]
      BY <1>6, <1>9, <2>1, <2>2, <2>3 DEF core_ack_data
    <3> QED
      BY <1>1, <1>9, <2>3, <3>1 DEF Memory, AnswerIsCurrent
  <2>4. CASE ~is_nc(s1_req)
    <3>1. core_ack_data = mau_data_r[s1_req.loc.word]
      BY <1>6, <1>9, <2>1, <2>2, <2>4 DEF core_ack_data, core_word
    <3>2. [s1_req.loc EXCEPT !.word = s1_req.loc.word] = s1_req.loc
      BY <1>2 DEF Loc
    <3> QED
      BY <1>1, <1>2, <1>9, <2>4, <3>1, <3>2 DEF Memory, AnswerIsCurrent
  <2> QED
    BY <2>3, <2>4
<1> QED
  BY <1>7, <1>8, <1>9

(* A valid line differs from program order in nothing but the bytes of the *)
(* store in the buffer.                                                    *)
THEOREM LinesFollowStores ==
    StoresAtLaneZero /\ KindsApart => (Spec => []LinesAreCurrent)
<1>1. Control /\ Memory /\ Coherence => LinesAreCurrent
  BY DEF Coherence
<1> QED
  BY <1>1, CoherenceIsInvariant, PTL

(* The core reads what program order wrote, wherever the bytes are.        *)
THEOREM ReadsReturnLatest ==
    StoresAtLaneZero /\ KindsApart => (Spec => []ReadReturnsLatest)
  BY AnswersAreLatest, CoherenceIsInvariant, PTL
=============================================================================
