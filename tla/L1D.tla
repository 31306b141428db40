--------------------------------- MODULE L1D ---------------------------------
(***************************************************************************)
(* The data cache of rtl/l1_cache/l1d_top.v: write-through, no allocation  *)
(* on a write, a two-stage pipeline (S0, S1) and a one-entry delayed       *)
(* buffer that keeps a store until the single-ported data memory is free.  *)
(* One step is one clock edge, after the tag memories have been cleaned.   *)
(*                                                                         *)
(* The replacement policy is any choice of a way (l1_lrum.v decides it),   *)
(* the memory access unit is what L1Mau promises: it takes a write in any  *)
(* cycle, a read in one cycle and answers it in a later one, in order.     *)
(* An address is the location of a word, data is a value per byte lane.    *)
(***************************************************************************)
EXTENDS Integers, Sequences

CONSTANTS Ways, Sets, Tags, (* the geometry of the cache                   *)
          LineWords,        (* words in a line                             *)
          LaneNum,          (* byte lanes of a word                        *)
          Values,           (* what a byte can hold                        *)
          CoreReqs,         (* requests of the core                        *)
          None              (* no request, and data nobody may look at     *)

Words   == 0 .. LineWords - 1
Lanes   == 0 .. LaneNum - 1
Loc     == [tag : Tags, idx : Sets, word : Words]
Word    == [Lanes -> Values]
Request == [op : {"RD", "WR", "RDNC", "WRNC"}, loc : Loc,
            lane : Lanes, size : 1 .. LaneNum, data : Word]

ASSUME GeometryAssumption == /\ LineWords \in Nat \ {0} /\ LaneNum \in Nat \ {0}
                             /\ CoreReqs \subseteq Request
                             /\ None \notin Request /\ None \notin Word /\ None \notin Tags

VARIABLES ld, dm, dm_addr,          (* tag and data memories, the address  *)
                                    (* register of each data memory        *)
          s1_val, s1_req,           (* the request in S1                   *)
          lru_req_r, lru_way_r,
          del_val, del_buf,         (* del_buf_val_r and the store it has  *)
          del_way, del_dm_wr,       (* del_buf_way_vect_r, .._dm_wr_r      *)
          del_hit, del_addr_hit,    (* del_buf_hit_r, del_buf_addr_hit_r   *)
          mau_req_ack, mau_acc,     (* acknowledge, accepted read          *)
          mau_ack_r, mau_data_r, mau_nc_r,
          mem,                      (* memory as the MAU has written it    *)
          latest, owed              (* history: what program order makes   *)
                                    (* of every word, and the requests     *)
                                    (* accepted and not yet acknowledged   *)

cacheVars == <<ld, dm, dm_addr>>
s1Vars    == <<s1_val, s1_req, lru_req_r, lru_way_r>>
delVars   == <<del_val, del_buf, del_way, del_dm_wr, del_hit, del_addr_hit>>
mauVars   == <<mau_req_ack, mau_acc, mau_ack_r, mau_data_r, mau_nc_r, mem>>
vars      == <<cacheVars, s1Vars, delVars, mauVars, latest, owed>>

is_we(r) == r.op \in {"WR", "WRNC"}
is_nc(r) == r.op \in {"RDNC", "WRNC"}

(* Byte enables: of the request, shifted to its lane, and of the bus.      *)
word_be(r)   == {l \in Lanes : r.lane <= l /\ l < r.lane + r.size}
mau_req_be(r) == {l \in Lanes : l < r.size}

Merge(word, data, be) == [l \in Lanes |-> IF l \in be THEN data[l] ELSE word[l]]
NoLine == [k \in Words |-> None]
-----------------------------------------------------------------------------
(* S1: hit or miss, the stall of the pipeline and the MAU's request.       *)
hit_vect == {w \in Ways : lru_req_r /\ ld[w][s1_req.loc.idx] = s1_req.loc.tag}
lru_hit  == hit_vect # {}
s1_hit   == lru_hit \/ del_hit

stallReads  == s1_val /\ ~is_we(s1_req) /\ ~s1_hit
stallWrites == s1_val /\ is_we(s1_req) /\ ~mau_req_ack
stallOnMiss == s1_val /\ IF is_we(s1_req) THEN ~mau_req_ack ELSE ~lru_hit
stall == s1_val /\ IF is_we(s1_req) THEN ~mau_req_ack ELSE ~s1_hit

mau_req_valOnce == s1_val /\ (is_nc(s1_req) \/ is_we(s1_req) \/ (lru_req_r /\ ~s1_hit))
mau_req_val == s1_val /\ (is_nc(s1_req) \/ is_we(s1_req) \/ ~s1_hit)

mau_ack_rd == mau_req_ack /\ ~is_we(s1_req)
fillAlways == mau_req_ack /\ ~is_nc(s1_req)
fill == mau_ack_rd /\ ~is_nc(s1_req)

(* The acknowledge to the core and its data.                               *)
req_rd_ack   == s1_hit /\ ~is_we(s1_req)
req_we_ack   == s1_val /\ is_we(s1_req) /\ ~stall
core_req_ack == req_rd_ack \/ req_we_ack \/ mau_ack_r

dm_rdata(w)    == dm[w][dm_addr[w]]
core_line_data == IF lru_hit THEN dm_rdata(CHOOSE w \in hit_vect : TRUE)
                             ELSE mau_data_r
core_wordFirst == core_line_data[0]
core_word      == core_line_data[s1_req.loc.word]

core_ack_dataNoMerge == IF del_hit THEN del_buf.data
                        ELSE IF mau_ack_r /\ mau_nc_r THEN mau_data_r[LineWords - 1]
                        ELSE core_word
core_ack_data ==
    CASE del_hit -> del_buf.data
      [] ~del_hit /\ del_addr_hit ->
            Merge(core_word, del_buf.data, word_be(del_buf))
      [] ~del_hit /\ ~del_addr_hit /\ mau_ack_r /\ mau_nc_r ->
            core_line_data[LineWords - 1]
      [] OTHER -> core_word
-----------------------------------------------------------------------------
(* S0 and the delayed buffer; r is the request accepted in S0, or None.    *)
s0_rd(r) == r # None /\ r.op = "RD"
s0_wr(r) == r # None /\ r.op = "WR"

del_buf_need_dm_wrOnMiss == s1_val /\ is_we(s1_req)
del_buf_need_dm_wr == s1_val /\ is_we(s1_req) /\ lru_hit
dm_blocked(r)      == s0_rd(r) \/ fill
del_buf_cleanEager(r) == ~del_buf_need_dm_wr
del_buf_clean(r)   == IF del_dm_wr THEN ~dm_blocked(r) ELSE ~del_buf_need_dm_wr

DelayedBuffer(r) ==
    LET addr_hit == del_val /\ s0_rd(r) /\ del_buf.loc = r.loc
    IN  /\ del_val'      = (s0_wr(r) \/ (del_val /\ ~del_buf_clean(r)))
        /\ del_addr_hit' = addr_hit
        /\ del_hit'      = (addr_hit /\ word_be(r) \subseteq word_be(del_buf))
        /\ del_buf'      = IF s0_wr(r) THEN r ELSE del_buf
        /\ del_way'      = IF del_buf_need_dm_wr THEN hit_vect ELSE del_way
        /\ del_dm_wr'    = \/ del_buf_need_dm_wr /\ dm_blocked(r)
                           \/ del_dm_wr /\ ~del_buf_clean(r)

(* The data memory has one port: a read of S0 first, then the refill, then *)
(* the store in the delayed buffer.                                        *)
DmRead(r) == /\ s0_rd(r)
             /\ dm_addr' = [w \in Ways |-> r.loc.idx]
             /\ UNCHANGED dm

DmFill(r) == /\ ~s0_rd(r) /\ fill
             /\ dm' = [w \in Ways |-> IF w \in lru_way_r
                          THEN [dm[w] EXCEPT ![s1_req.loc.idx] =
                                  [k \in Words |-> mem[[s1_req.loc EXCEPT !.word = k]]]]
                          ELSE dm[w]]
             /\ dm_addr' = [w \in Ways |-> IF w \in lru_way_r THEN s1_req.loc.idx
                                           ELSE dm_addr[w]]

store_waysNow == IF del_val /\ del_buf_need_dm_wr THEN hit_vect ELSE {}
store_ways == IF del_val /\ del_buf_need_dm_wr THEN hit_vect
              ELSE IF del_dm_wr THEN del_way ELSE {}

DmStoreAtS1(r) == /\ ~dm_blocked(r)
                  /\ dm' = [w \in Ways |-> IF w \in store_ways
                               THEN [dm[w] EXCEPT ![s1_req.loc.idx][del_buf.loc.word] =
                                       Merge(@, del_buf.data, word_be(del_buf))]
                               ELSE dm[w]]
                  /\ dm_addr' = [w \in Ways |-> IF w \in store_ways THEN s1_req.loc.idx
                                                ELSE dm_addr[w]]
DmStore(r) == /\ ~dm_blocked(r)
              /\ dm' = [w \in Ways |-> IF w \in store_ways
                           THEN [dm[w] EXCEPT ![del_buf.loc.idx][del_buf.loc.word] =
                                   Merge(@, del_buf.data, word_be(del_buf))]
                           ELSE dm[w]]
              /\ dm_addr' = [w \in Ways |-> IF w \in store_ways THEN del_buf.loc.idx
                                            ELSE dm_addr[w]]

(* A refill writes the tag of the line; tags are never invalidated.        *)
Ld == ld' = [w \in Ways |-> IF fill /\ w \in lru_way_r
                            THEN [ld[w] EXCEPT ![s1_req.loc.idx] = s1_req.loc.tag]
                            ELSE ld[w]]

Lru(r) == /\ lru_req_r' = (r # None /\ ~is_nc(r))
          /\ IF lru_req_r
             THEN lru_way_r' \in IF lru_hit THEN {hit_vect} ELSE {{w} : w \in Ways}
             ELSE UNCHANGED lru_way_r

(* The registers of S1 follow the port; they are read only while they hold *)
(* a request, and in the cycle after the acknowledge of a read.            *)
S1(r) == IF stall
         THEN s1_val' = ~mau_req_ack /\ UNCHANGED s1_req
         ELSE /\ s1_val' = (r # None)
              /\ s1_req' = IF r # None THEN r ELSE s1_req

MauAckRegs ==
    /\ mau_ack_r' = mau_ack_rd
    /\ mau_nc_r' = (mau_ack_rd /\ is_nc(s1_req))
    /\ mau_data_r' =
          CASE fill -> [k \in Words |-> mem[[s1_req.loc EXCEPT !.word = k]]]
            [] mau_ack_rd /\ is_nc(s1_req) ->
                  [NoLine EXCEPT ![LineWords - 1] = mem[s1_req.loc]]
            [] OTHER -> NoLine

(* The MAU: writes are applied when they are acknowledged, a read is       *)
(* accepted in one cycle and acknowledged in a later one.                  *)
Mau == /\ mau_acc' \in IF mau_acc THEN {~mau_req_ack}
                       ELSE {FALSE, mau_req_val /\ ~is_we(s1_req)}
       /\ mau_req_ack' \in {FALSE, mau_req_val' /\ (is_we(s1_req') \/ mau_acc')}
       /\ mem' = IF mau_req_ack /\ is_we(s1_req)
                 THEN [mem EXCEPT ![s1_req.loc] =
                         Merge(@, s1_req.data, mau_req_be(s1_req))]
                 ELSE mem

History(r) ==
    /\ latest' = IF r # None /\ is_we(r)
                 THEN [latest EXCEPT ![r.loc] = Merge(@, r.data, word_be(r))]
                 ELSE latest
    /\ LET left == IF core_req_ack THEN SubSeq(owed, 2, Len(owed)) ELSE owed
       IN  owed' = IF r # None THEN Append(left, r) ELSE left

Clock(r) == /\ DelayedBuffer(r)
            /\ DmRead(r) \/ DmFill(r) \/ DmStore(r)
            /\ Ld
            /\ Lru(r)
            /\ S1(r)
            /\ MauAckRegs
            /\ Mau
            /\ History(r)

Init == /\ ld = [w \in Ways |-> [i \in Sets |-> None]]
        /\ dm = [w \in Ways |-> [i \in Sets |-> NoLine]]
        /\ \E i \in Sets : dm_addr = [w \in Ways |-> i]
        /\ s1_val = FALSE /\ s1_req = None
        /\ lru_req_r = FALSE /\ lru_way_r = {}
        /\ del_val = FALSE /\ del_buf = None /\ del_way = {}
        /\ del_dm_wr = FALSE /\ del_hit = FALSE /\ del_addr_hit = FALSE
        /\ mau_req_ack = FALSE /\ mau_acc = FALSE
        /\ mau_ack_r = FALSE /\ mau_data_r = NoLine /\ mau_nc_r = FALSE
        /\ \E v \in Values : mem = [l \in Loc |-> [b \in Lanes |-> v]]
        /\ latest = mem
        /\ owed = <<>>

(* A request on the port of a stalled cache is not looked at.              *)
Next == \E r \in IF stall THEN {None} ELSE CoreReqs \cup {None} : Clock(r)

Spec == Init /\ [][Next]_vars
-----------------------------------------------------------------------------
Busy == s1_val \/ mau_ack_r
MauServes == stall /\ Next /\ (mau_req_ack' \/ mau_acc' # mau_acc)
Fairness == WF_vars(Busy /\ Next) /\ WF_vars(MauServes)
FairSpec == Spec /\ Fairness
-----------------------------------------------------------------------------
TypeOK ==
    /\ ld \in [Ways -> [Sets -> Tags \cup {None}]]
    /\ dm \in [Ways -> [Sets -> [Words -> Word \cup {None}]]]
    /\ dm_addr \in [Ways -> Sets]
    /\ s1_val \in BOOLEAN /\ s1_req \in CoreReqs \cup {None}
    /\ s1_val => s1_req # None
    /\ lru_req_r \in BOOLEAN /\ lru_way_r \subseteq Ways
    /\ del_val \in BOOLEAN /\ del_buf \in CoreReqs \cup {None}
    /\ del_val => del_buf # None
    /\ del_way \subseteq Ways /\ del_dm_wr \in BOOLEAN
    /\ del_hit \in BOOLEAN /\ del_addr_hit \in BOOLEAN
    /\ mau_req_ack \in BOOLEAN /\ mau_acc \in BOOLEAN
    /\ mau_ack_r \in BOOLEAN /\ mau_nc_r \in BOOLEAN
    /\ mau_data_r \in [Words -> Word \cup {None}]
    /\ mau_acc => s1_val /\ ~is_we(s1_req)
    /\ mem \in [Loc -> Word] /\ latest \in [Loc -> Word]
    /\ owed \in Seq(CoreReqs)

(* The core sees memory in program order.  A read is acknowledged with the *)
(* bytes that the last accepted store to its word left, wherever they are: *)
(* in the delayed buffer, in a way of the data memory, in the line that    *)
(* arrives from the MAU, or partly in the one and partly in the other.     *)
ReadReturnsLatest ==
    core_req_ack /\ owed # <<>> /\ ~is_we(Head(owed)) =>
        \A l \in word_be(Head(owed)) :
            core_ack_data[l] = latest[Head(owed).loc][l]

(* The acknowledge has no name in it, the core pairs it with its oldest    *)
(* request.  A request is accepted only when none is owed or in the cycle  *)
(* of its acknowledge, and each is acknowledged once.                      *)
OneRequestInFlight ==
    /\ owed = IF Busy THEN <<s1_req>> ELSE <<>>
    /\ Busy => (core_req_ack <=> ~stall)
    /\ ~Busy => ~core_req_ack

(* A line is in one way at most; one_hot_num would mix two way numbers.    *)
OneWayHits ==
    \A i \in Sets, v, w \in Ways : ld[v][i] = ld[w][i] /\ ld[v][i] # None => v = w

(* A store is still on its way to the data memory: deferred, or in the     *)
(* first cycle of S1.                                                      *)
StorePending(loc, l) == /\ del_val /\ del_buf.loc = loc /\ l \in word_be(del_buf)
                        /\ del_dm_wr \/ del_buf_need_dm_wr

(* A valid line differs from memory in program order in nothing but the    *)
(* bytes of the one store that is pending in the delayed buffer.           *)
LinesAreCurrent ==
    \A w \in Ways, i \in Sets, k \in Words : ld[w][i] # None =>
        LET loc == [tag |-> ld[w][i], idx |-> i, word |-> k]
        IN  \A l \in Lanes : \/ dm[w][i][k][l] = latest[loc][l]
                             \/ StorePending(loc, l)

(* The store that waits in the buffer still has its line: no refill        *)
(* replaced it since the hit, so the deferred write does not land in the   *)
(* line of another address.                                                *)
DeferredStoreHasItsLine ==
    del_dm_wr => /\ del_val /\ del_way # {}
                 /\ \A w \in del_way : ld[w][del_buf.loc.idx] = del_buf.loc.tag

(* Write-through: memory lags behind program order by no more than the     *)
(* bytes of the store in S1 that the MAU has not acknowledged.             *)
MemoryIsCurrent ==
    \A loc \in Loc, l \in Lanes : mem[loc][l] # latest[loc][l] =>
        s1_val /\ is_we(s1_req) /\ s1_req.loc = loc /\ l \in word_be(s1_req)

(* Every accepted request is acknowledged, as long as the MAU serves it.   *)
RequestsAreAcknowledged == (owed # <<>>) ~> core_req_ack
=============================================================================
