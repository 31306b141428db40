-------------------------------- MODULE WbCom --------------------------------
(***************************************************************************)
(* The Wishbone crossbar (rtl/wb_com): two masters, two slaves. A request  *)
(* is buffered on its master's side, in a FIFO per slave; a slave takes    *)
(* the oldest of the two heads; its answers are buffered for each master,  *)
(* which takes them in the order of its requests.                          *)
(*                                                                         *)
(* A step is a clock edge. Operators without a prime are wires, named as   *)
(* in the code. A one-hot position register is the number of its bit from  *)
(* 1, or 0; the bits of a direction register beyond the marked one, which  *)
(* are never looked at, are kept FALSE.                                    *)
(*                                                                         *)
(* A slave takes several requests before it answers the first, as another  *)
(* crossbar does, and may stall or report an error without an acknowledge. *)
(* The code takes a header back in neither case, and what it then promises *)
(* of the answers is void: astray counts the cycles from the first.        *)
(***************************************************************************)
EXTENDS Integers, Sequences

CONSTANTS FIFO_ASIZE,             (* WB_FIFO_ASIZE                         *)
          ADDR_LO, ADDR_HI,       (* range of each slave                   *)
          Requests,               (* what each master may ask: addr and we *)
          ReadOnly,               (* slaves that answer a write by an error*)
          Delay,                  (* a slave answers within so many cycles *)
          Stalling,               (* slaves that may stall                 *)
          ErrOnly,                (* slaves with errors that come alone    *)
          StrayCycles,            (* cycles followed after that            *)
          None

Master == {0, 1}
Slave  == {0, 1}
Hit(s, a) == ADDR_LO[s] <= a /\ a <= ADDR_HI[s]

(* The shifts of the direction registers are written for so many bits.     *)
DirBits == 8

ASSUME SizeAssumption  == FIFO_ASIZE \in 1 .. 2
ASSUME RangeAssumption == \A m \in Master : \A r \in Requests[m] : ~ (Hit(0, r.addr) /\ Hit(1, r.addr))
ASSUME RequestAssumption ==
    \A m \in Master : \A r \in Requests[m] : r = [addr |-> r.addr, we |-> r.we] /\ r.we \in BOOLEAN

VARIABLES req,                    (* what a master offers (cyc and stb)    *)
          m_dir_sel, m_err_sel, m_dir_fst,
          time_tag,
          headers, data,          (* FIFOs of a master for a slave         *)
          s_dir_sel, s_dir_fst,
          answers,                (* FIFOs of a slave for a master         *)
          held, age,              (* what a slave has taken and not yet    *)
                                  (* answered, and for how many cycles     *)
          astray,                 (* history: cycles since the marks went  *)
                                  (* wrong, or 0;                          *)
          owed,                   (* requests accepted and not             *)
                                  (* answered,                             *)
          turns,                  (* for each slave the masters whose      *)
                                  (* requests wait, in the order accepted, *)
          waited                  (* and cycles a master waits for an answer*)

vars == <<req, m_dir_sel, m_err_sel, m_dir_fst, time_tag, headers, data, s_dir_sel, s_dir_fst,
          answers, held, age, astray, owed, turns, waited>>

Depth   == 2^FIFO_ASIZE
BScale  == 2^(FIFO_ASIZE + 1)     (* WB_M_BSCALE, and depth of the answers *)
HalfTag == 2^(FIFO_ASIZE + 1)     (* time_tag has one bit more             *)

(* Powers of two, as a prover without exponents needs to be told.          *)
ASSUME PowerAssumption == Depth \in Nat \ {0, 1} /\ BScale = 2 * Depth /\ HalfTag = 2 * Depth

(* The marks of a slave have no guard of their own: it must answer before  *)
(* there are more of its requests than they can count.                     *)
ASSUME DelayAssumption == BScale <= DirBits /\ Delay \in [Slave -> 0 .. BScale]
ASSUME StrayAssumption == StrayCycles \in Nat \ {0}

------------------------------------------------------------------------------
(* Both sides keep a direction for every request in flight and a mark at   *)
(* the oldest; requests shift in, answers move the mark down.              *)
Marked(sel, fst) == fst > 0 /\ sel[fst]
MarkAfterFirst(fst, in, out) ==
    IF out THEN (IF fst = 0 THEN 0 ELSE fst - 1)
    ELSE IF in THEN (fst + 1) % (BScale + 1) ELSE fst
MarkAfter(fst, in, out) ==
    IF in = out THEN fst
    ELSE IF in THEN (fst + 1) % (BScale + 1)
    ELSE IF fst = 0 THEN 0 ELSE fst - 1
ShiftIn(sel, fst, in, bit) ==
    [n \in 1 .. BScale |-> /\ n <= fst /\ n <= DirBits
                           /\ IF ~ in THEN sel[n] ELSE IF n = 1 THEN bit ELSE sel[n - 1]]

------------------------------------------------------------------------------
(* wb_com_master.v                                                         *)
m_wb_stall_iNoMark(m) == \E s \in Slave : Hit(s, req[m].addr) /\ Len(headers[m][s]) = Depth
m_wb_stall_i(m) == \/ \E s \in Slave : Hit(s, req[m].addr) /\ Len(headers[m][s]) = Depth
                   \/ m_dir_fst[m] = BScale
Accepted(m)     == req[m] # None /\ ~ m_wb_stall_i(m)
hwren(m, s)     == Accepted(m) /\ Hit(s, req[m].addr)

m_error(m) == Marked(m_err_sel[m], m_dir_fst[m])
m_arb(m)   == IF Marked(m_dir_sel[m], m_dir_fst[m]) THEN 1 ELSE 0
Waiting(m) == answers[m_arb(m)][m]                (* s0_to_m or s1_to_m    *)

m_wb_ack_i(m) == ~ m_error(m) /\ Waiting(m) # <<>> /\ ~ Head(Waiting(m)).err
m_wb_err_i(m) == m_error(m) \/ (Waiting(m) # <<>> /\ Head(Waiting(m)).err)
m_wb_dat_i(m) == Head(Waiting(m)).dat
Answered(m)   == m_wb_ack_i(m) \/ m_wb_err_i(m)
drden(s, m)   == m_arb(m) = s /\ Waiting(m) # <<>> /\ ~ m_error(m)

MasterMarks ==
    /\ m_dir_fst' = [m \in Master |-> MarkAfter(m_dir_fst[m], Accepted(m), Answered(m))]
    /\ m_dir_sel' = [m \in Master |-> ShiftIn(m_dir_sel[m], m_dir_fst'[m], Accepted(m), hwren(m, 1))]
    /\ m_err_sel' = [m \in Master |-> ShiftIn(m_err_sel[m], m_dir_fst'[m], Accepted(m),
                                              \A s \in Slave : ~ hwren(m, s))]

TimeTag == time_tag' = IF \E m \in Master : Accepted(m) THEN (time_tag + 1) % (2 * HalfTag) ELSE time_tag

------------------------------------------------------------------------------
(* wb_com_slave.v: the older of two heads goes first, by tags that wrap.   *)
hempty(m, s) == headers[m][s] = <<>>
Tag(m, s)    == Head(headers[m][s]).tag
OlderNever(s) == FALSE
OlderPlain(s) == Tag(1, s) < Tag(0, s)
Older(s) == LET low1 == Tag(1, s) % HalfTag
                low0 == Tag(0, s) % HalfTag
            IN IF Tag(1, s) \div HalfTag # Tag(0, s) \div HalfTag THEN low1 > low0 ELSE low1 < low0

m1_dir(s)   == hempty(0, s) \/ (~ hempty(1, s) /\ Older(s))
s_wb_stb(s) == ~ hempty(0, s) \/ ~ hempty(1, s)
hrden(m, s) == s_wb_stb(s) /\ m1_dir(s) = (m = 1)

Sender(s)  == IF m1_dir(s) THEN 1 ELSE 0
Offered(s) == LET h == Head(headers[Sender(s)][s])
              IN [from |-> Sender(s), we |-> h.we,
                  dat  |-> IF h.we THEN Head(data[Sender(s)][s]) ELSE h.addr]
Taken(s, stalls) == s_wb_stb(s) /\ s \notin stalls

------------------------------------------------------------------------------
(* The slaves of wb_cpu_xbar, a memory and another crossbar, and those of  *)
(* that one answer their requests in order, in the same cycle or later,    *)
(* with a word that says what was read or written where. The ROM refuses a *)
(* write, with ack and err; a crossbar passes that on, and an error of a   *)
(* peripheral, as err alone.                                               *)
InSlave(s, stalls) == IF Taken(s, stalls) THEN Append(held[s], Offered(s)) ELSE held[s]
Ages(s, stalls)    == IF Taken(s, stalls) THEN Append(age[s], 0) ELSE age[s]
Refused(s, stalls) == Head(InSlave(s, stalls)).we /\ s \in ReadOnly
Response(s, stalls, acks) == [err |-> Refused(s, stalls) \/ s \notin acks, dat |-> Head(InSlave(s, stalls)).dat]

MayAnswer(s, stalls)  == InSlave(s, stalls) # <<>>
MustAnswer(s, stalls) == Head(Ages(s, stalls)) >= Delay[s]
MayAck(s, stalls)     == s \in ErrOnly => ~ Refused(s, stalls)
SlavesAnswer(stalls, replies) ==
    /\ held' = [s \in Slave |-> IF s \in replies THEN Tail(InSlave(s, stalls)) ELSE InSlave(s, stalls)]
    /\ age'  = [s \in Slave |-> LET rest == IF s \in replies THEN Tail(Ages(s, stalls)) ELSE Ages(s, stalls)
                                IN [i \in 1 .. Len(rest) |-> rest[i] + 1]]

SlaveMarks(stalls, acks) ==
    /\ s_dir_fst' = [s \in Slave |-> MarkAfter(s_dir_fst[s], Taken(s, stalls), s \in acks)]
    /\ s_dir_sel' = [s \in Slave |-> ShiftIn(s_dir_sel[s], s_dir_fst'[s], Taken(s, stalls), m1_dir(s))]

(* An answer is for the master of the oldest request, or of the request    *)
(* that is being offered.                                                  *)
fifo_wren(s, m, replies) ==
    /\ s \in replies
    /\ IF s_dir_fst[s] # 0 THEN Marked(s_dir_sel[s], s_dir_fst[s]) = (m = 1) ELSE hrden(m, s)

------------------------------------------------------------------------------
(* wb_com_fifo.v: a queue that is read and written at one edge. Nothing in *)
(* it stops a write when it is full, or a read when it is empty.           *)
Fifo(q, rd, wr, word) == LET rest == IF rd THEN Tail(q) ELSE q
                         IN IF wr THEN Append(rest, word) ELSE rest

(* Header and data are read whatever the slave says.                       *)
Fifos(stalls, replies, acks) ==
    /\ headers' = [m \in Master |-> [s \in Slave |->
          Fifo(headers[m][s], hrden(m, s), hwren(m, s), [addr |-> req[m].addr, we |-> req[m].we, tag |-> time_tag])]]
    /\ data' = [m \in Master |-> [s \in Slave |->
          Fifo(data[m][s], hrden(m, s) /\ Head(headers[m][s]).we, hwren(m, s) /\ req[m].we, req[m].addr)]]
    /\ answers' = [s \in Slave |-> [m \in Master |->
          Fifo(answers[s][m], drden(s, m), fifo_wren(s, m, replies), Response(s, stalls, acks))]]

(* A master (external) holds a request until it is accepted.               *)
MayAsk(m)  == IF req[m] # None /\ ~ Accepted(m) THEN {req[m]} ELSE Requests[m] \cup {None}
MastersAsk == \E r0 \in MayAsk(0), r1 \in MayAsk(1) : req' = [m \in Master |-> IF m = 0 THEN r0 ELSE r1]

(* An offered request is lost, or a mark stays where it was.               *)
GoesAstray(stalls, replies, acks) == stalls # {} \/ acks # replies

History(stalls, replies, acks) ==
    /\ astray' = IF astray > 0 \/ GoesAstray(stalls, replies, acks) THEN astray + 1 ELSE 0
    /\ waited' = [m \in Master |-> IF astray' > 0 \/ Answered(m) \/ (req[m] = None /\ owed[m] = <<>>) THEN 0
                                   ELSE waited[m] + 1]
    /\ owed' = [m \in Master |-> LET rest == IF Answered(m) THEN Tail(owed[m]) ELSE owed[m]
                                 IN IF astray' > 0 THEN <<>>
                                    ELSE IF Accepted(m) THEN Append(rest, req[m]) ELSE rest]
    /\ turns' = [s \in Slave |->
          LET gone  == {m \in Master : hrden(m, s)}
              first == IF turns[s] = <<>> THEN {} ELSE Head(turns[s]) \ gone
              rest  == IF turns[s] = <<>> THEN <<>>
                       ELSE IF first = {} THEN Tail(turns[s]) ELSE <<first>> \o Tail(turns[s])
              new   == {m \in Master : hwren(m, s)}
          IN IF new = {} THEN rest ELSE Append(rest, new)]

Init ==
    /\ req = [m \in Master |-> None] /\ time_tag = 0
    /\ m_dir_fst = [m \in Master |-> 0] /\ s_dir_fst = [s \in Slave |-> 0]
    /\ m_dir_sel = [m \in Master |-> [n \in 1 .. BScale |-> FALSE]] /\ m_err_sel = m_dir_sel
    /\ s_dir_sel = [s \in Slave |-> [n \in 1 .. BScale |-> FALSE]]
    /\ headers = [m \in Master |-> [s \in Slave |-> <<>>]] /\ data = headers
    /\ answers = [s \in Slave |-> [m \in Master |-> <<>>]]
    /\ held = [s \in Slave |-> <<>>] /\ age = held /\ turns = held
    /\ owed = [m \in Master |-> <<>>] /\ waited = [m \in Master |-> 0] /\ astray = 0

Edge(stalls, replies, acks) ==
    /\ astray < StrayCycles
    /\ SlavesAnswer(stalls, replies) /\ MasterMarks /\ TimeTag /\ SlaveMarks(stalls, acks)
    /\ Fifos(stalls, replies, acks) /\ History(stalls, replies, acks) /\ MastersAsk

(* Every request taken is answered in time, and only those.                *)
Replies(stalls) == LET may  == {s \in Slave : MayAnswer(s, stalls)}
                       must == {s \in may : MustAnswer(s, stalls)}
                   IN {replies \in SUBSET may : must \subseteq replies}
Acks(stalls, replies) == LET may  == {s \in replies : MayAck(s, stalls)}
                             must == replies \ ErrOnly
                         IN {acks \in SUBSET may : must \subseteq acks}
Next == \E stalls \in SUBSET {s \in Stalling : s_wb_stb(s)} :
           \E replies \in Replies(stalls) : \E acks \in Acks(stalls, replies) : Edge(stalls, replies, acks)

Spec == Init /\ [][Next]_vars

------------------------------------------------------------------------------
(* d holds a word for each write among the headers h, in their order.      *)
WordsOfWrites(d, h) ==
    \E f \in [1 .. Len(d) -> 1 .. Len(h)] :
       /\ \A i, j \in 1 .. Len(d) : i < j => f[i] < f[j]
       /\ \A k \in 1 .. Len(h) : h[k].we <=> \E i \in 1 .. Len(d) : f[i] = k
       /\ \A i \in 1 .. Len(d) : d[i] = h[f[i]].addr

(* No header is written to a full FIFO, and the data of a write waits with *)
(* its header. Until the crossbar goes astray, neither is an answer, whose *)
(* FIFOs do not look at full, and both marks count what is in flight, so   *)
(* that no direction is shifted out.                                       *)
NothingOverflows ==
    /\ \A m \in Master, s \in Slave :
          Len(headers[m][s]) <= Depth /\ WordsOfWrites(data[m][s], headers[m][s])
    /\ astray = 0 =>
          /\ \A m \in Master, s \in Slave : Len(answers[s][m]) <= BScale
          /\ \A m \in Master : m_dir_fst[m] = Len(owed[m])
          /\ \A s \in Slave : s_dir_fst[s] = Len(held[s])

(* A master gets one answer for each request, in the order of its requests *)
(* whichever slaves they are for, of its own request, and an error exactly *)
(* for an address of no slave or a refused write: until the crossbar goes  *)
(* astray.                                                                 *)
AnswersAreOwed ==
    \A m \in Master : astray = 0 /\ Answered(m) =>
        /\ owed[m] # <<>>
        /\ LET r == Head(owed[m])
               s == {t \in Slave : Hit(t, r.addr)}
           IN /\ m_wb_err_i(m) <=> s = {} \/ (r.we /\ s \subseteq ReadOnly)
              /\ s # {} => m_wb_dat_i(m) = r.addr

(* Requests of both masters reach a slave in the order in which they were  *)
(* accepted: a read of one sees the earlier write of the other.            *)
OldestFirst == \A s \in Slave : s_wb_stb(s) =>
                  \E m \in Master : hrden(m, s) /\ m \in Head(turns[s])

(* At most AnswerTime cycles in a row bring no answer to a master that     *)
(* waits, however busy the other master is: no request starves in a FIFO,  *)
(* and no answer waits behind one that was lost or went to another master. *)
(* A request waits for the headers of the other master that were there     *)
(* before it, for its own cycle on the bus and for the slave; a first one  *)
(* also for the cycle that accepts it.                                     *)
LongestDelay      == IF Delay[0] < Delay[1] THEN Delay[1] ELSE Delay[0]
AnswerTime        == Depth + 1 + LongestDelay
AnswersComeInTime == \A m \in Master : waited[m] <= AnswerTime
=============================================================================
