-------------------------------- MODULE L1Mau --------------------------------
(***************************************************************************)
(* The memory access unit of rtl/l1_cache/l1_mau.v between the two caches  *)
(* and the Wishbone bus.  One step is one clock edge.  Requests of the     *)
(* data and the instruction cache are arbitrated into a header FIFO and,   *)
(* for writes, a data FIFO; the TR machine turns headers into bus beats;   *)
(* the acknowledge FIFO remembers whose answer comes next, and the ACK     *)
(* machine collects a line in a shift register.                            *)
(*                                                                         *)
(* An address is the number of a word; the data of a word is named by its  *)
(* address, so misdelivered data is visible.  Byte enables are left out.   *)
(***************************************************************************)
EXTENDS Integers, Sequences

CONSTANTS LineWords,  (* TR_CNT_MAX, words in a cache line                 *)
          DRequests,  (* requests of the data cache: write or read, cached *)
                      (* or not, and the address (a cached read's is that  *)
                      (* of a line)                                        *)
          IRequests,  (* addresses of the lines the instruction cache asks *)
                      (* for                                               *)
          None        (* no request, and the data bus of a write answer    *)

Request == [we : BOOLEAN, nc : BOOLEAN, addr : Nat]

ASSUME LineAssumption    == LineWords \in Nat \ {0}
ASSUME RequestAssumption == DRequests \subseteq Request /\ IRequests \subseteq Nat
ASSUME NoneAssumption    == None \notin Nat /\ None \notin Request

HdrDepth == 4
DatDepth == 2
AckDepth == 4

Grant   == [type : {"I", "D"}, wr : BOOLEAN, nc : BOOLEAN]
Answer  == [type : {"I", "D"}, wr : BOOLEAN, nc : BOOLEAN, cnt : 0 .. LineWords - 1]

VARIABLES dreq, ireq,          (* the request ports, None when not valid   *)
          hdr, dat, ack_buf,   (* the three sync_fifo buffers              *)
          d_acc, i_acc,        (* d_req_rd_accepted_r, i_req_rd_accepted_r *)
          tr_state, tr_addr, tr_cnt,
          ack_state, ack_cnt, ack_r, ack_data,
          bus                  (* beats the bus took and has not answered  *)

ports   == <<dreq, ireq>>
bufs    == <<hdr, dat, ack_buf>>
trVars  == <<tr_state, tr_addr, tr_cnt>>
ackVars == <<ack_state, ack_cnt, ack_r, ack_data>>
vars    == <<ports, bufs, d_acc, i_acc, trVars, ackVars, bus>>

Hdr == INSTANCE FifoQueue WITH Data <- Request, Depth <- HdrDepth,
                               q <- hdr, head <- Head(hdr)
Dat == INSTANCE FifoQueue WITH Data <- Nat, Depth <- DatDepth,
                               q <- dat, head <- Head(dat)
Ack == INSTANCE FifoQueue WITH Data <- Answer, Depth <- AckDepth,
                               q <- ack_buf, head <- Head(ack_buf)
-----------------------------------------------------------------------------
(* Arbitration: at most one request is accepted in a cycle, the data cache *)
(* first unless it is only waiting for the answer of an accepted read.     *)
room == ~Hdr!QFull(hdr) /\ ~Ack!QFull(ack_buf)

req_d_val == /\ dreq # None
             /\ room
             /\ dreq.we => ~Dat!QFull(dat)
             /\ ~d_acc

req_i_val == /\ ireq # None
             /\ room
             /\ dreq = None \/ d_acc
             /\ ~i_acc

req_val == req_d_val \/ req_i_val
req_wr  == req_d_val /\ dreq.we
req_nc  == req_d_val /\ dreq.nc

req_hdr_data == [we |-> req_wr, nc |-> req_nc,
                 addr |-> IF req_d_val THEN dreq.addr ELSE ireq]

w_ack_cntWrite == IF req_nc THEN 0 ELSE LineWords - 1
w_ack_cntBeats == IF req_nc \/ req_wr THEN 1 ELSE LineWords
w_ack_cnt      == IF req_nc \/ req_wr THEN 0 ELSE LineWords - 1
w_ack_data == [type |-> IF req_d_val THEN "D" ELSE "I",
               wr |-> req_wr, nc |-> req_nc, cnt |-> w_ack_cnt]

(* The combinational outputs: completion of the oldest answer, and the     *)
(* acknowledges to the caches.  A write is acknowledged when accepted.     *)
req_ack     == ack_state = "REC" /\ ack_cnt = 0
l1i_req_ack == req_ack /\ ack_r.type = "I"
l1d_rd_ack  == req_ack /\ ack_r.type = "D" /\ ~ack_r.wr
l1d_req_ack == req_wr \/ l1d_rd_ack
l1d_ack_nc  == (req_wr /\ req_nc) \/ ack_r.nc

AcceptedFlagsEarly ==
    /\ d_acc' = IF d_acc THEN ~l1d_rd_ack ELSE req_d_val /\ ~dreq.we
    /\ i_acc' = IF i_acc THEN ack_state # "REC" ELSE req_i_val
AcceptedFlagsOnRequest ==
    /\ d_acc' = IF d_acc THEN ~l1d_rd_ack ELSE req_d_val /\ ~dreq.we
    /\ i_acc' = IF i_acc THEN ~l1i_req_ack ELSE ireq # None
AcceptedFlags ==
    /\ d_acc' = IF d_acc THEN ~l1d_rd_ack ELSE req_d_val /\ ~dreq.we
    /\ i_acc' = IF i_acc THEN ~l1i_req_ack ELSE req_i_val
-----------------------------------------------------------------------------
(* The TR machine: one header at a time becomes LineWords beats or one.    *)
wb_stb == tr_state = "REQ"
wb_we  == Head(hdr).we

hdr_finished(stall) == wb_stb /\ tr_cnt = 0 /\ ~stall
dat_finishedAlways(stall) == hdr_finished(stall)
dat_finishedNotLast(stall) == wb_stb /\ tr_cnt # 0 /\ ~stall /\ wb_we
dat_finished(stall) == hdr_finished(stall) /\ wb_we

Beats(h) == IF h.nc \/ h.we THEN 0 ELSE LineWords - 1

TrIdle == /\ tr_state = "IDLE" /\ hdr = <<>>
          /\ UNCHANGED trVars

TrStart == /\ tr_state = "IDLE" /\ hdr # <<>>
           /\ tr_state' = "REQ"
           /\ tr_addr' = Head(hdr).addr
           /\ tr_cnt' = Beats(Head(hdr))

TrStall(stall) == /\ wb_stb /\ stall
                  /\ UNCHANGED trVars

TrBeatUnstalled(stall) == /\ wb_stb /\ tr_cnt # 0
                          /\ tr_addr' = tr_addr + 1
                          /\ tr_cnt' = tr_cnt - 1
                          /\ UNCHANGED tr_state

TrBeat(stall) == /\ wb_stb /\ ~stall /\ tr_cnt # 0
                 /\ tr_addr' = tr_addr + 1
                 /\ tr_cnt' = tr_cnt - 1
                 /\ UNCHANGED tr_state

TrLast(stall) == /\ wb_stb /\ ~stall /\ tr_cnt = 0
                 /\ tr_state' = "IDLE"
                 /\ UNCHANGED <<tr_addr, tr_cnt>>

Tr(stall) == TrIdle \/ TrStart \/ TrStall(stall) \/ TrBeat(stall) \/ TrLast(stall)
-----------------------------------------------------------------------------
(* The ACK machine: an answer beat opens the collection of the oldest      *)
(* request or continues the one that is open.                              *)
AckOpen == ack_state = "REC" /\ ack_cnt # 0

AckNone(ack) == /\ ~ack
                /\ ack_state' = IF AckOpen THEN "REC" ELSE "IDLE"
                /\ UNCHANGED ack_cnt

AckFirst(ack) == /\ ack /\ ~AckOpen
                 /\ ack_state' = "REC"
                 /\ ack_cnt' = Head(ack_buf).cnt

AckMore(ack) == /\ ack /\ AckOpen
                /\ ack_state' = "REC"
                /\ ack_cnt' = ack_cnt - 1

r_ackFirst(ack) == ack /\ ~AckOpen
(* The oldest entry leaves the buffer with the last beat of its answer.    *)
r_ack(ack) == IF ack /\ ~AckOpen THEN Head(ack_buf).cnt = 0
                                 ELSE ack /\ ack_cnt = 1

AckMachine(ack) ==
    /\ AckNone(ack) \/ AckFirst(ack) \/ AckMore(ack)
    /\ ack_r' = IF r_ack(ack)
                THEN [type |-> Head(ack_buf).type, wr |-> Head(ack_buf).wr,
                      nc |-> Head(ack_buf).nc]
                ELSE ack_r

(* The line is shifted in from the top, also by the answer of a write.     *)
Shift(ack) == ack_data' =
    IF ack THEN Append(Tail(ack_data), IF Head(bus).we THEN None ELSE Head(bus).adr)
           ELSE ack_data

Buffers(stall, ack) ==
    /\ hdr' = Hdr!After(hdr, req_val, hdr_finished(stall), req_hdr_data)
    /\ dat' = Dat!After(dat, req_wr, dat_finished(stall), dreq.addr)
    /\ ack_buf' = Ack!After(ack_buf, req_val, r_ack(ack), w_ack_data)
-----------------------------------------------------------------------------
(* The environment.  The bus (selen_top's crossbar and memories) takes a   *)
(* beat that it does not stall and answers the beats in order, one or more *)
(* cycles later.  A cache holds a request until it is acknowledged; the    *)
(* cycle after the acknowledge of a read it has none.                      *)
Bus(stall, ack) ==
    LET left == IF ack THEN Tail(bus) ELSE bus
    IN bus' = IF wb_stb /\ ~stall
              THEN Append(left, [we |-> wb_we, adr |-> tr_addr]) ELSE left

DCache == \/ dreq # None /\ ~l1d_req_ack /\ UNCHANGED dreq
          \/ l1d_rd_ack /\ dreq' = None
          \/ /\ ~l1d_rd_ack
             /\ dreq = None \/ req_wr
             /\ dreq' \in DRequests \cup {None}

ICache == \/ ireq # None /\ ~l1i_req_ack /\ UNCHANGED ireq
          \/ l1i_req_ack /\ ireq' = None
          \/ ~l1i_req_ack /\ ireq = None /\ ireq' \in IRequests \cup {None}

Clock(stall, ack) ==
    /\ ack => bus # <<>>
    /\ AcceptedFlags
    /\ Tr(stall)
    /\ AckMachine(ack)
    /\ Shift(ack)
    /\ Buffers(stall, ack)
    /\ Bus(stall, ack)
    /\ DCache
    /\ ICache

(* ack_type_r, ack_wr_r and ack_nc_r are not reset.                        *)
Init == /\ dreq = None /\ ireq = None
        /\ hdr = <<>> /\ dat = <<>> /\ ack_buf = <<>>
        /\ d_acc = FALSE /\ i_acc = FALSE
        /\ tr_state = "IDLE" /\ tr_addr = 0 /\ tr_cnt = 0
        /\ ack_state = "IDLE" /\ ack_cnt = 0
        /\ ack_r \in Grant
        /\ ack_data = [k \in 1 .. LineWords |-> None]
        /\ bus = <<>>

Next == \E stall, ack \in BOOLEAN : Clock(stall, ack)

Spec == Init /\ [][Next]_vars

(* The clock runs (an edge that can change a register of the unit is       *)
(* taken; the caches need not ask for anything), the bus does not stall a  *)
(* strobe for ever and answers every beat it took.                         *)
Fairness == /\ WF_<<bufs, d_acc, i_acc, trVars, ackVars>>(Next)
            /\ WF_vars(wb_stb /\ \E ack \in BOOLEAN : Clock(FALSE, ack))
            /\ WF_vars(\E stall \in BOOLEAN : bus # <<>> /\ Clock(stall, TRUE))

FairSpec == Spec /\ Fairness
-----------------------------------------------------------------------------
TypeOK == /\ dreq \in DRequests \cup {None}
          /\ ireq \in IRequests \cup {None}
          /\ hdr \in Seq(Request) /\ Len(hdr) <= HdrDepth
          /\ dat \in Seq(Nat) /\ Len(dat) <= DatDepth
          /\ ack_buf \in Seq(Answer) /\ Len(ack_buf) <= AckDepth
          /\ d_acc \in BOOLEAN /\ i_acc \in BOOLEAN
          /\ tr_state \in {"IDLE", "REQ"} /\ tr_addr \in Nat
          /\ tr_cnt \in 0 .. LineWords - 1
          /\ ack_state \in {"IDLE", "REC"} /\ ack_cnt \in 0 .. LineWords - 1
          /\ ack_r \in Grant
          /\ ack_data \in Seq(Nat \cup {None}) /\ Len(ack_data) = LineWords
          /\ bus \in Seq([we : BOOLEAN, adr : Nat])

(* Answers that are still in the acknowledge buffer and belong to a read   *)
(* of the given port.                                                      *)
IsRead(e, type) == e.type = type /\ (type = "D" => ~e.wr)
Reads(s, type)  == {k \in 1 .. Len(s) : IsRead(s[k], type)}
AtMostOne(S)    == \A j, k \in S : j = k

(* One read at a time.  While the accepted flag of a port is set, exactly  *)
(* one answer is owed to it, in the buffer or being delivered, and the     *)
(* port still asks; otherwise none is owed.  A flag that is dropped early  *)
(* would let a second read in, whose line could be taken for the first's.  *)
OwesOne(type, accepted, delivered) ==
    /\ AtMostOne(Reads(ack_buf, type))
    /\ accepted <=> (Reads(ack_buf, type) # {} \/ delivered)
    /\ ~(Reads(ack_buf, type) # {} /\ delivered)
OneReadPerPort ==
    /\ OwesOne("D", d_acc, l1d_rd_ack)
    /\ OwesOne("I", i_acc, l1i_req_ack)
    /\ d_acc => dreq # None /\ ~dreq.we
    /\ i_acc => ireq # None

(* The acknowledge that a cache sees belongs to the request on its port:   *)
(* the shift register holds the words of exactly the line it asked for, in *)
(* ascending order, whatever was accepted, sent and answered meanwhile.  A *)
(* single word arrives at the top of the register.                         *)
LineAt(base) == [k \in 1 .. LineWords |-> base + k - 1]
AnswerIsWhatWasAsked ==
    /\ l1i_req_ack => ireq # None /\ ack_data = LineAt(ireq)
    /\ l1d_rd_ack  => /\ dreq # None /\ ~dreq.we
                      /\ l1d_ack_nc = dreq.nc
                      /\ IF dreq.nc THEN ack_data[LineWords] = dreq.addr
                                    ELSE ack_data = LineAt(dreq.addr)

(* What the FIFOs hold in sum.  Neither has more than four entries.        *)
OwedAt(s, k)   == IF k \in 1 .. Len(s) THEN s[k].cnt + 1 ELSE 0
Owed(s)        == OwedAt(s, 1) + OwedAt(s, 2) + OwedAt(s, 3) + OwedAt(s, 4)
ToSendAt(s, k) == IF k \in 1 .. Len(s) THEN Beats(s[k]) + 1 ELSE 0
ToSend(s)      == ToSendAt(s, 1) + ToSendAt(s, 2) + ToSendAt(s, 3) + ToSendAt(s, 4)
WriteAt(s, k)  == IF k \in 1 .. Len(s) /\ s[k].we THEN 1 ELSE 0
Writes(s)      == WriteAt(s, 1) + WriteAt(s, 2) + WriteAt(s, 3) + WriteAt(s, 4)

(* Conservation of beats: the answers the ACK machine still waits for are  *)
(* the beats on the bus and those the TR machine has yet to send.  The two *)
(* machines run on separate FIFOs and count on their own; with one beat    *)
(* too many or too few every later answer would be cut at the wrong place. *)
AnswersOwed == IF AckOpen THEN Owed(ack_buf) - OwedAt(ack_buf, 1) + ack_cnt
                          ELSE Owed(ack_buf)
BeatsToSend == IF wb_stb THEN ToSend(hdr) - ToSendAt(hdr, 1) + tr_cnt + 1
                         ELSE ToSend(hdr)
BeatsAreConserved == AnswersOwed = Len(bus) + BeatsToSend

(* There is one word of data for every buffered write header, although the *)
(* two FIFOs have different depths, so data is never taken from an empty   *)
(* or left in a full buffer.                                               *)
DataPerWrite == Len(dat) = Writes(hdr)

(* A write leaves on the bus with its own data.                            *)
WriteMeetsItsData == wb_stb /\ wb_we => dat # <<>> /\ Head(dat) = tr_addr

(* No FIFO is popped when it is empty (SyncFifo's output would be wrong in *)
(* the next cycle), and the bus cycle wb_cyc_o = ~ack_buf_empty covers     *)
(* every strobe and every answer.                                          *)
BuffersNeverUnderrun ==
    /\ wb_stb => hdr # <<>> /\ ack_buf # <<>>
    /\ wb_stb /\ wb_we => dat # <<>>
    /\ bus # <<>> \/ AckOpen => ack_buf # <<>>

(* The inductive invariant of the proofs.                                  *)
IInv == /\ TypeOK
        /\ OneReadPerPort
        /\ BeatsAreConserved
        /\ DataPerWrite
        /\ BuffersNeverUnderrun

(* A data request is acknowledged, a read by its answer and a write when   *)
(* it is taken; a fetch that was accepted is answered.                     *)
RequestsAreServed == /\ (dreq # None) ~> l1d_req_ack
                     /\ i_acc ~> l1i_req_ack

(* An instruction fetch has the lower priority: it is served if the data   *)
(* port eventually stops asking.                                           *)
FetchServedWhenDataIsQuiet ==
    <>[](dreq = None) => ((ireq # None) ~> l1i_req_ack)
=============================================================================
