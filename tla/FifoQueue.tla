------------------------------ MODULE FifoQueue ------------------------------
(***************************************************************************)
(* What a user of rtl/lib/sync_fifo.v relies on: a bounded first-in        *)
(* first-out queue whose output port shows the oldest element whenever     *)
(* there is one.  Every buffer of the memory access unit is an instance of *)
(* this queue; SyncFifo shows that the circuit implements it.              *)
(***************************************************************************)
EXTENDS Naturals, Sequences

CONSTANTS Data,   (* the words a buffer can hold                           *)
          Depth   (* how many of them, 2^AWIDTH in the circuit             *)

VARIABLES q,      (* the buffered words, oldest first                      *)
          head    (* the output port fifo_rd                               *)

qvars == <<q, head>>

QFull(s)  == Len(s) = Depth
QEmpty(s) == s = <<>>

(***************************************************************************)
(* One clock edge on a queue s: a pop when asked for and possible, a push  *)
(* when asked for and possible, both judged on the occupancy before the    *)
(* edge.                                                                   *)
(***************************************************************************)
Popped(s, re)     == IF re /\ ~QEmpty(s) THEN Tail(s) ELSE s
After(s, we, re, wd) ==
    IF we /\ ~QFull(s) THEN Append(Popped(s, re), wd) ELSE Popped(s, re)

Init == /\ q = <<>>
        /\ head \in Data

Tick(we, re, wd) ==
    /\ q' = After(q, we, re, wd)
    /\ head' \in Data
    /\ ~QEmpty(q') => head' = Head(q')

Next == \E we, re \in BOOLEAN, wd \in Data :
            /\ re => ~QEmpty(q)
            /\ Tick(we, re, wd)

Spec == Init /\ [][Next]_qvars
=============================================================================
