------------------------------- MODULE MCWbCom -------------------------------
(* FIFOs of two headers, directions of four requests, tags of three bits.  *)
(* Slave 0 answers at once, may stall and may report an error without ack; *)
(* slave 1 answers within two cycles of the request and refuses writes.    *)
(* Master 0 writes to both, master 1 reads from slave 1.                   *)
EXTENDS WbCom

MCLo == [s \in Slave |-> IF s = 0 THEN 0 ELSE 3]
MCHi == [s \in Slave |-> IF s = 0 THEN 1 ELSE 3]
MCDelay == [s \in Slave |-> IF s = 0 THEN 0 ELSE 2]
Ask(a, w) == [addr |-> a, we |-> w]
MCRequests == [m \in Master |-> IF m = 0 THEN {Ask(0, TRUE), Ask(3, TRUE)} ELSE {Ask(3, FALSE)}]
=============================================================================
