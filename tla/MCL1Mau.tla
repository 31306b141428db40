------------------------------- MODULE MCL1Mau -------------------------------
(* Lines of two words.  The data cache reads the line at 0, reads word 1   *)
(* uncached and writes words 0 and 1; the instruction cache fetches the    *)
(* line at 2.                                                              *)
EXTENDS L1Mau

MCDRequests == {[we |-> FALSE, nc |-> FALSE, addr |-> 0],
                [we |-> FALSE, nc |-> TRUE,  addr |-> 1],
                [we |-> TRUE,  nc |-> FALSE, addr |-> 0],
                [we |-> TRUE,  nc |-> TRUE,  addr |-> 1]}
MCIRequests == {2}
=============================================================================
