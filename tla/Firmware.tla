------------------------------ MODULE Firmware -------------------------------
(***************************************************************************)
(* The firmware of the board: the boot loader copies an image and jumps to *)
(* it; the image is the test program.                                      *)
(***************************************************************************)
EXTENDS SpiBoot, Blink

vars == <<bootVars, blinkVars>>

Init == BootInit /\ BlinkInit

Run == at = "jump" /\ ~ missed /\ Blinks /\ UNCHANGED bootVars

Next == \/ (Boots \/ Shift) /\ UNCHANGED blinkVars
        \/ Run

(* The processor and the clock of the controller do not stop.              *)
Spec == Init /\ [][Next]_vars /\ WF_bootVars(Boots) /\ WF_bootVars(Shift)
=============================================================================
