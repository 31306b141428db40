----------------------------- MODULE MCFirmware ------------------------------
(* Images of no word, of one and a half, and of two; a flash of two words  *)
(* that announces the longest copy that ends, and one that is erased. A    *)
(* flash address turns over before a size does. A counter of eight values  *)
(* in each half.                                                           *)
EXTENDS Firmware
MCImages == {<<0, 7>>, <<6, 1, 2, 3>>, <<8, 5, 6, 7>>, <<28, 1>>, <<31, 31>>}
=============================================================================
