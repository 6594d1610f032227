--------------------------- MODULE MCSwitchInput ---------------------------
(* Small instances of SwitchInput; nothing in it counts, so the constants   *)
(* only choose which contexts and which of the two switches take part.      *)
EXTENDS SwitchInput
=============================================================================
