------------------------------ MODULE MCSiren ------------------------------
(* Small instances of Siren.  With one TIM5 tick to the second, delays of   *)
(* 0, 1 and 2 give a period that is over at once, one that ends at its      *)
(* first tick and one with a tick in the middle.                            *)
EXTENDS Siren
=============================================================================
