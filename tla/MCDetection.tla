---------------------------- MODULE MCDetection ----------------------------
(* Small instances of Verification, and so of Detection: a u8 counter       *)
(* counts to 5, a log ring holds 2 records and the history one tick.        *)
(* Sensitivity 5 then stands for 255, the one that lets a counter wrap.     *)
EXTENDS Verification
=============================================================================
