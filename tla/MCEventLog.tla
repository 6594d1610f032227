----------------------------- MODULE MCEventLog -----------------------------
(* Small instances of EventLog: a ring of three records of two bytes, at an  *)
(* address where the second and the third lie on either side of a carry into *)
(* the high byte of the address (a byte has four values).                    *)
EXTENDS EventLog
=============================================================================
