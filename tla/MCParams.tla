------------------------------ MODULE MCParams ------------------------------
(***************************************************************************)
(* Small instances of Params.  safety: two numbers, of which operators can *)
(* choose the other zone's, and a duration of 258 s, which differs from    *)
(* the factory's 30 s in both bytes and has 0xFF in neither.               *)
(* edit: the LCD alone, with two durations.                                *)
(***************************************************************************)
EXTENDS Params
=============================================================================
