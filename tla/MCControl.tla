----------------------------- MODULE MCControl -----------------------------
(* Small instances of Control: who asks and what is set is given by the     *)
(* configurations.                                                          *)
EXTENDS Control
=============================================================================
