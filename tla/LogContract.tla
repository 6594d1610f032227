---------------------------- MODULE LogContract ----------------------------
(***************************************************************************)
(* What the event log of one type of alarm promises: it holds the latest   *)
(* records, oldest first; a full log gives up its oldest record for a new  *)
(* one; a clear takes them all.                                            *)
(***************************************************************************)
EXTENDS Integers, Sequences

CONSTANTS
  Capacity,   (* records the log has room for                                *)
  Records     (* BOUND: records ever written, numbered in order of writing   *)

VARIABLE records

Init == records = <<>>

Write(r) ==
  /\ \A i \in DOMAIN records : records[i] < r
  /\ records' = IF Len(records) < Capacity THEN Append(records, r)
                ELSE Append(Tail(records), r)

Clear == records' = <<>>

Next == Clear \/ \E r \in 1 .. Records : Write(r)

Spec == Init /\ [][Next]_records
=============================================================================
