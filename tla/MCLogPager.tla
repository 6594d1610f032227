----------------------------- MODULE MCLogPager -----------------------------
(* A small instance of LogPager: rings of six records, pages of three on the *)
(* web and of two on the LCD, so that both readers have pages on the seam;   *)
(* one log that may be filled and written over, and one that stays empty.    *)
EXTENDS LogPager

MCRecords == [t \in Type |-> IF t = "FC" THEN 7 ELSE 0]
=============================================================================
