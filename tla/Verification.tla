---------------------------- MODULE Verification ----------------------------
(***************************************************************************)
(* Detection with a history: how long an alarm of a zone that is not, or   *)
(* no longer, there has had to verify its condition.  While the alarm      *)
(* lasts, when a check finds the zone disarmed, and at a reset there is    *)
(* nothing verified; from then on TIM3 counts.                             *)
(***************************************************************************)
EXTENDS Detection

CONSTANT SinceMax    (* BOUND: ticks remembered; more count as so many       *)

ASSUME VerificationAssumption == SinceMax \in Nat

VARIABLE since       (* per alarm of a zone, ticks of its rate since then    *)

historyVars == <<vars, since>>

FenceBits == Zone \X Kind

HistoryOK == since \in [FenceBits -> 0 .. SinceMax]

\* What the test of a counter asks for (ADC_Check_Handler).
Required(b) ==
  IF b[2] = "RLX" THEN RELAX_VERIFIED_TIME_S ELSE alarm_sensitivity[b[1]]

NothingVerified(b) ==
  \/ b \in ALARM_STATE
  \/ b[1] \notin BU_FANG /\ ADC_Check_Handler(b[1])
  \/ Reset

Ticks(b) == rtcTimeCnt' # rtcTimeCnt /\ (EverySecond(b) => rtcTimeCnt = 1)

Remember ==
  since' = [b \in FenceBits |->
    IF NothingVerified(b) THEN 0
    ELSE IF Ticks(b) /\ since[b] < SinceMax THEN since[b] + 1
    ELSE since[b]]

HistoryInit == Init /\ since = [b \in FenceBits |-> 0]

HistoryNext == Next /\ Remember

HistorySpec == HistoryInit /\ [][HistoryNext]_historyVars /\ Fairness
-----------------------------------------------------------------------------
\* An alarm of a zone that went out, or whose zone was checked disarmed, is
\* confirmed only once TIM3 has counted what the present sensitivity, or the
\* verification time of a slack wire, asks for: neither ticks before nor a
\* sensitivity changed under the counter make it come back sooner.
VerifiedAnew ==
  [][\A b \in FenceBits :
       b \in ALARM_STATE' \ ALARM_STATE =>
         since[b] + 1 >= Required(b) \/ since[b] = SinceMax]_historyVars
=============================================================================
