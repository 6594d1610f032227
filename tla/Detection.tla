----------------------------- MODULE Detection -----------------------------
(***************************************************************************)
(* How a condition of the fence or of the case becomes an alarm: the       *)
(* checks of watch_task (FANG_CHAI_Check and ADC_Check_Handler, alarm.c),  *)
(* the verification counters TIM3 advances (timer.c), and what operators   *)
(* change under them.                                                      *)
(*                                                                         *)
(* watch_task is the most urgent task and does not sleep inside a check    *)
(* (its delays are shorter than an OS tick), so no other task runs during  *)
(* one.  Interrupts do: a zone's check is cut between its sampling, which  *)
(* takes 40 ms, and its judgement.                                         *)
(***************************************************************************)
EXTENDS AlarmWord, Integers

CONSTANTS
  Sens,       (* values an operator may give alarm_sensitivity (a u8)        *)
  CntMax,     (* BOUND: largest value of a u8 counter (255), scaled down     *)
  RingSlots,  (* BOUND: records in the log ring of one type (300), likewise  *)
  MayReset    (* whether the host may be reset                               *)

ASSUME DetectionAssumption ==
  /\ CntMax \in Nat /\ CntMax >= 4
  /\ Sens \subseteq 0 .. CntMax
  /\ Sens # {}
  /\ RingSlots \in Nat \ {0}
  /\ MayReset \in BOOLEAN

Detected == (Zone \X Kind) \cup {FCH}
Logged == {b \in Detected : b[2] # "RLX"}   \* slack alarms leave no record

VARIABLES
  ALARM_STATE,        (* confirmed alarms                                    *)
  BU_FANG,            (* armed zones: BU_FANG_A_FLAG, BU_FANG_B_FLAG         *)
  flag_fcgjsn,        (* whether the tamper contact is watched               *)
  remote_shutdown,    (* the host is "switched off" remotely                 *)
  alarm_sensitivity,  (* per zone, in TIM3 ticks of 500 ms                   *)
  verifyCnt,          (* adcIvd/Opn/RlxAlmVerifyCnt and FCAlmVerifyCnt       *)
  rtcTimeCnt,         (* TIM3's divider: two ticks make a second             *)
  nextWriteAddrVal,   (* per type of record, the next slot of its ring       *)
  leds,               (* lit among LED_FANG_CHAI, LED_OPEN and LED_INVD      *)
  calibrating,        (* calibrating_flag # 0xFF: samples are not taken      *)
  crt,                (* adc_invd/open/relax_crt: conditions last found      *)
  check,              (* the zone being checked, or "none"                   *)
  condition           (* conditions that hold out there (the world)          *)

flagVars  == <<BU_FANG, flag_fcgjsn, remote_shutdown>>
judgeVars == <<ALARM_STATE, verifyCnt, nextWriteAddrVal, leds>>
vars == <<flagVars, judgeVars, alarm_sensitivity, rtcTimeCnt, calibrating, crt,
          check, condition>>

Led == {"FANG_CHAI", "OPEN", "INVD"}

TypeOK ==
  /\ ALARM_STATE \in SUBSET Bits
  /\ BU_FANG \in SUBSET Zone
  /\ flag_fcgjsn \in BOOLEAN
  /\ remote_shutdown \in BOOLEAN
  /\ alarm_sensitivity \in [Zone -> Sens]
  /\ verifyCnt \in [Detected -> 0 .. CntMax]
  /\ rtcTimeCnt \in 0 .. 1
  /\ nextWriteAddrVal \in [Logged -> 0 .. RingSlots - 1]
  /\ leds \in SUBSET Led
  /\ calibrating \in BOOLEAN
  /\ crt \in SUBSET (Zone \X Kind)
  /\ check \in Zone \cup {"none"}
  /\ condition \in SUBSET Detected

Init ==
  /\ ALARM_STATE \in SUBSET SwitchBits
  /\ BU_FANG \in SUBSET Zone
  /\ flag_fcgjsn \in BOOLEAN
  /\ remote_shutdown = FALSE
  /\ alarm_sensitivity \in [Zone -> Sens]
  /\ verifyCnt = [b \in Detected |-> 0]
  /\ rtcTimeCnt = 0
  /\ nextWriteAddrVal \in [Logged -> 0 .. RingSlots - 1]
  /\ leds = {}
  /\ calibrating = FALSE
  /\ crt = {}
  /\ check = "none"
  /\ condition \in SUBSET Detected

-----------------------------------------------------------------------------
(* Judging a check's sample                                                *)

RELAX_VERIFIED_TIME_S == 2
FC_VERIFIED == 4

\* ALARM_Update.
LedsOf(state) ==
  {l \in Led :
     \/ l = "FANG_CHAI" /\ FCH \in state
     \/ l = "OPEN" /\ \E z \in Zone : <<z, "OPN">> \in state
     \/ l = "INVD" /\ \E z \in Zone : <<z, "IVD">> \in state}

Counting(b) == IF verifyCnt[b] = 0 THEN 1 ELSE verifyCnt[b]

Verified(b) ==
  IF b = FCH THEN Counting(b) = FC_VERIFIED
  ELSE IF b[2] = "RLX" THEN Counting(b) >= RELAX_VERIFIED_TIME_S
  ELSE Counting(b) >= alarm_sensitivity[b[1]]

\* Mutants: a confirmed alarm confirmed again; alarms of a disarmed zone kept;
\* no alarm withdrawn; lamps not told of an alarm that ends.
Rise_Again(B, seen, watched) ==
  IF watched THEN {b \in B \cap seen : Verified(b)} ELSE {}
Fall_WatchedOnly(B, seen, watched) ==
  IF watched THEN (B \cap ALARM_STATE) \ seen ELSE {}
Fall_Never(B, seen, watched) == IF watched THEN {} ELSE B
CallsUpdate_OnRise(rise, fall) == rise # {}

\* Of the bits B, watched or not, with the conditions seen: what a check
\* confirms, what it clears, and whether it calls ALARM_Update.
Rise(B, seen, watched) ==
  IF watched THEN {b \in (B \cap seen) \ ALARM_STATE : Verified(b)} ELSE {}
Fall(B, seen, watched) ==
  IF watched THEN (B \cap ALARM_STATE) \ seen ELSE B
CallsUpdate(rise, fall) == rise \cup fall # {}

Judge(B, seen, watched) ==
  LET rise == Rise(B, seen, watched)
      fall == Fall(B, seen, watched)
  IN  /\ ALARM_STATE' = (ALARM_STATE \cup rise) \ fall
      /\ verifyCnt' = [b \in Detected |->
           IF b \in fall THEN 0
           ELSE IF watched /\ b \in (B \cap seen) \ ALARM_STATE THEN Counting(b)
           ELSE verifyCnt[b]]
      /\ nextWriteAddrVal' = [b \in Logged |->                      \* WriteLog
           IF b \in rise THEN (nextWriteAddrVal[b] + 1) % RingSlots
           ELSE nextWriteAddrVal[b]]
      /\ leds' = IF CallsUpdate(rise, fall) THEN LedsOf(ALARM_STATE') ELSE leds

-----------------------------------------------------------------------------
(* watch_task                                                              *)

FANG_CHAI_Check ==
  /\ check = "none"
  /\ Judge({FCH}, condition, flag_fcgjsn)
  /\ UNCHANGED <<flagVars, alarm_sensitivity, rtcTimeCnt, calibrating, crt, check,
                 condition>>

\* ADC_Check: the zone is sampled, except while calibrating: then the old
\* readings are judged again, against thresholds that may be new.
ADC_Check(z) ==
  /\ check = "none"
  /\ check' = z
  /\ \E seen \in IF calibrating THEN SUBSET ZoneBits(z) ELSE {condition \cap ZoneBits(z)} :
       crt' = (crt \ ZoneBits(z)) \cup seen
  /\ UNCHANGED <<flagVars, judgeVars, alarm_sensitivity, rtcTimeCnt, calibrating,
                 condition>>

ADC_Check_Handler(z) ==
  /\ check = z
  /\ Judge(ZoneBits(z), crt, z \in BU_FANG)
  /\ check' = "none"
  /\ UNCHANGED <<flagVars, alarm_sensitivity, rtcTimeCnt, calibrating, crt, condition>>

-----------------------------------------------------------------------------
(* TIM3, every 500 ms                                                      *)

\* Mutants: the tamper counter let past its test; counters stopped short of
\* theirs.
Ceiling_Past(b) ==
  IF b = FCH THEN FC_VERIFIED + 1
  ELSE IF b[2] = "RLX" THEN RELAX_VERIFIED_TIME_S + 1
  ELSE alarm_sensitivity[b[1]] + 1
Ceiling_Short(b) ==
  IF b = FCH THEN FC_VERIFIED - 1
  ELSE IF b[2] = "RLX" THEN RELAX_VERIFIED_TIME_S - 1
  ELSE alarm_sensitivity[b[1]] - 1

U8(n) == n % (CntMax + 1)

\* A counter that has started goes on to one past what its test asks for
\* (FCH: exactly to it), in u8 arithmetic.
Ceiling(b) ==
  IF b = FCH THEN FC_VERIFIED
  ELSE IF b[2] = "RLX" THEN RELAX_VERIFIED_TIME_S + 1
  ELSE alarm_sensitivity[b[1]] + 1

EverySecond(b) == b = FCH \/ b[2] = "RLX"

TIM3_IRQHandler ==
  /\ rtcTimeCnt' = (rtcTimeCnt + 1) % 2
  /\ verifyCnt' = [b \in Detected |->
       IF /\ verifyCnt[b] > 0
          /\ verifyCnt[b] < Ceiling(b)
          /\ EverySecond(b) => rtcTimeCnt = 1
       THEN U8(verifyCnt[b] + 1)
       ELSE verifyCnt[b]]
  /\ UNCHANGED <<flagVars, ALARM_STATE, nextWriteAddrVal, leds, alarm_sensitivity,
                 calibrating, crt, check, condition>>

-----------------------------------------------------------------------------
(* Operators, calibration, the world                                       *)

\* A task gets the processor only between two checks.
Operate ==
  /\ check = "none"
  /\ UNCHANGED <<ALARM_STATE, verifyCnt, nextWriteAddrVal, rtcTimeCnt, calibrating, crt,
                 check, condition>>

Arm(z) ==                                        \* Push_A_Start, Push_B_Start
  /\ Operate
  /\ BU_FANG' = BU_FANG \cup {z}
  /\ UNCHANGED <<flag_fcgjsn, remote_shutdown, alarm_sensitivity, leds>>

Disarm(z) ==                                     \* Push_A_Stop, Push_B_Stop
  /\ Operate
  /\ BU_FANG' = BU_FANG \ {z}
  /\ UNCHANGED <<flag_fcgjsn, remote_shutdown, alarm_sensitivity, leds>>

FangChai(on) ==                                  \* FangChai_Start, FangChai_Stop
  /\ Operate
  /\ flag_fcgjsn' = on
  /\ UNCHANGED <<BU_FANG, remote_shutdown, alarm_sensitivity, leds>>

SetAlarmSensitivity(z, s) ==
  /\ Operate
  /\ alarm_sensitivity' = [alarm_sensitivity EXCEPT ![z] = s]
  /\ UNCHANGED <<flagVars, leds>>

RemoteShutdown ==                                \* remoteShutdown(1)
  /\ Operate
  /\ remote_shutdown' = TRUE
  /\ flag_fcgjsn' = FALSE
  /\ BU_FANG' = {}
  /\ leds' = {}
  /\ UNCHANGED alarm_sensitivity

\* updateZeroVal or updateBaseVal by a task or by TIM3; calibrating(), which
\* watch_task calls between two checks, when it has its result.
Calibrate(on) ==
  /\ on \/ check = "none"
  /\ calibrating' = on
  /\ UNCHANGED <<flagVars, judgeVars, alarm_sensitivity, rtcTimeCnt, crt, check, condition>>

\* remoteShutdown(0), systemDefault or the power: RAM is lost, the EEPROM with
\* the flags, the settings and the log is not (nor is it bound to agree with
\* the RAM that is lost).
Reset ==
  /\ MayReset
  /\ ALARM_STATE' \in SUBSET SwitchBits
  /\ BU_FANG' \in SUBSET Zone
  /\ flag_fcgjsn' \in BOOLEAN
  /\ remote_shutdown' = FALSE
  /\ alarm_sensitivity' \in [Zone -> Sens]
  /\ verifyCnt' = [b \in Detected |-> 0]
  /\ rtcTimeCnt' = 0
  /\ leds' = {}
  /\ calibrating' = FALSE
  /\ crt' = {}
  /\ check' = "none"
  /\ UNCHANGED <<nextWriteAddrVal, condition>>

\* An intruder, a broken or slackening wire, an opened case, or a threshold
\* or base value that was changed.
World(b) ==
  /\ condition' = IF b \in condition THEN condition \ {b} ELSE condition \cup {b}
  /\ UNCHANGED <<flagVars, judgeVars, alarm_sensitivity, rtcTimeCnt, calibrating, crt,
                 check>>

\* updateSWAlarmState, in an interrupt or a task, moves only the switch bits.
Switches(s) ==
  /\ ALARM_STATE' = (ALARM_STATE \ SwitchBits) \cup s
  /\ UNCHANGED <<flagVars, verifyCnt, nextWriteAddrVal, leds, alarm_sensitivity,
                 rtcTimeCnt, calibrating, crt, check, condition>>

Next ==
  \/ FANG_CHAI_Check
  \/ \E z \in Zone : ADC_Check(z)
  \/ \E z \in Zone : ADC_Check_Handler(z)
  \/ TIM3_IRQHandler
  \/ \E z \in Zone : Arm(z)
  \/ \E z \in Zone : Disarm(z)
  \/ \E on \in BOOLEAN : FangChai(on)
  \/ \E z \in Zone : \E s \in Sens : SetAlarmSensitivity(z, s)
  \/ RemoteShutdown
  \/ \E on \in BOOLEAN : Calibrate(on)
  \/ Reset
  \/ \E s \in SUBSET SwitchBits : Switches(s)
  \/ \E b \in Detected : World(b)

(***************************************************************************)
(* TIM3 is a free-running timer.  watch_task loops every 100 ms over the   *)
(* tamper check and the zone checks TIM4 has requested, twice a second     *)
(* each, and skips none: each is begun again and again (strong fairness,   *)
(* because another check disables it), and a check that is begun ends.     *)
(***************************************************************************)
Fairness ==
  /\ WF_vars(TIM3_IRQHandler)
  /\ SF_vars(FANG_CHAI_Check)
  /\ \A z \in Zone : SF_vars(ADC_Check(z)) /\ WF_vars(ADC_Check_Handler(z))

Spec == Init /\ [][Next]_vars /\ Fairness
-----------------------------------------------------------------------------
(* Safety                                                                  *)

\* The tamper counter is compared with = and the slack counter never needs to
\* pass 3, so neither may run past the value its test waits for.
CountersMeetTests ==
  /\ verifyCnt[FCH] <= FC_VERIFIED
  /\ \A b \in Detected : b[2] = "RLX" => verifyCnt[b] <= RELAX_VERIFIED_TIME_S + 1

\* The lamps of the panel tell the confirmed alarms; only a host that is
\* switched off remotely may show less.
LedsTruthful ==
  /\ leds \subseteq LedsOf(ALARM_STATE)
  /\ leds = LedsOf(ALARM_STATE) \/ remote_shutdown

Watched(b) == IF b = FCH THEN flag_fcgjsn ELSE b[1] \in BU_FANG

Recorded(b) ==
  LET onset == b \in ALARM_STATE' /\ b \notin ALARM_STATE
  IN  /\ onset => Watched(b)
      /\ nextWriteAddrVal'[b] =
           IF onset THEN (nextWriteAddrVal[b] + 1) % RingSlots ELSE nextWriteAddrVal[b]

\* An alarm leaves a record exactly when it is confirmed, once, and only while
\* the zone is armed or the case is watched.
OneRecordPerOnset == [][\A b \in Logged : Recorded(b)]_vars

-----------------------------------------------------------------------------
(* Liveness, of a host that is not reset over and over                     *)

NotReset == <>[][~ Reset]_vars

\* A condition that lasts in an armed zone, or at a watched case, becomes an
\* alarm and stays one, whatever was counted before, for every sensitivity but
\* the largest.
LastingConditionAlarms ==
  NotReset => \A b \in Detected :
    <>[]( /\ b \in condition
          /\ Watched(b)
          /\ ~ calibrating
          /\ b = FCH \/ alarm_sensitivity[b[1]] < CntMax) => <>[](b \in ALARM_STATE)

\* An alarm ends, for good, when its condition does or nothing watches it.
AlarmEnds ==
  NotReset => \A b \in Detected :
    (<>[](~ Watched(b)) \/ <>[](b \notin condition /\ ~ calibrating))
      => <>[](b \notin ALARM_STATE)

-----------------------------------------------------------------------------
(* What the documentation promises and the code does not keep.             *)

\* DOC item 6: an alarm is valid when its condition "holds and lasts longer
\* than 2 seconds, otherwise it is an accident": a check that finds the
\* condition gone starts the verification anew.
GlitchForgotten ==
  [][\A z \in Zone : check = z /\ check' = "none" /\ z \in BU_FANG =>
       \A b \in ZoneBits(z) \ (crt \cup ALARM_STATE) : verifyCnt'[b] = 0]_vars
=============================================================================
