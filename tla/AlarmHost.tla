----------------------------- MODULE AlarmHost -----------------------------
(***************************************************************************)
(* The alarm host: detection and sirens side by side on one processor,     *)
(* joined by ALARM_STATE, which the checks of watch_task and the switch    *)
(* interrupts write and TIM5 reads.  A check is one step for the sirens    *)
(* too, for what it confirms and withdraws; a task's step waits until no   *)
(* check is going on, since watch_task is more urgent than every task that *)
(* silences or changes a setting.                                          *)
(***************************************************************************)
EXTENDS AlarmWord, Integers

CONSTANTS
  Sens, CntMax, RingSlots,                     (* see Detection              *)
  Silencer, Delays, TicksPerSecond, RunawayCap,(* see Siren                  *)
  Configs                                      (* BOUND: config_code's values*)

ASSUME HostAssumption == Configs \subseteq ConfigCode

VARIABLES
  ALARM_STATE,                                 (* the word both share        *)
  BU_FANG, flag_fcgjsn, remote_shutdown, alarm_sensitivity, verifyCnt,
  rtcTimeCnt, nextWriteAddrVal, leds, calibrating, crt, check, condition,
  ALARM_STATE_DELAY, config_code, alarm_delay, alarmingCnt, RL, pc, target, copy

D == INSTANCE Detection WITH MayReset <- FALSE
S == INSTANCE Siren

detectionOnly == <<BU_FANG, flag_fcgjsn, remote_shutdown, alarm_sensitivity, verifyCnt,
                   rtcTimeCnt, nextWriteAddrVal, leds, calibrating, crt, check,
                   condition>>
sirenOnly == <<ALARM_STATE_DELAY, config_code, alarm_delay, alarmingCnt, RL, pc,
               target, copy>>
hostVars == <<ALARM_STATE, detectionOnly, sirenOnly>>

HostInit == D!Init /\ S!Init /\ config_code \in Configs

-----------------------------------------------------------------------------
(* watch_task                                                              *)

\* Mutant: SET_ALARM_STATE where Set_Alarm_State_Util_Clear is meant.
Judged_Unlatched(B, seen, watched) == UNCHANGED sirenOnly

\* A judged check moves the shared word: for the sirens, one StateUpdate.
Judged(B, seen, watched) ==
  S!StateUpdate(D!Rise(B, seen, watched), D!Fall(B, seen, watched))

FangChaiCheck ==
  D!FANG_CHAI_Check /\ Judged({FCH}, condition, flag_fcgjsn)

Sample(z) == D!ADC_Check(z) /\ UNCHANGED sirenOnly

JudgeZone(z) ==
  D!ADC_Check_Handler(z) /\ Judged(ZoneBits(z), crt, z \in BU_FANG)

-----------------------------------------------------------------------------
(* Interrupts                                                              *)

TIM3 == D!TIM3_IRQHandler /\ UNCHANGED sirenOnly

TIM5 == S!TIM5_IRQHandler /\ UNCHANGED detectionOnly

\* Mutant: CLEAR_ALARM_STATE without its complement clears the others.
Opened_Uncomplemented(s) == Bits \ {SwBit(s)}

Opened(s) == {SwBit(s)}

\* updateSWAlarmState, for a switch that is in use and reads closed or not.
SwitchUpdate(s, closed) ==
  /\ S!StateUpdate(IF closed THEN {SwBit(s)} ELSE {},
                   IF closed THEN {} ELSE Opened(s))
  /\ UNCHANGED detectionOnly

-----------------------------------------------------------------------------
(* The tasks that serve operators                                          *)

TaskRuns == check = "none"

BeginSilence(s, z) == TaskRuns /\ S!BeginSilence(s, z) /\ UNCHANGED detectionOnly

SilenceStep(s) == TaskRuns /\ S!SilenceStep(s) /\ UNCHANGED detectionOnly

Setting ==
  /\ TaskRuns
  /\ \/ \E z \in Zone : \E d \in Delays : S!SetAlarmDelay(z, d)
     \/ \E c \in Configs : S!SetConfigCode(c)
  /\ UNCHANGED detectionOnly

Operation ==
  /\ \/ \E z \in Zone : D!Arm(z) \/ D!Disarm(z)
     \/ \E on \in BOOLEAN : D!FangChai(on)
     \/ \E z \in Zone : \E n \in Sens : D!SetAlarmSensitivity(z, n)
     \/ D!RemoteShutdown
  /\ UNCHANGED sirenOnly

-----------------------------------------------------------------------------
Environment ==
  /\ \/ \E b \in D!Detected : D!World(b)
     \/ \E on \in BOOLEAN : D!Calibrate(on)
  /\ UNCHANGED sirenOnly

HostNext ==
  \/ FangChaiCheck
  \/ \E z \in Zone : Sample(z)
  \/ \E z \in Zone : JudgeZone(z)
  \/ TIM3
  \/ TIM5
  \/ \E s \in Switch : \E closed \in BOOLEAN : SwitchUpdate(s, closed)
  \/ \E s \in Silencer : \E z \in Zone : BeginSilence(s, z)
  \/ \E s \in Silencer : SilenceStep(s)
  \/ Setting
  \/ Operation
  \/ Environment

(***************************************************************************)
(* The two timers run freely; watch_task comes round to every check        *)
(* (strong fairness: another check disables it) and leaves the processor   *)
(* to the tasks between its rounds, so a silence that has begun goes on.   *)
(***************************************************************************)
Fairness ==
  /\ WF_hostVars(TIM3)
  /\ WF_hostVars(TIM5)
  /\ SF_hostVars(FangChaiCheck)
  /\ \A z \in Zone : SF_hostVars(Sample(z)) /\ WF_hostVars(JudgeZone(z))
  /\ \A s \in Silencer : SF_hostVars(SilenceStep(s))

HostSpec == HostInit /\ [][HostNext]_hostVars /\ Fairness

-----------------------------------------------------------------------------
(* What each part assumed of the other                                     *)

\* The host is a detection: nothing the sirens, the silences or the switch
\* interrupts do is a step Detection does not know.
DetectionKept == D!Init /\ [][D!Next]_(D!vars)

\* The host is a pair of sirens: alarms come and go only in the groups that
\* Siren expects a check to judge, and are latched as it expects.
SirenKept == S!Init /\ [][S!Next]_(S!vars)

-----------------------------------------------------------------------------
(* From the fence to the siren                                             *)

\* A condition that lasts where it is watched ends up ringing, and goes on
\* doing so, whatever was counted, rung or silenced before it.
LastingConditionRings ==
  \A z \in Zone : \A b \in ZoneBits(z) \cup {FCH} : \A d \in Delays \ {0} :
    <>[]( /\ b \in condition /\ D!Watched(b) /\ ~ calibrating
          /\ b = FCH \/ alarm_sensitivity[z] < CntMax
          /\ b \in RingMask(config_code, z)
          /\ S!Undisturbed(z, d) /\ alarmingCnt[z] <= d * TicksPerSecond)
      => <>[]RL[z]

Counted(z) == S!InWindow(z) /\ ~ S!Orphan(z)

\* A host switched off remotely and armed by nobody falls silent and dark,
\* though the shutdown itself neither silences a siren nor ends an alarm.
ShutdownFallsSilent ==
  <>[]( /\ remote_shutdown /\ BU_FANG = {} /\ ~ flag_fcgjsn
        /\ \A z \in Zone : Counted(z))
    => <>[](leds = {} /\ \A z \in Zone : ~ RL[z])
=============================================================================
