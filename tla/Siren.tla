------------------------------- MODULE Siren -------------------------------
(***************************************************************************)
(* The siren of each zone: the 100 ms interrupt TIM5_IRQHandler that rings *)
(* it and lets it expire (timer.c), the silence procedure Remove_Alarm_RL  *)
(* that the TCP, web and LCD tasks call (alarm.c), and the duration        *)
(* setting they may change while it rings.                                 *)
(*                                                                         *)
(* The interrupt preempts the tasks, and a task only runs while no more    *)
(* urgent one is busy, so the silence procedure is cut where an interrupt  *)
(* between two of its stores can be told from one before or after them.    *)
(***************************************************************************)
EXTENDS AlarmWord, Integers

CONSTANTS
  Silencer,       (* uC/OS-II priorities of the tasks that silence: 5, 6, 7 *)
  Delays,         (* values an operator may give alarm_delay (0..999)       *)
  TicksPerSecond, (* TIM5 interrupts in one unit of alarm_delay: 10         *)
  RunawayCap      (* BOUND: alarmingCnt stops here once no alarm_delay can  *)
                  (* match it any more; the code counts on to 2^31 - 1      *)

ASSUME SirenAssumption ==
  /\ Silencer \subseteq Nat
  /\ Delays \subseteq Nat
  /\ TicksPerSecond \in Nat \ {0}
  /\ RunawayCap \in Nat
  /\ \A d \in Delays : d * TicksPerSecond < RunawayCap

VARIABLES
  ALARM_STATE,        (* alarms that are confirmed now                       *)
  ALARM_STATE_DELAY,  (* the latched copy the remote poll reports            *)
  config_code,        (* bits 2 and 3 of the configuration byte              *)
  alarm_delay,        (* seconds a ringing period lasts, per zone            *)
  alarmingCnt,        (* TIM5 ticks since the period began, -1 when silent   *)
  RL,                 (* the siren relay output of each zone                 *)
  pc, target, copy    (* per silencing task: next store, its zone, its load  *)

wordVars  == <<ALARM_STATE, ALARM_STATE_DELAY>>
ringVars  == <<alarmingCnt, RL>>
taskVars  == <<pc, target, copy>>
paramVars == <<config_code, alarm_delay>>
vars == <<wordVars, ringVars, taskVars, paramVars>>

TypeOK ==
  /\ ALARM_STATE \in SUBSET Bits
  /\ ALARM_STATE_DELAY \in SUBSET Bits
  /\ config_code \in ConfigCode
  /\ alarm_delay \in [Zone -> Delays]
  /\ alarmingCnt \in [Zone -> -1 .. RunawayCap]
  /\ RL \in [Zone -> BOOLEAN]
  /\ pc \in [Silencer -> {"idle", "count", "load", "store"}]
  /\ target \in [Silencer -> Zone]
  /\ copy \in [Silencer -> SUBSET Bits]

\* ALARM_Init runs before TIM5 starts: only the switch bits can be set.
Init ==
  /\ ALARM_STATE \in SUBSET SwitchBits
  /\ config_code \in ConfigCode
  /\ ALARM_STATE_DELAY = Latch(config_code, {}, ALARM_STATE)
  /\ alarm_delay \in [Zone -> Delays]
  /\ alarmingCnt = [z \in Zone |-> 0]
  /\ RL = [z \in Zone |-> FALSE]
  /\ pc = [s \in Silencer |-> "idle"]
  /\ target \in [Silencer -> Zone]
  /\ copy = [s \in Silencer |-> {}]

-----------------------------------------------------------------------------
(* TIM5_IRQHandler                                                         *)

Limit(z) == alarm_delay[z] * TicksPerSecond
Alarmed(z) == ALARM_STATE \cap RingMask(config_code, z) # {}

\* Mutants: the limit passed before it is noticed; a silent siren never rung
\* again; the expiry test inverted.
AtDecision_Late(z) == alarmingCnt[z] = -1 \/ alarmingCnt[z] > Limit(z)
Rings_AtLimitOnly(z) == alarmingCnt[z] = Limit(z) /\ Alarmed(z)
Expires_Inverted(z) == alarmingCnt[z] = Limit(z) /\ Alarmed(z)

AtDecision(z) == alarmingCnt[z] = -1 \/ alarmingCnt[z] = Limit(z)
Rings(z) == AtDecision(z) /\ Alarmed(z)                     \* Alarm_RL_x
Expires(z) == alarmingCnt[z] = Limit(z) /\ ~ Alarmed(z)     \* Remove_Alarm_RL_x

\* Mutant: a ring that does not start the count.
NextCnt_Unstarted(z) == IF AtDecision(z) THEN -1 ELSE alarmingCnt[z] + 1

NextCnt(z) ==
  IF Rings(z) THEN 1
  ELSE IF AtDecision(z) THEN -1
  ELSE IF alarmingCnt[z] < RunawayCap THEN alarmingCnt[z] + 1 ELSE alarmingCnt[z]

\* Mutant: a period that is over stops the siren, alarm or not.
TIM5_IRQHandler_StopsAtLimit ==
  /\ alarmingCnt' = [z \in Zone |-> NextCnt(z)]
  /\ RL' = [z \in Zone |-> alarmingCnt[z] # Limit(z) /\ (Rings(z) \/ RL[z])]
  /\ UNCHANGED <<ALARM_STATE, ALARM_STATE_DELAY, paramVars, taskVars>>

TIM5_IRQHandler ==
  /\ alarmingCnt' = [z \in Zone |-> NextCnt(z)]
  /\ RL' = [z \in Zone |-> Rings(z) \/ (RL[z] /\ ~ Expires(z))]
  /\ ALARM_STATE_DELAY' =
       IF \E z \in Zone : Expires(z) THEN ALARM_STATE ELSE ALARM_STATE_DELAY
  /\ UNCHANGED <<ALARM_STATE, paramVars, taskVars>>

-----------------------------------------------------------------------------
(* Remove_Alarm_RL_A and _B in a task: RL = 0; alarmingCnt = -1;           *)
(* ALARM_STATE_DELAY = ALARM_STATE (a load, then a store).                 *)

Runs(s) == \A r \in Silencer : r < s => pc[r] = "idle"

BeginSilence(s, z) ==
  /\ Runs(s)
  /\ pc[s] = "idle"
  /\ RL' = [RL EXCEPT ![z] = FALSE]
  /\ pc' = [pc EXCEPT ![s] = "count"]
  /\ target' = [target EXCEPT ![s] = z]
  /\ UNCHANGED <<wordVars, alarmingCnt, copy, paramVars>>

SilenceCount(s) ==
  /\ Runs(s)
  /\ pc[s] = "count"
  /\ alarmingCnt' = [alarmingCnt EXCEPT ![target[s]] = -1]
  /\ pc' = [pc EXCEPT ![s] = "load"]
  /\ UNCHANGED <<wordVars, RL, target, copy, paramVars>>

SilenceLoad(s) ==
  /\ Runs(s)
  /\ pc[s] = "load"
  /\ copy' = [copy EXCEPT ![s] = ALARM_STATE]
  /\ pc' = [pc EXCEPT ![s] = "store"]
  /\ UNCHANGED <<wordVars, ringVars, target, paramVars>>

SilenceStore(s) ==
  /\ Runs(s)
  /\ pc[s] = "store"
  /\ ALARM_STATE_DELAY' = copy[s]
  /\ copy' = [copy EXCEPT ![s] = {}]
  /\ pc' = [pc EXCEPT ![s] = "idle"]
  /\ UNCHANGED <<ALARM_STATE, ringVars, target, paramVars>>

SilenceStep(s) == SilenceCount(s) \/ SilenceLoad(s) \/ SilenceStore(s)

-----------------------------------------------------------------------------
(* What the other components do to this one.                               *)

\* One check judges the alarms of one zone, the tamper alarm or one switch.
Checked == {ZoneBits(z) : z \in Zone} \cup {{b} : b \in {FCH} \cup SwitchBits}

\* Detection confirms the alarms in "on" and withdraws those in "off".
StateUpdate(on, off) ==
  /\ ALARM_STATE' = (ALARM_STATE \cup on) \ off
  /\ ALARM_STATE_DELAY' = Latch(config_code, ALARM_STATE_DELAY, on)
  /\ UNCHANGED <<ringVars, taskVars, paramVars>>

SetAlarmDelay(z, d) ==
  /\ alarm_delay' = [alarm_delay EXCEPT ![z] = d]
  /\ UNCHANGED <<wordVars, ringVars, taskVars, config_code>>

SetConfigCode(c) ==
  /\ config_code' = c
  /\ UNCHANGED <<wordVars, ringVars, taskVars, alarm_delay>>

Next ==
  \/ TIM5_IRQHandler
  \/ \E s \in Silencer : \E z \in Zone : BeginSilence(s, z)
  \/ \E s \in Silencer : SilenceStep(s)
  \/ \E on, off \in SUBSET Bits :
       /\ on \cap off = {}
       /\ \E B \in Checked : on \cup off \subseteq B
       /\ StateUpdate(on, off)
  \/ \E z \in Zone : \E d \in Delays : SetAlarmDelay(z, d)
  \/ \E c \in ConfigCode : SetConfigCode(c)

(***************************************************************************)
(* TIM5 is a free-running hardware timer and a task that has begun a       *)
(* silence is not blocked in it, so both go on.  Nothing obliges anyone to *)
(* silence, to change a setting or to cause an alarm.                      *)
(***************************************************************************)
Fairness == WF_vars(TIM5_IRQHandler) /\ \A s \in Silencer : WF_vars(SilenceStep(s))

Spec == Init /\ [][Next]_vars /\ Fairness

-----------------------------------------------------------------------------
(* Safety                                                                  *)

\* A siren is never on while its counter still has the power-on value: the
\* first alarm_delay seconds after a start are silent whatever the alarms
\* (alarmingCnt starts at 0, not at -1).
BootWindowSilent == \A z \in Zone : RL[z] => alarmingCnt[z] # 0

InWindow(z) == alarm_delay[z] > 0 /\ alarmingCnt[z] <= Limit(z)

\* A ringing period that will meet its equality test in TIM5 goes on doing so:
\* only a new alarm_delay can make a counter miss its limit.
WindowKept ==
  [][\A z \in Zone : InWindow(z) /\ alarm_delay'[z] = alarm_delay[z] => InWindow(z)']_vars

Orphan(z) == RL[z] /\ alarmingCnt[z] = -1

\* A siren is left on with nothing counting it down only by a silence whose
\* two stores RL = 0 and alarmingCnt = -1 were separated by a TIM5 that rang.
OrphanOnlyByTornSilence ==
  [][\A z \in Zone : Orphan(z)' /\ ~ Orphan(z) =>
        \E s \in Silencer : pc[s] = "count" /\ pc'[s] = "load" /\ target[s] = z]_vars

\* A latched alarm is dropped only when it is no longer live, or was not when
\* the silence that drops it loaded ALARM_STATE.
LatchDropsOnlyDead ==
  [][\A b \in ALARM_STATE_DELAY \ ALARM_STATE_DELAY' :
        \/ b \notin ALARM_STATE
        \/ \E s \in Silencer : pc[s] = "store" /\ pc'[s] = "idle" /\ b \notin copy[s]]_vars

Covered == ALARM_STATE \subseteq ALARM_STATE_DELAY

\* While latching is on, every live alarm stays visible to the delayed poll,
\* except across a silence that stores a load made before the alarm.
LatchCoversLive ==
  [][Covered /\ ~ Covered' =>
        \/ NO_DELAY \in config_code
        \/ \E s \in Silencer :
             pc[s] = "store" /\ pc'[s] = "idle" /\ ~ (ALARM_STATE \subseteq copy[s])]_vars

Contract == INSTANCE SirenContract WITH
  alarmed <- {z \in Zone : Alarmed(z)},
  ringing <- {z \in Zone : RL[z]},
  silences <- {<<s, target[s]>> : s \in {t \in Silencer : pc[t] # "idle"}}

\* The interrupt and the silence procedures keep the contract of the sirens:
\* none sounds without an alarm to begin with, none is cut off by its counter
\* while an alarm lasts, and a silence stops its own siren only, with its first
\* store: the later ones, between which TIM5 may ring, leave it as it is.
ContractKept == Contract!Spec

-----------------------------------------------------------------------------
(* Liveness                                                                *)

Undisturbed(z, d) ==
  alarm_delay[z] = d /\ \A s \in Silencer : pc[s] = "idle" \/ target[s] # z

\* An alarm that lasts rings its siren, for good, from the first decision of
\* TIM5 on (within the silent boot window, at its end).
AlarmRings ==
  \A z \in Zone : \A d \in Delays \ {0} :
    <>[](Alarmed(z) /\ Undisturbed(z, d) /\ alarmingCnt[z] <= d * TicksPerSecond)
      => <>[]RL[z]

\* A ringing period in its window ends once its alarms are gone.
RingingStops ==
  \A z \in Zone : \A d \in Delays :
    (RL[z] /\ alarmingCnt[z] >= 1 /\ InWindow(z) /\ [](~ Alarmed(z) /\ Undisturbed(z, d)))
      ~> ~ RL[z]

\* A latched alarm that is over leaves the delayed word when the siren that
\* sounds for its zone does, as alarm.h:269 asks.
LatchFollowsSiren ==
  \A z \in Zone : \A d \in Delays : \A b \in Bits :
    ( /\ RL[z] /\ alarmingCnt[z] >= 1 /\ InWindow(z)
      /\ [](~ Alarmed(z) /\ b \notin ALARM_STATE /\ Undisturbed(z, d)) )
      ~> b \notin ALARM_STATE_DELAY

-----------------------------------------------------------------------------
(* What the comments promise and the code does not keep.                   *)

\* timer.c:254 "when the duration is over and the alarm of zone A is gone, the
\* siren stops": left alone and without an alarm, it stops.
SirenStops ==
  \A z \in Zone : \A d \in Delays :
    <>[](~ Alarmed(z) /\ Undisturbed(z, d)) => <>[](~ RL[z])

\* alarm.h:269: the delayed status of a zone is "cleared late, in step with the
\* siren": the latched alarms of a zone stay while its siren sounds.
LatchHeldWhileRinging ==
  [][\A z \in Zone : \A b \in ALARM_STATE_DELAY \cap ZoneBits(z) :
        RL[z] /\ RL'[z] => b \in ALARM_STATE_DELAY']_vars

\* alarm.c:231 "sets the alarm state and ALARM_STATE_DELAY with it until the
\* alarm is cleared": with latching on, live alarms stay latched alarms.
LiveStaysLatched == [][NO_DELAY \notin config_code /\ Covered => Covered']_vars

\* alarm.c:231 again, "until the alarm is cleared, then it recovers": the
\* latched alarm of a switch goes out in the end once there are no alarms.
LatchReleased ==
  \A b \in SwitchBits : <>[](ALARM_STATE = {}) => <>[](b \notin ALARM_STATE_DELAY)

\* timer.c:245 "slack alarms do not ring for now": the siren of a zone is
\* turned on only by an alarm other than slack.
SlackNeverRings ==
  [][\A z \in Zone : ~ RL[z] /\ RL'[z] =>
        ALARM_STATE \cap RingMask({NO_RLX_RING}, z) # {}]_vars
=============================================================================
