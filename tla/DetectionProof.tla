--------------------------- MODULE DetectionProof ---------------------------
(***************************************************************************)
(* Detection is safe for every set of zones and of sensitivities and every *)
(* size of a counter and of a log ring: its types, the counters that must  *)
(* not run past their tests, the panel lamps, the log records, and the     *)
(* verification that an alarm which went out has to pass again.            *)
(***************************************************************************)
EXTENDS Verification, TLAPS

LEMMA DetectedBits ==
  /\ Detected \subseteq Bits
  /\ Logged \subseteq Detected
  /\ FCH \in Detected
  /\ \A z \in Zone : ZoneBits(z) \subseteq Detected
  /\ SwitchBits \subseteq Bits
  /\ SwitchBits \cap Detected = {}
<1>1. SwitchBits \cap Detected = {}
  BY WordAssumption DEF SwitchBits, Detected, FCH
<1> QED
  BY <1>1 DEF Detected, Bits, Logged, ZoneBits

\* The lamps do not depend on the switch bits.
LEMMA LedsIgnoreSwitches ==
  ASSUME NEW S, NEW T, S \ SwitchBits = T \ SwitchBits
  PROVE  LedsOf(S) = LedsOf(T)
<1>1. \A b \in Detected : b \in S <=> b \in T
  BY DetectedBits
<1>2. FCH \in Detected /\ \A z \in Zone : "OPN" \in Kind => <<z, "OPN">> \in Detected
  BY DEF Detected
<1>3. ASSUME NEW z \in Zone, NEW k
      PROVE  <<z, k>> \in S <=> <<z, k>> \in T
  <2>1. <<z, k>> \notin SwitchBits
    BY WordAssumption DEF SwitchBits
  <2> QED
    BY <2>1
<1> QED
  BY <1>1, <1>2, <1>3 DEF LedsOf

LEMMA NoLeds == ASSUME NEW S, S \subseteq SwitchBits PROVE LedsOf(S) = {}
<1>1. FCH \notin SwitchBits
  BY WordAssumption DEF FCH, SwitchBits
<1>2. \A z \in Zone : \A k : <<z, k>> \notin SwitchBits
  BY WordAssumption DEF SwitchBits
<1> QED
  BY <1>1, <1>2 DEF LedsOf

\* What a counter is when a check starts or continues it.
LEMMA CountingType ==
  ASSUME TypeOK, NEW b \in Detected
  PROVE  /\ Counting(b) \in 0 .. CntMax
         /\ Counting(b) = 1 \/ Counting(b) = verifyCnt[b]
BY DetectionAssumption DEF TypeOK, Counting

\* A judgement keeps the types of what it writes.
LEMMA JudgeTypes ==
  ASSUME TypeOK, NEW B \in SUBSET Detected, NEW seen, NEW watched \in BOOLEAN,
         Judge(B, seen, watched)
  PROVE  /\ ALARM_STATE' \in SUBSET Bits
         /\ verifyCnt' \in [Detected -> 0 .. CntMax]
         /\ nextWriteAddrVal' \in [Logged -> 0 .. RingSlots - 1]
         /\ leds' \in SUBSET Led
<1>1. ALARM_STATE' \in SUBSET Bits
  BY DetectedBits DEF Judge, Rise, TypeOK
<1>2. verifyCnt' \in [Detected -> 0 .. CntMax]
  BY CountingType, DetectionAssumption DEF Judge, TypeOK
<1>3. nextWriteAddrVal' \in [Logged -> 0 .. RingSlots - 1]
  <2>1. \A n \in 0 .. RingSlots - 1 : (n + 1) % RingSlots \in 0 .. RingSlots - 1
    BY DetectionAssumption
  <2> QED
    BY <2>1 DEF Judge, TypeOK
<1>4. leds' \in SUBSET Led
  BY DEF Judge, TypeOK, LedsOf
<1> QED
  BY <1>1, <1>2, <1>3, <1>4

\* Every variable of detection keeps the type the code declares it with.
THEOREM DetectionTypes == Spec => []TypeOK
<1> DEFINE zero == [b \in Detected |-> 0]
<1>0. zero \in [Detected -> 0 .. CntMax] /\ 0 \in 0 .. 1
  BY DetectionAssumption
<1>1. Init => TypeOK
  BY <1>0, DetectedBits DEF Init, TypeOK
<1>2. TypeOK /\ [Next]_vars => TypeOK'
  <2> SUFFICES ASSUME TypeOK, [Next]_vars PROVE TypeOK'
    OBVIOUS
  <2> USE DEF flagVars, judgeVars
  <2>1. CASE FANG_CHAI_Check
    <3>1. {FCH} \in SUBSET Detected /\ flag_fcgjsn \in BOOLEAN
      BY DetectedBits DEF TypeOK
    <3> QED
      BY <2>1, <3>1, JudgeTypes DEF FANG_CHAI_Check, TypeOK
  <2>2. ASSUME NEW z \in Zone, ADC_Check(z)
        PROVE  TypeOK'
    BY <2>2 DEF ADC_Check, TypeOK, ZoneBits
  <2>3. ASSUME NEW z \in Zone, ADC_Check_Handler(z)
        PROVE  TypeOK'
    <3>1. ZoneBits(z) \in SUBSET Detected /\ (z \in BU_FANG) \in BOOLEAN
      BY DetectedBits
    <3> QED
      BY <2>3, <3>1, JudgeTypes DEF ADC_Check_Handler, TypeOK
  <2>4. CASE TIM3_IRQHandler
    <3>1. \A n \in 0 .. CntMax : U8(n + 1) \in 0 .. CntMax
      BY DetectionAssumption DEF U8
    <3>2. verifyCnt' \in [Detected -> 0 .. CntMax]
      BY <2>4, <3>1 DEF TIM3_IRQHandler, TypeOK
    <3>3. rtcTimeCnt' \in 0 .. 1
      BY <2>4 DEF TIM3_IRQHandler, TypeOK
    <3> QED
      BY <2>4, <3>2, <3>3 DEF TIM3_IRQHandler, TypeOK
  <2>5. ASSUME NEW z \in Zone, Arm(z) \/ Disarm(z)
        PROVE  TypeOK'
    BY <2>5 DEF Arm, Disarm, Operate, TypeOK
  <2>6. ASSUME NEW on \in BOOLEAN, FangChai(on) \/ Calibrate(on)
        PROVE  TypeOK'
    BY <2>6 DEF FangChai, Calibrate, Operate, TypeOK
  <2>7. ASSUME NEW z \in Zone, NEW s \in Sens, SetAlarmSensitivity(z, s)
        PROVE  TypeOK'
    BY <2>7 DEF SetAlarmSensitivity, Operate, TypeOK
  <2>8. CASE RemoteShutdown
    BY <2>8 DEF RemoteShutdown, Operate, TypeOK
  <2>9. CASE Reset
    BY <2>9, <1>0, DetectedBits DEF Reset, TypeOK
  <2>10. ASSUME NEW s \in SUBSET SwitchBits, Switches(s)
         PROVE  TypeOK'
    BY <2>10, DetectedBits DEF Switches, TypeOK
  <2>11. ASSUME NEW b \in Detected, World(b)
         PROVE  TypeOK'
    BY <2>11 DEF World, TypeOK
  <2>12. CASE UNCHANGED vars
    BY <2>12 DEF vars, TypeOK
  <2> QED
    BY <2>1, <2>2, <2>3, <2>4, <2>5, <2>6, <2>7, <2>8, <2>9, <2>10, <2>11, <2>12
    DEF Next
<1> QED
  BY <1>1, <1>2, PTL DEF Spec

-----------------------------------------------------------------------------
(* Which steps write what.                                                 *)

\* A step judges, or is the tick, or a reset, or leaves the counters alone.
LEMMA CounterWriters ==
  ASSUME [Next]_vars
  PROVE  \/ Judge({FCH}, condition, flag_fcgjsn) /\ UNCHANGED flagVars
         \/ \E z \in Zone :
              Judge(ZoneBits(z), crt, z \in BU_FANG) /\ UNCHANGED flagVars
         \/ TIM3_IRQHandler
         \/ Reset
         \/ verifyCnt' = verifyCnt
<1> USE DEF judgeVars
<1>1. CASE FANG_CHAI_Check
  BY <1>1 DEF FANG_CHAI_Check, flagVars
<1>2. ASSUME NEW z \in Zone, ADC_Check_Handler(z)
      PROVE  Judge(ZoneBits(z), crt, z \in BU_FANG) /\ UNCHANGED flagVars
  BY <1>2 DEF ADC_Check_Handler, flagVars
<1>3. CASE ~ FANG_CHAI_Check /\ ~ TIM3_IRQHandler /\ ~ Reset
           /\ ~ \E z \in Zone : ADC_Check_Handler(z)
  BY <1>3 DEF Next, vars, ADC_Check, Arm, Disarm, FangChai, SetAlarmSensitivity,
    RemoteShutdown, Calibrate, Switches, World, Operate
<1> QED
  BY <1>1, <1>2, <1>3

\* Neither the tamper counter nor a slack counter runs past the value its test
\* waits for.
THEOREM DetectionCounters == Spec => []CountersMeetTests
<1>1. Init => CountersMeetTests
  BY DetectedBits DEF Init, CountersMeetTests, FC_VERIFIED, RELAX_VERIFIED_TIME_S
<1>2. TypeOK /\ CountersMeetTests /\ [Next]_vars => CountersMeetTests'
  <2> SUFFICES ASSUME TypeOK, CountersMeetTests, [Next]_vars
               PROVE  CountersMeetTests'
    OBVIOUS
  <2> USE DEF FC_VERIFIED, RELAX_VERIFIED_TIME_S
  <2> DEFINE Top(b) == IF b = FCH THEN 4 ELSE 3
             Bound(cnt) == \A b \in Detected : b = FCH \/ b[2] = "RLX" => cnt[b] <= Top(b)
  <2>1. CountersMeetTests <=> Bound(verifyCnt)
    BY DetectedBits DEF CountersMeetTests, FCH
  <2>2. CountersMeetTests' <=> Bound(verifyCnt')
    BY DetectedBits DEF CountersMeetTests, FCH
  <2> SUFFICES Bound(verifyCnt')
    BY <2>2
  <2>3. ASSUME NEW B, NEW seen, NEW watched, Judge(B, seen, watched)
        PROVE  Bound(verifyCnt')
    <3> SUFFICES ASSUME NEW b \in Detected, b = FCH \/ b[2] = "RLX"
                 PROVE  verifyCnt'[b] <= Top(b)
      OBVIOUS
    <3>1. verifyCnt'[b] \in {0, Counting(b), verifyCnt[b]}
      BY <2>3 DEF Judge
    <3>2. verifyCnt[b] <= Top(b) /\ verifyCnt[b] \in 0 .. CntMax
      BY <2>1 DEF TypeOK
    <3>3. Counting(b) <= Top(b)
      BY <3>2 DEF Counting
    <3> QED
      BY <3>1, <3>2, <3>3
  <2>4. CASE TIM3_IRQHandler
    <3> SUFFICES ASSUME NEW b \in Detected, b = FCH \/ b[2] = "RLX"
                 PROVE  verifyCnt'[b] <= Top(b)
      OBVIOUS
    <3>1. Ceiling(b) = Top(b)
      BY DEF Ceiling
    <3>2. verifyCnt[b] \in 0 .. CntMax /\ verifyCnt[b] <= Top(b)
      BY <2>1 DEF TypeOK
    <3>3. \A n \in 0 .. CntMax : U8(n + 1) <= n + 1
      BY DetectionAssumption DEF U8
    <3>4. \/ verifyCnt'[b] = verifyCnt[b]
          \/ verifyCnt[b] < Top(b) /\ verifyCnt'[b] = U8(verifyCnt[b] + 1)
      BY <2>4, <3>1 DEF TIM3_IRQHandler
    <3>5. U8(verifyCnt[b] + 1) <= verifyCnt[b] + 1 /\ U8(verifyCnt[b] + 1) \in Int
      BY <3>2, <3>3, DetectionAssumption DEF U8
    <3> QED
      BY <3>2, <3>4, <3>5, DetectionAssumption
  <2>5. CASE Reset
    BY <2>5, \A b \in Detected : 0 <= Top(b) DEF Reset
  <2>6. CASE verifyCnt' = verifyCnt
    BY <2>1, <2>6
  <2> QED
    BY <2>3, <2>4, <2>5, <2>6, CounterWriters
<1> QED
  BY <1>1, <1>2, DetectionTypes, PTL DEF Spec

-----------------------------------------------------------------------------
\* A judgement tells the lamps of every change of a detected bit.
LEMMA JudgeLeds ==
  ASSUME NEW B, NEW seen, NEW watched, Judge(B, seen, watched), LedsTruthful,
         remote_shutdown' = remote_shutdown
  PROVE  LedsTruthful'
<1> DEFINE rise == Rise(B, seen, watched)
           fall == Fall(B, seen, watched)
<1>1. CASE CallsUpdate(rise, fall)
  <2>1. leds' = LedsOf(ALARM_STATE')
    BY <1>1 DEF Judge
  <2>2. LedsOf(ALARM_STATE)' = LedsOf(ALARM_STATE')
    BY DEF LedsOf
  <2> QED
    BY <2>1, <2>2 DEF LedsTruthful
<1>2. CASE ~ CallsUpdate(rise, fall)
  <2>1. rise = {} /\ fall = {}
    BY <1>2 DEF CallsUpdate
  <2>2. ALARM_STATE' = ALARM_STATE /\ leds' = leds
    BY <1>2, <2>1 DEF Judge
  <2> QED
    BY <2>2 DEF LedsTruthful, LedsOf
<1> QED
  BY <1>1, <1>2

\* The panel lamps tell the confirmed alarms, unless the host is switched off.
THEOREM DetectionLeds == Spec => []LedsTruthful
<1>1. Init => LedsTruthful
  BY NoLeds DEF Init, LedsTruthful
<1>2. TypeOK /\ LedsTruthful /\ [Next]_vars => LedsTruthful'
  <2> SUFFICES ASSUME TypeOK, LedsTruthful, [Next]_vars
               PROVE  LedsTruthful'
    OBVIOUS
  <2> USE DEF flagVars, judgeVars
  <2>1. CASE FANG_CHAI_Check
    BY <2>1, JudgeLeds DEF FANG_CHAI_Check
  <2>2. ASSUME NEW z \in Zone, ADC_Check_Handler(z)
        PROVE  LedsTruthful'
    BY <2>2, JudgeLeds DEF ADC_Check_Handler
  <2>3. CASE RemoteShutdown
    BY <2>3 DEF RemoteShutdown, LedsTruthful
  <2>4. CASE Reset
    <3>1. leds' = {} /\ LedsOf(ALARM_STATE') = {}
      BY <2>4, NoLeds DEF Reset
    <3> QED
      BY <3>1 DEF LedsTruthful, LedsOf
  <2>5. ASSUME NEW s \in SUBSET SwitchBits, Switches(s)
        PROVE  LedsTruthful'
    <3>1. ALARM_STATE' \ SwitchBits = ALARM_STATE \ SwitchBits
      BY <2>5 DEF Switches
    <3>2. LedsOf(ALARM_STATE') = LedsOf(ALARM_STATE)
      BY <3>1, LedsIgnoreSwitches
    <3>3. leds' = leds /\ remote_shutdown' = remote_shutdown
      BY <2>5 DEF Switches
    <3>4. LedsOf(ALARM_STATE)' = LedsOf(ALARM_STATE')
      BY DEF LedsOf
    <3> QED
      BY <3>2, <3>3, <3>4 DEF LedsTruthful
  <2>6. CASE UNCHANGED <<ALARM_STATE, leds, remote_shutdown>>
    BY <2>6 DEF LedsTruthful, LedsOf
  <2> QED
    BY <2>1, <2>2, <2>3, <2>4, <2>5, <2>6 DEF Next, vars, ADC_Check,
      TIM3_IRQHandler, Arm, Disarm, FangChai, SetAlarmSensitivity, Calibrate, World,
      Operate
<1> QED
  BY <1>1, <1>2, DetectionTypes, PTL DEF Spec

-----------------------------------------------------------------------------
LEMMA JudgeRecords ==
  ASSUME TypeOK, NEW B, NEW seen, NEW watched \in BOOLEAN, Judge(B, seen, watched),
         \A b \in B : watched <=> Watched(b),
         NEW b \in Logged
  PROVE  Recorded(b)
<1> DEFINE rise == Rise(B, seen, watched)
           fall == Fall(B, seen, watched)
<1>1. b \in rise <=> b \in ALARM_STATE' /\ b \notin ALARM_STATE
  BY DEF Judge, Rise, Fall
<1>2. b \in rise => Watched(b)
  BY DEF Rise
<1> QED
  BY <1>1, <1>2 DEF Judge, Recorded

\* An alarm is recorded once, when it is confirmed, and only while watched.
THEOREM DetectionRecords == Spec => OneRecordPerOnset
<1>1. TypeOK /\ [Next]_vars => [\A b \in Logged : Recorded(b)]_vars
  <2> SUFFICES ASSUME TypeOK, Next
               PROVE  \A b \in Logged : Recorded(b)
    BY DEF vars
  <2> SUFFICES ASSUME NEW b \in Logged
               PROVE  Recorded(b)
    OBVIOUS
  <2> USE DEF flagVars, judgeVars
  <2>1. CASE FANG_CHAI_Check
    <3>1. \A c \in {FCH} : flag_fcgjsn <=> Watched(c)
      BY DEF Watched
    <3> QED
      BY <2>1, <3>1, JudgeRecords DEF FANG_CHAI_Check, TypeOK
  <2>2. ASSUME NEW z \in Zone, ADC_Check_Handler(z)
        PROVE  Recorded(b)
    <3>1. \A c \in ZoneBits(z) : (z \in BU_FANG) <=> Watched(c)
      BY WordAssumption DEF Watched, ZoneBits, FCH
    <3>2. (z \in BU_FANG) \in BOOLEAN /\ Judge(ZoneBits(z), crt, z \in BU_FANG)
      BY <2>2 DEF ADC_Check_Handler
    <3> QED
      BY <3>1, <3>2, JudgeRecords
  <2>3. CASE Reset
    <3>1. b \notin ALARM_STATE' /\ nextWriteAddrVal' = nextWriteAddrVal
      BY <2>3, DetectedBits DEF Reset
    <3> QED
      BY <3>1 DEF Recorded
  <2>4. ASSUME NEW s \in SUBSET SwitchBits, Switches(s)
        PROVE  Recorded(b)
    <3>1. b \in ALARM_STATE' <=> b \in ALARM_STATE
      BY <2>4, DetectedBits DEF Switches
    <3> QED
      BY <2>4, <3>1 DEF Switches, Recorded
  <2>5. CASE UNCHANGED <<ALARM_STATE, nextWriteAddrVal>>
    BY <2>5 DEF Recorded
  <2> QED
    BY <2>1, <2>2, <2>3, <2>4, <2>5 DEF Next, ADC_Check, TIM3_IRQHandler, Arm, Disarm,
      FangChai, SetAlarmSensitivity, RemoteShutdown, Calibrate, World, Operate
<1> QED
  BY <1>1, DetectionTypes, PTL DEF Spec, OneRecordPerOnset

-----------------------------------------------------------------------------
(* The history of Verification.                                            *)

\* A counter never runs ahead of the ticks there were to count.
VerifiedInTime ==
  \A b \in FenceBits :
    b \notin ALARM_STATE => verifyCnt[b] <= since[b] + 1 \/ since[b] = SinceMax

LEMMA FenceBitsDetected ==
  /\ FenceBits \subseteq Detected
  /\ FCH \notin FenceBits
  /\ \A b \in FenceBits : b[1] \in Zone /\ b \in ZoneBits(b[1])
<1>1. FCH \notin FenceBits
  BY WordAssumption DEF FenceBits, FCH
<1> QED
  BY <1>1 DEF FenceBits, Detected, ZoneBits

\* The history follows the program and never steers it.
LEMMA HistoryImplementsSpec == HistorySpec => Spec
<1>1. HistoryInit => Init
  BY DEF HistoryInit
<1>2. [HistoryNext]_historyVars => [Next]_vars
  BY DEF HistoryNext, historyVars
<1> QED
  BY <1>1, <1>2, PTL DEF HistorySpec, Spec

\* A judgement that leaves a bit unconfirmed has put the alarm out, or found
\* the zone disarmed, and emptied its counter, or has just begun to count, or
\* has left it alone.
LEMMA JudgeCounts ==
  ASSUME TypeOK, NEW B \in SUBSET Detected, NEW seen, NEW watched \in BOOLEAN,
         Judge(B, seen, watched), NEW b \in Detected, b \notin ALARM_STATE'
  PROVE  \/ verifyCnt'[b] = 0
         \/ /\ b \notin ALARM_STATE
            /\ b \in B => watched
            /\ verifyCnt'[b] \in {1, verifyCnt[b]}
<1> DEFINE rise == Rise(B, seen, watched)
           fall == Fall(B, seen, watched)
<1>1. CASE b \in fall
  BY <1>1 DEF Judge
<1>2. CASE b \notin fall
  <2>1. b \notin ALARM_STATE
    BY <1>2 DEF Judge
  <2>2. verifyCnt'[b] \in {Counting(b), verifyCnt[b]}
    BY <1>2 DEF Judge
  <2>3. b \in B => watched
    BY <1>2 DEF Fall
  <2> QED
    BY <2>1, <2>2, <2>3, CountingType
<1> QED
  BY <1>1, <1>2

\* What a step of the history does to one bit.
LEMMA HistoryKeeps ==
  ASSUME TypeOK, HistoryOK, VerifiedInTime, Next, Remember, NEW b \in FenceBits,
         b \notin ALARM_STATE'
  PROVE  verifyCnt'[b] <= since'[b] + 1 \/ since'[b] = SinceMax
<1> DEFINE InTime(n, s) == n <= s + 1 \/ s = SinceMax
<1> SUFFICES InTime(verifyCnt'[b], since'[b])
  OBVIOUS
<1>1. /\ b \in Detected /\ b # FCH /\ b[1] \in Zone /\ b \in ZoneBits(b[1])
      /\ verifyCnt[b] \in 0 .. CntMax /\ since[b] \in 0 .. SinceMax
      /\ SinceMax \in Nat /\ CntMax \in Nat
  BY FenceBitsDetected, VerificationAssumption, DetectionAssumption DEF TypeOK, HistoryOK
<1>2. since'[b] = IF NothingVerified(b) THEN 0
                  ELSE IF Ticks(b) /\ since[b] < SinceMax THEN since[b] + 1
                  ELSE since[b]
  BY DEF Remember
<1>3. since'[b] \in 0 .. SinceMax
  BY <1>1, <1>2
<1>4. CASE verifyCnt'[b] = 0
  BY <1>1, <1>3, <1>4
<1>5. b \notin ALARM_STATE => InTime(verifyCnt[b], since[b])
  BY DEF VerifiedInTime
<1>6. ASSUME b \notin ALARM_STATE, ~ NothingVerified(b), verifyCnt'[b] \in {1, verifyCnt[b]}
      PROVE  InTime(verifyCnt'[b], since'[b])
  BY <1>1, <1>2, <1>5, <1>6
<1>7. ASSUME NEW B \in SUBSET Detected, NEW seen, NEW watched \in BOOLEAN,
             Judge(B, seen, watched), verifyCnt'[b] # 0
      PROVE  /\ b \notin ALARM_STATE
             /\ b \in B => watched
             /\ verifyCnt'[b] \in {1, verifyCnt[b]}
  BY <1>1, <1>7, JudgeCounts
<1>8. ASSUME NEW z \in Zone, ADC_Check_Handler(z), verifyCnt'[b] # 0
      PROVE  /\ b \notin ALARM_STATE
             /\ b \in ZoneBits(z) => z \in BU_FANG
             /\ verifyCnt'[b] \in {1, verifyCnt[b]}
  <2>1. ZoneBits(z) \in SUBSET Detected /\ (z \in BU_FANG) \in BOOLEAN
    BY DetectedBits
  <2>2. Judge(ZoneBits(z), crt, z \in BU_FANG)
    BY <1>8 DEF ADC_Check_Handler
  <2> QED
    BY <1>7, <1>8, <2>1, <2>2
<1>9. ASSUME FANG_CHAI_Check, verifyCnt'[b] # 0
      PROVE  b \notin ALARM_STATE /\ verifyCnt'[b] \in {1, verifyCnt[b]}
  <2>1. {FCH} \in SUBSET Detected /\ flag_fcgjsn \in BOOLEAN
    BY DetectedBits DEF TypeOK
  <2>2. Judge({FCH}, condition, flag_fcgjsn)
    BY <1>9 DEF FANG_CHAI_Check
  <2> QED
    BY <1>7, <1>9, <2>1, <2>2
<1>10. Reset => verifyCnt'[b] = 0
  BY <1>1 DEF Reset
<1>11. verifyCnt'[b] # 0 /\ b \notin ALARM_STATE => ~ NothingVerified(b)
  BY <1>1, <1>8, <1>10 DEF NothingVerified
<1> HIDE DEF InTime
<1>12. CASE FANG_CHAI_Check
  BY <1>4, <1>6, <1>9, <1>11, <1>12 DEF InTime
<1>13. ASSUME NEW z \in Zone, ADC_Check_Handler(z)
       PROVE  InTime(verifyCnt'[b], since'[b])
  BY <1>4, <1>6, <1>8, <1>11, <1>13 DEF InTime
<1>14. CASE Reset
  BY <1>4, <1>10, <1>14 DEF InTime
<1>15. CASE TIM3_IRQHandler
  <2>1. b \notin ALARM_STATE
    BY <1>15 DEF TIM3_IRQHandler
  <2>2. rtcTimeCnt' # rtcTimeCnt
    BY <1>15 DEF TIM3_IRQHandler, TypeOK
  <2>3. \/ verifyCnt'[b] = verifyCnt[b]
        \/ verifyCnt'[b] = U8(verifyCnt[b] + 1) /\ Ticks(b)
    BY <1>1, <1>15, <2>2 DEF TIM3_IRQHandler, Ticks
  <2>4. \A n \in 0 .. CntMax : U8(n + 1) <= n + 1 /\ U8(n + 1) \in Int
    BY <1>1 DEF U8
  <2>5. CASE NothingVerified(b)
    BY <1>4, <1>11, <2>1, <2>5 DEF InTime
  <2>6. CASE ~ NothingVerified(b) /\ verifyCnt'[b] = verifyCnt[b]
    BY <1>6, <2>1, <2>6
  <2>7. CASE ~ NothingVerified(b) /\ verifyCnt'[b] = U8(verifyCnt[b] + 1) /\ Ticks(b)
    BY <1>1, <1>2, <1>5, <2>1, <2>4, <2>7 DEF InTime
  <2> QED
    BY <2>3, <2>5, <2>6, <2>7
<1>16. CASE UNCHANGED verifyCnt /\ b \notin ALARM_STATE
  BY <1>4, <1>6, <1>11, <1>16 DEF InTime
<1>17. ASSUME NEW s \in SUBSET SwitchBits, Switches(s)
       PROVE  UNCHANGED verifyCnt /\ b \notin ALARM_STATE
  BY <1>1, <1>17, DetectedBits DEF Switches
<1> QED
  BY <1>12, <1>13, <1>14, <1>15, <1>16, <1>17 DEF Next, judgeVars, ADC_Check, Arm, Disarm,
    FangChai, SetAlarmSensitivity, RemoteShutdown, Calibrate, World, Operate

HistoryInv == TypeOK /\ HistoryOK /\ VerifiedInTime

LEMMA HistoryInvariant == HistorySpec => []HistoryInv
<1>1. HistoryInit => HistoryOK /\ VerifiedInTime
  BY FenceBitsDetected, VerificationAssumption
  DEF HistoryInit, Init, HistoryOK, VerifiedInTime
<1>2. TypeOK /\ HistoryOK /\ VerifiedInTime /\ [HistoryNext]_historyVars
        => HistoryOK' /\ VerifiedInTime'
  <2>1. ASSUME TypeOK, HistoryOK, VerifiedInTime, Next, Remember
        PROVE  HistoryOK' /\ VerifiedInTime'
    <3>1. HistoryOK'
      BY <2>1, VerificationAssumption DEF HistoryOK, Remember
    <3>2. VerifiedInTime'
      BY <2>1, HistoryKeeps DEF VerifiedInTime
    <3> QED
      BY <3>1, <3>2
  <2>2. ASSUME HistoryOK, VerifiedInTime, UNCHANGED historyVars
        PROVE  HistoryOK' /\ VerifiedInTime'
    BY <2>2 DEF historyVars, vars, judgeVars, HistoryOK, VerifiedInTime
  <2> QED
    BY <2>1, <2>2 DEF HistoryNext
<1>3. HistorySpec => []TypeOK
  BY HistoryImplementsSpec, DetectionTypes
<1> QED
  BY <1>1, <1>2, <1>3, PTL DEF HistorySpec, HistoryInv

\* What a judgement confirms has been counted up to what its test asks for.
LEMMA OnsetVerified ==
  ASSUME TypeOK, Next, NEW b \in FenceBits, b \in ALARM_STATE', b \notin ALARM_STATE
  PROVE  Counting(b) >= Required(b)
<1>1. b \in Detected /\ b # FCH
  BY FenceBitsDetected
<1>2. ASSUME NEW B, NEW seen, NEW watched, Judge(B, seen, watched)
      PROVE  Counting(b) >= Required(b)
  <2>1. Verified(b)
    BY <1>2 DEF Judge, Rise
  <2> QED
    BY <1>1, <2>1 DEF Verified, Required
<1>3. CASE FANG_CHAI_Check
  BY <1>2, <1>3 DEF FANG_CHAI_Check
<1>4. ASSUME NEW z \in Zone, ADC_Check_Handler(z)
      PROVE  Counting(b) >= Required(b)
  BY <1>2, <1>4 DEF ADC_Check_Handler
<1>5. ~ Reset
  BY <1>1, DetectedBits DEF Reset
<1>6. ASSUME NEW s \in SUBSET SwitchBits
      PROVE  ~ Switches(s)
  BY <1>1, DetectedBits DEF Switches
<1>7. ALARM_STATE' # ALARM_STATE
  OBVIOUS
<1> QED
  BY <1>3, <1>4, <1>5, <1>6, <1>7 DEF Next, judgeVars, ADC_Check, TIM3_IRQHandler, Arm, Disarm,
    FangChai, SetAlarmSensitivity, RemoteShutdown, Calibrate, World, Operate

\* An alarm of a zone that went out, or whose zone was checked disarmed, comes
\* back only after the verification its test asks for, however ticks, checks,
\* calibrations and changes of the sensitivity fall.
THEOREM DetectionVerifiesAnew == HistorySpec => VerifiedAnew
<1> DEFINE Kept == \A b \in FenceBits :
                     b \in ALARM_STATE' \ ALARM_STATE =>
                       since[b] + 1 >= Required(b) \/ since[b] = SinceMax
<1>1. HistoryInv /\ [HistoryNext]_historyVars => [Kept]_historyVars
  <2> SUFFICES ASSUME HistoryInv, HistoryNext, NEW b \in FenceBits,
                      b \in ALARM_STATE' \ ALARM_STATE, since[b] # SinceMax
               PROVE  since[b] + 1 >= Required(b)
    BY DEF historyVars, vars, judgeVars
  <2>1. Counting(b) >= Required(b)
    BY OnsetVerified DEF HistoryInv, HistoryNext
  <2>2. verifyCnt[b] <= since[b] + 1 /\ since[b] \in Nat
    BY VerificationAssumption DEF HistoryInv, VerifiedInTime, HistoryOK
  <2>3. Counting(b) \in Nat /\ Counting(b) <= since[b] + 1
    BY <2>2, FenceBitsDetected, CountingType, DetectionAssumption DEF HistoryInv, TypeOK
  <2>4. Required(b) \in Int
    <3>1. b[1] \in Zone /\ alarm_sensitivity \in [Zone -> Sens]
      BY FenceBitsDetected DEF HistoryInv, TypeOK
    <3>2. alarm_sensitivity[b[1]] \in Sens
      BY <3>1
    <3>3. alarm_sensitivity[b[1]] \in 0 .. CntMax
      BY <3>2, DetectionAssumption
    <3> QED
      BY <3>3 DEF Required, RELAX_VERIFIED_TIME_S
  <2> QED
    BY <2>1, <2>2, <2>3, <2>4
<1> QED
  BY <1>1, HistoryInvariant, PTL DEF HistorySpec, VerifiedAnew
=============================================================================
