---------------------------- MODULE SirenProof ----------------------------
(***************************************************************************)
(* Siren is safe for every set of zones, of silencing tasks and of delays: *)
(* its types, the silent boot window, and its four action properties.      *)
(***************************************************************************)
EXTENDS Siren, TLAPS

\* The limit of a period is a number below the cap, and not 0 unless the
\* delay is.
LEMMA LimitBounds ==
  ASSUME alarm_delay \in [Zone -> Delays], NEW z \in Zone
  PROVE  /\ Limit(z) \in Nat
         /\ Limit(z) < RunawayCap
         /\ alarm_delay[z] > 0 => Limit(z) >= 1
<1> DEFINE d == alarm_delay[z]
<1>1. d \in Delays /\ d \in Nat
  BY SirenAssumption
<1>2. d * TicksPerSecond < RunawayCap /\ TicksPerSecond \in Nat /\ TicksPerSecond >= 1
  BY <1>1, SirenAssumption
<1>3. d * TicksPerSecond \in Nat
  BY <1>1, <1>2
<1>4. d > 0 => d * TicksPerSecond >= 1
  BY <1>1, <1>2
<1> QED
  BY <1>2, <1>3, <1>4 DEF Limit

\* TIM5 leaves a counter in its range, never at 0 but from -1, 0 upwards.
LEMMA NextCntType ==
  ASSUME TypeOK, NEW z \in Zone
  PROVE  NextCnt(z) \in -1 .. RunawayCap
<1>1. alarmingCnt[z] \in -1 .. RunawayCap /\ RunawayCap \in Nat
  BY SirenAssumption DEF TypeOK
<1>2. RunawayCap >= 1
  BY LimitBounds, <1>1 DEF TypeOK
<1> QED
  BY <1>1, <1>2 DEF NextCnt

LEMMA WordTypes ==
  /\ SwitchBits \subseteq Bits
  /\ \A c \in ConfigCode : \A D, on \in SUBSET Bits : Latch(c, D, on) \in SUBSET Bits
BY DEF Bits, Latch

\* Every variable of the siren keeps the type the code declares it with.
THEOREM SirenTypes == Spec => []TypeOK
<1>1. Init => TypeOK
  <2> SUFFICES ASSUME Init PROVE TypeOK
    OBVIOUS
  <2>1. ALARM_STATE \in SUBSET Bits /\ ALARM_STATE_DELAY \in SUBSET Bits
    BY WordTypes DEF Init
  <2>2. alarmingCnt \in [Zone -> -1 .. RunawayCap]
    BY SirenAssumption DEF Init
  <2> QED
    BY <2>1, <2>2 DEF Init, TypeOK
<1>2. TypeOK /\ [Next]_vars => TypeOK'
  <2> SUFFICES ASSUME TypeOK, [Next]_vars PROVE TypeOK'
    OBVIOUS
  <2> USE DEF wordVars, ringVars, taskVars, paramVars
  <2>1. CASE TIM5_IRQHandler
    <3>1. alarmingCnt' \in [Zone -> -1 .. RunawayCap]
      BY <2>1, NextCntType DEF TIM5_IRQHandler
    <3>2. RL' \in [Zone -> BOOLEAN]
      BY <2>1 DEF TIM5_IRQHandler, TypeOK, Rings, AtDecision, Alarmed, Expires
    <3> QED
      BY <2>1, <3>1, <3>2 DEF TIM5_IRQHandler, TypeOK
  <2>2. ASSUME NEW s \in Silencer, NEW z \in Zone, BeginSilence(s, z)
        PROVE  TypeOK'
    BY <2>2 DEF BeginSilence, TypeOK
  <2>3. ASSUME NEW s \in Silencer, SilenceStep(s)
        PROVE  TypeOK'
    <3>1. -1 \in -1 .. RunawayCap
      BY SirenAssumption
    <3>2. CASE SilenceCount(s)
      BY <3>1, <3>2 DEF SilenceCount, TypeOK
    <3>3. CASE SilenceLoad(s)
      BY <3>3 DEF SilenceLoad, TypeOK
    <3>4. CASE SilenceStore(s)
      BY <3>4 DEF SilenceStore, TypeOK
    <3> QED
      BY <2>3, <3>2, <3>3, <3>4 DEF SilenceStep
  <2>4. ASSUME NEW on \in SUBSET Bits, NEW off \in SUBSET Bits, StateUpdate(on, off)
        PROVE  TypeOK'
    BY <2>4, WordTypes DEF StateUpdate, TypeOK
  <2>5. ASSUME NEW z \in Zone, NEW d \in Delays, SetAlarmDelay(z, d)
        PROVE  TypeOK'
    BY <2>5 DEF SetAlarmDelay, TypeOK
  <2>6. ASSUME NEW c \in ConfigCode, SetConfigCode(c)
        PROVE  TypeOK'
    BY <2>6 DEF SetConfigCode, TypeOK
  <2>7. CASE UNCHANGED vars
    BY <2>7 DEF vars, TypeOK
  <2> QED
    BY <2>1, <2>2, <2>3, <2>4, <2>5, <2>6, <2>7 DEF Next
<1> QED
  BY <1>1, <1>2, PTL DEF Spec

\* BootWindowSilent: no siren is on while its counter has not left the value
\* it was given at power-on.
THEOREM SirenBootWindow == Spec => []BootWindowSilent
<1>1. Init => BootWindowSilent
  BY DEF Init, BootWindowSilent
<1>2. TypeOK /\ BootWindowSilent /\ [Next]_vars => BootWindowSilent'
  <2> SUFFICES ASSUME TypeOK, BootWindowSilent, [Next]_vars, NEW z \in Zone
               PROVE  RL'[z] => alarmingCnt'[z] # 0
    BY DEF BootWindowSilent
  <2>0. RL[z] => alarmingCnt[z] # 0
    BY DEF BootWindowSilent
  <2> USE DEF ringVars
  <2>1. CASE TIM5_IRQHandler
    <3>1. alarmingCnt'[z] = NextCnt(z) /\ RL'[z] = (Rings(z) \/ (RL[z] /\ ~ Expires(z)))
      BY <2>1 DEF TIM5_IRQHandler
    <3>2. alarmingCnt[z] \in -1 .. RunawayCap /\ RunawayCap \in Nat
      BY SirenAssumption DEF TypeOK
    <3>3. CASE Rings(z)
      BY <3>1, <3>3 DEF NextCnt
    <3>4. CASE ~ Rings(z) /\ RL[z] /\ ~ Expires(z)
      <4>1. alarmingCnt[z] # Limit(z) \/ alarmingCnt[z] = -1
        BY <3>4 DEF Rings, Expires, AtDecision
      <4> QED
        BY <4>1, <3>1, <3>2, <3>4, <2>0 DEF NextCnt, AtDecision
    <3> QED
      BY <3>1, <3>3, <3>4
  <2>2. ASSUME NEW s \in Silencer, NEW y \in Zone, BeginSilence(s, y)
        PROVE  RL'[z] => alarmingCnt'[z] # 0
    BY <2>2, <2>0 DEF BeginSilence, TypeOK
  <2>3. ASSUME NEW s \in Silencer, SilenceStep(s)
        PROVE  RL'[z] => alarmingCnt'[z] # 0
    BY <2>3, <2>0 DEF SilenceStep, SilenceCount, SilenceLoad, SilenceStore, TypeOK
  <2>4. ASSUME NEW on \in SUBSET Bits, NEW off \in SUBSET Bits, StateUpdate(on, off)
        PROVE  RL'[z] => alarmingCnt'[z] # 0
    BY <2>4, <2>0 DEF StateUpdate
  <2>5. ASSUME NEW y \in Zone, NEW d \in Delays, SetAlarmDelay(y, d)
        PROVE  RL'[z] => alarmingCnt'[z] # 0
    BY <2>5, <2>0 DEF SetAlarmDelay
  <2>6. ASSUME NEW c \in ConfigCode, SetConfigCode(c)
        PROVE  RL'[z] => alarmingCnt'[z] # 0
    BY <2>6, <2>0 DEF SetConfigCode
  <2>7. CASE UNCHANGED vars
    BY <2>7, <2>0 DEF vars
  <2> QED
    BY <2>1, <2>2, <2>3, <2>4, <2>5, <2>6, <2>7 DEF Next
<1> QED
  BY <1>1, <1>2, SirenTypes, PTL DEF Spec

\* WindowKept: a ringing period that will meet its limit keeps to it, unless
\* its alarm_delay is changed under it.
THEOREM SirenWindowKept == Spec => WindowKept
<1> DEFINE Kept(z) == InWindow(z) /\ alarm_delay'[z] = alarm_delay[z] => InWindow(z)'
<1>1. TypeOK /\ [Next]_vars => [\A z \in Zone : Kept(z)]_vars
  <2> SUFFICES ASSUME TypeOK, [Next]_vars, NEW z \in Zone,
                      InWindow(z), alarm_delay'[z] = alarm_delay[z]
               PROVE  InWindow(z)'
    OBVIOUS
  <2>0. /\ alarm_delay[z] > 0
        /\ alarmingCnt[z] <= Limit(z)
        /\ Limit(z)' = Limit(z)
        /\ Limit(z) \in Nat /\ Limit(z) >= 1
        /\ alarmingCnt[z] \in -1 .. RunawayCap /\ RunawayCap \in Nat
    BY LimitBounds, SirenAssumption DEF InWindow, TypeOK, Limit
  <2>1. SUFFICES alarmingCnt'[z] <= Limit(z)
    BY <2>0 DEF InWindow
  <2> USE DEF ringVars, TypeOK
  <2>2. CASE TIM5_IRQHandler
    <3>1. alarmingCnt'[z] = NextCnt(z)
      BY <2>2 DEF TIM5_IRQHandler
    <3> QED
      BY <3>1, <2>0 DEF NextCnt, Rings, AtDecision
  <2>3. ASSUME NEW s \in Silencer, NEW y \in Zone, BeginSilence(s, y)
        PROVE  alarmingCnt'[z] <= Limit(z)
    BY <2>3, <2>0 DEF BeginSilence
  <2>4. ASSUME NEW s \in Silencer, SilenceStep(s)
        PROVE  alarmingCnt'[z] <= Limit(z)
    BY <2>4, <2>0 DEF SilenceStep, SilenceCount, SilenceLoad, SilenceStore
  <2>5. ASSUME NEW on \in SUBSET Bits, NEW off \in SUBSET Bits, StateUpdate(on, off)
        PROVE  alarmingCnt'[z] <= Limit(z)
    BY <2>5, <2>0 DEF StateUpdate
  <2>6. ASSUME NEW y \in Zone, NEW d \in Delays, SetAlarmDelay(y, d)
        PROVE  alarmingCnt'[z] <= Limit(z)
    BY <2>6, <2>0 DEF SetAlarmDelay
  <2>7. ASSUME NEW c \in ConfigCode, SetConfigCode(c)
        PROVE  alarmingCnt'[z] <= Limit(z)
    BY <2>7, <2>0 DEF SetConfigCode
  <2>8. CASE UNCHANGED vars
    BY <2>8, <2>0 DEF vars
  <2> QED
    BY <2>2, <2>3, <2>4, <2>5, <2>6, <2>7, <2>8 DEF Next
<1> QED
  BY <1>1, SirenTypes, PTL DEF Spec, WindowKept

\* OrphanOnlyByTornSilence: TIM5 itself never leaves a siren on uncounted, so
\* the second store of a silence is the only step that can.
THEOREM SirenOrphans == Spec => OrphanOnlyByTornSilence
<1> DEFINE Torn(z) == \E s \in Silencer : pc[s] = "count" /\ pc'[s] = "load" /\ target[s] = z
           OnlyTorn(z) == Orphan(z)' /\ ~ Orphan(z) => Torn(z)
<1>1. TypeOK /\ BootWindowSilent /\ [Next]_vars => [\A z \in Zone : OnlyTorn(z)]_vars
  <2> SUFFICES ASSUME TypeOK, [Next]_vars, NEW z \in Zone,
                      RL'[z], alarmingCnt'[z] = -1, ~ (RL[z] /\ alarmingCnt[z] = -1)
               PROVE  Torn(z)
    BY DEF Orphan
  <2> USE DEF ringVars, TypeOK
  <2>1. CASE TIM5_IRQHandler
    <3>1. alarmingCnt'[z] = NextCnt(z) /\ RL'[z] = (Rings(z) \/ (RL[z] /\ ~ Expires(z)))
      BY <2>1 DEF TIM5_IRQHandler
    <3>2. alarmingCnt[z] \in -1 .. RunawayCap /\ RunawayCap \in Nat
      BY SirenAssumption
    <3>3. ~ Rings(z)
      BY <3>1 DEF NextCnt
    <3>4. RL[z] /\ ~ Expires(z) /\ alarmingCnt[z] # -1
      BY <3>1, <3>3
    <3>5. ~ AtDecision(z)
      BY <3>3, <3>4 DEF Rings, Expires, AtDecision
    <3> QED
      BY <3>1, <3>2, <3>3, <3>4, <3>5 DEF NextCnt
  <2>2. ASSUME NEW s \in Silencer, NEW y \in Zone, BeginSilence(s, y)
        PROVE  Torn(z)
    BY <2>2 DEF BeginSilence
  <2>3. ASSUME NEW s \in Silencer, SilenceCount(s)
        PROVE  Torn(z)
    <3>1. target[s] = z
      BY <2>3 DEF SilenceCount
    <3> QED
      BY <2>3, <3>1 DEF SilenceCount
  <2>4. ASSUME NEW s \in Silencer, SilenceLoad(s) \/ SilenceStore(s)
        PROVE  Torn(z)
    BY <2>4 DEF SilenceLoad, SilenceStore
  <2>5. ASSUME NEW on \in SUBSET Bits, NEW off \in SUBSET Bits, StateUpdate(on, off)
        PROVE  Torn(z)
    BY <2>5 DEF StateUpdate
  <2>6. ASSUME NEW y \in Zone, NEW d \in Delays, SetAlarmDelay(y, d)
        PROVE  Torn(z)
    BY <2>6 DEF SetAlarmDelay
  <2>7. ASSUME NEW c \in ConfigCode, SetConfigCode(c)
        PROVE  Torn(z)
    BY <2>7 DEF SetConfigCode
  <2>8. CASE UNCHANGED vars
    BY <2>8 DEF vars
  <2> QED
    BY <2>1, <2>2, <2>3, <2>4, <2>5, <2>6, <2>7, <2>8 DEF Next, SilenceStep
<1> QED
  BY <1>1, SirenTypes, SirenBootWindow, PTL DEF Spec, OrphanOnlyByTornSilence

\* What a step does to the latched word: it grows, or it is replaced by the
\* live word, or by the load of a silence.
LEMMA LatchStep ==
  ASSUME TypeOK, [Next]_vars
  PROVE  \/ ALARM_STATE_DELAY \subseteq ALARM_STATE_DELAY'
         \/ ALARM_STATE_DELAY' = ALARM_STATE /\ ALARM_STATE' = ALARM_STATE
         \/ \E s \in Silencer : /\ pc[s] = "store" /\ pc'[s] = "idle"
                                /\ ALARM_STATE_DELAY' = copy[s]
                                /\ ALARM_STATE' = ALARM_STATE
<1> USE DEF wordVars, TypeOK
<1>1. CASE TIM5_IRQHandler
  BY <1>1 DEF TIM5_IRQHandler
<1>2. ASSUME NEW s \in Silencer, NEW z \in Zone, BeginSilence(s, z)
      PROVE  ALARM_STATE_DELAY \subseteq ALARM_STATE_DELAY'
  BY <1>2 DEF BeginSilence
<1>3. ASSUME NEW s \in Silencer, SilenceCount(s) \/ SilenceLoad(s)
      PROVE  ALARM_STATE_DELAY \subseteq ALARM_STATE_DELAY'
  BY <1>3 DEF SilenceCount, SilenceLoad
<1>4. ASSUME NEW s \in Silencer, SilenceStore(s)
      PROVE  /\ pc[s] = "store" /\ pc'[s] = "idle"
             /\ ALARM_STATE_DELAY' = copy[s] /\ ALARM_STATE' = ALARM_STATE
  BY <1>4 DEF SilenceStore
<1>5. ASSUME NEW on \in SUBSET Bits, NEW off \in SUBSET Bits, StateUpdate(on, off)
      PROVE  ALARM_STATE_DELAY \subseteq ALARM_STATE_DELAY'
  BY <1>5 DEF StateUpdate, Latch
<1>6. ASSUME NEW z \in Zone, NEW d \in Delays, SetAlarmDelay(z, d)
      PROVE  ALARM_STATE_DELAY \subseteq ALARM_STATE_DELAY'
  BY <1>6 DEF SetAlarmDelay
<1>7. ASSUME NEW c \in ConfigCode, SetConfigCode(c)
      PROVE  ALARM_STATE_DELAY \subseteq ALARM_STATE_DELAY'
  BY <1>7 DEF SetConfigCode
<1>8. CASE UNCHANGED vars
  BY <1>8 DEF vars
<1> QED
  BY <1>1, <1>2, <1>3, <1>4, <1>5, <1>6, <1>7, <1>8 DEF Next, SilenceStep

\* LatchDropsOnlyDead: an alarm leaves the latched word only when it is not
\* live, or was not when the silence that removes it looked.
THEOREM SirenLatchDrops == Spec => LatchDropsOnlyDead
<1> DEFINE Dead(b) ==
             \/ b \notin ALARM_STATE
             \/ \E s \in Silencer : pc[s] = "store" /\ pc'[s] = "idle" /\ b \notin copy[s]
<1>1. TypeOK /\ [Next]_vars => [\A b \in ALARM_STATE_DELAY \ ALARM_STATE_DELAY' : Dead(b)]_vars
  BY LatchStep
<1> QED
  BY <1>1, SirenTypes, PTL DEF Spec, LatchDropsOnlyDead

\* LatchCoversLive: a live alarm is missing from the latched word only when
\* latching was off as it came, or a silence stored an older load over it.
THEOREM SirenLatchCovers == Spec => LatchCoversLive
<1> DEFINE Excused ==
             \/ NO_DELAY \in config_code
             \/ \E s \in Silencer :
                  pc[s] = "store" /\ pc'[s] = "idle" /\ ~ (ALARM_STATE \subseteq copy[s])
<1>1. TypeOK /\ [Next]_vars => [Covered /\ ~ Covered' => Excused]_vars
  <2> SUFFICES ASSUME TypeOK, [Next]_vars, Covered, ~ Covered'
               PROVE  Excused
    OBVIOUS
  <2>1. ASSUME NEW on \in SUBSET Bits, NEW off \in SUBSET Bits, StateUpdate(on, off)
        PROVE  Excused
    BY <2>1 DEF StateUpdate, Latch, Covered
  <2>2. CASE ~ \E on, off \in SUBSET Bits : StateUpdate(on, off)
    <3>1. ALARM_STATE' = ALARM_STATE
      BY <2>2 DEF Next, SilenceStep, TIM5_IRQHandler, BeginSilence, SilenceCount,
                  SilenceLoad, SilenceStore, SetAlarmDelay, SetConfigCode, vars, wordVars
    <3> QED
      BY <3>1, LatchStep DEF Covered
  <2> QED
    BY <2>1, <2>2
<1> QED
  BY <1>1, SirenTypes, PTL DEF Spec, LatchCoversLive

\* The sirens keep their contract: what the interrupt and the silences do to
\* counters and relays is, seen from outside, what SirenContract allows.
THEOREM SirenKeepsContract == Spec => ContractKept
<1> DEFINE alarmed == {z \in Zone : Alarmed(z)}
           ringing == {z \in Zone : RL[z]}
           silences == {<<s, target[s]>> : s \in {t \in Silencer : pc[t] # "idle"}}
           Same == UNCHANGED <<alarmed, ringing, silences>>
<1>1. Init => Contract!Init
  <2> SUFFICES ASSUME Init
               PROVE  alarmed \subseteq Zone /\ ringing = {} /\ silences = {}
    BY DEF Contract!Init
  <2> QED
    BY DEF Init
<1>2. TypeOK /\ [Next]_vars => [Contract!Next]_<<alarmed, ringing, silences>>
  <2> SUFFICES ASSUME TypeOK, [Next]_vars
               PROVE  Contract!Next \/ Same
    OBVIOUS
  <2> USE DEF wordVars, ringVars, taskVars, paramVars
  <2>1. CASE TIM5_IRQHandler
    <3> DEFINE on == {z \in Zone : Rings(z)}
               off == {z \in Zone : Expires(z)}
    <3>1. alarmed' = alarmed /\ silences' = silences
      BY <2>1 DEF TIM5_IRQHandler, Alarmed
    <3>2. on \subseteq alarmed /\ off \cap alarmed = {}
      BY DEF Rings, Expires
    <3>3. ringing' = (ringing \cup on) \ off
      BY <2>1 DEF TIM5_IRQHandler, Rings, Expires
    <3>4. on \in SUBSET Zone /\ off \in SUBSET Zone
      OBVIOUS
    <3> HIDE DEF on, off, alarmed, ringing, silences
    <3>5. \E up, down \in SUBSET Zone :
            /\ up \subseteq alarmed
            /\ down \cap alarmed = {}
            /\ ringing' = (ringing \cup up) \ down
            /\ UNCHANGED <<alarmed, silences>>
      BY <3>1, <3>2, <3>3, <3>4
    <3> QED
      BY <3>5 DEF Contract!Next, Contract!Clock, alarmed, ringing, silences
  <2>2. ASSUME NEW s \in Silencer, NEW z \in Zone, BeginSilence(s, z)
        PROVE  Contract!Next
    <3>1. alarmed' = alarmed
      BY <2>2 DEF BeginSilence, Alarmed
    <3>2. ringing' = ringing \ {z}
      BY <2>2 DEF BeginSilence, TypeOK
    <3>3. /\ pc[s] = "idle" /\ pc' = [pc EXCEPT ![s] = "count"]
          /\ target' = [target EXCEPT ![s] = z]
      BY <2>2 DEF BeginSilence
    <3>4. \A y \in Zone : <<s, y>> \notin silences
      BY <3>3
    <3>5. silences' = silences \cup {<<s, z>>}
      <4>1. \A t \in Silencer :
              /\ pc'[t] # "idle" <=> pc[t] # "idle" \/ t = s
              /\ target'[t] = IF t = s THEN z ELSE target[t]
        BY <3>3 DEF TypeOK
      <4> QED
        BY <3>3, <4>1
    <3> HIDE DEF alarmed, ringing, silences
    <3>6. \E t \in Silencer : \E y \in Zone : Contract!Silence(t, y)
      BY <3>1, <3>2, <3>4, <3>5 DEF Contract!Silence, alarmed, ringing, silences
    <3> QED
      BY <3>6 DEF Contract!Next
  <2>3. ASSUME NEW s \in Silencer, SilenceCount(s) \/ SilenceLoad(s)
        PROVE  Same
    <3>1. UNCHANGED <<ALARM_STATE, config_code, RL, target>>
      BY <2>3 DEF SilenceCount, SilenceLoad
    <3>2. \A t \in Silencer : pc'[t] # "idle" <=> pc[t] # "idle"
      BY <2>3 DEF SilenceCount, SilenceLoad, TypeOK
    <3> QED
      BY <3>1, <3>2 DEF Alarmed
  <2>4. ASSUME NEW s \in Silencer, SilenceStore(s)
        PROVE  Contract!Next
    <3>1. UNCHANGED <<ALARM_STATE, config_code, RL, target>> /\ pc[s] = "store"
      BY <2>4 DEF SilenceStore
    <3>2. \A t \in Silencer : pc'[t] # "idle" <=> pc[t] # "idle" /\ t # s
      BY <2>4 DEF SilenceStore, TypeOK
    <3>3. target[s] \in Zone /\ <<s, target[s]>> \in silences
      BY <3>1 DEF TypeOK
    <3>4. silences' = silences \ {<<s, target[s]>>}
      BY <3>1, <3>2
    <3>5. UNCHANGED <<alarmed, ringing>>
      BY <3>1 DEF Alarmed
    <3> HIDE DEF alarmed, ringing, silences
    <3>6. \E t \in Silencer : \E y \in Zone : Contract!Silenced(t, y)
      BY <3>3, <3>4, <3>5 DEF Contract!Silenced, alarmed, ringing, silences
    <3> QED
      BY <3>6 DEF Contract!Next
  <2>5. CASE UNCHANGED <<RL, pc, target>>
    <3>1. alarmed' \in SUBSET Zone /\ UNCHANGED <<ringing, silences>>
      BY <2>5
    <3> HIDE DEF alarmed, ringing, silences
    <3>2. \E zones \in SUBSET Zone : alarmed' = zones /\ UNCHANGED <<ringing, silences>>
      BY <3>1
    <3> QED
      BY <3>2 DEF Contract!Next, Contract!Alarms, alarmed, ringing, silences
  <2> QED
    BY <2>1, <2>2, <2>3, <2>4, <2>5 DEF Next, SilenceStep,
      StateUpdate, SetAlarmDelay, SetConfigCode, vars
<1> QED
  BY <1>1, <1>2, SirenTypes, PTL DEF Spec, ContractKept, Contract!Spec
=============================================================================
