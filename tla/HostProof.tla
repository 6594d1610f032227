----------------------------- MODULE HostProof -----------------------------
(***************************************************************************)
(* Two parts of the program that share no state.                           *)
(*                                                                         *)
(* The alarm host is a detection and a pair of sirens: each of its steps   *)
(* is, for either part, one that part's module knows, for any number of    *)
(* zones, switches and tasks.                                              *)
(*                                                                         *)
(* The pager, for any ring and any pages that fill it evenly: a reader     *)
(* that nothing disturbed is on a page whose newest record is a whole      *)
(* number of pages below the newest of the log, and the cursor is at the   *)
(* end of that page the reader came to last.                               *)
(***************************************************************************)
EXTENDS AlarmHost, LogPager, WellFoundedInduction, SequenceTheorems, TLAPS

-----------------------------------------------------------------------------
(* The alarm host                                                          *)

\* The parts name the bits of one word.
LEMMA SameWord ==
  /\ D!SwitchBits = SwitchBits /\ S!SwitchBits = SwitchBits
  /\ S!FCH = FCH /\ S!Bits = Bits /\ S!ConfigCode = ConfigCode
  /\ \A z \in Zone : S!ZoneBits(z) = ZoneBits(z)
  BY DEF D!SwitchBits, S!SwitchBits, SwitchBits, S!FCH, FCH, S!Bits, Bits,
         S!ZoneBits, ZoneBits, S!ConfigCode, ConfigCode, S!NO_DELAY, NO_DELAY,
         S!NO_RLX_RING, NO_RLX_RING

\* What a check confirms and what it withdraws are apart, and within the bits
\* it judges.
LEMMA JudgedApart ==
  ASSUME NEW B \in SUBSET Bits, NEW seen, NEW watched
  PROVE  /\ D!Rise(B, seen, watched) \in SUBSET B
         /\ D!Fall(B, seen, watched) \in SUBSET B
         /\ D!Rise(B, seen, watched) \cap D!Fall(B, seen, watched) = {}
  BY DEF D!Rise, D!Fall

\* The host is a detection: DetectionKept, for every value of the constants.
THEOREM HostIsDetection == HostSpec => DetectionKept
<1>1. HostInit => D!Init
  BY DEF HostInit
<1>2. [HostNext]_hostVars => [D!Next]_(D!vars)
  <2> SUFFICES ASSUME [HostNext]_hostVars
               PROVE  D!Next \/ UNCHANGED D!vars
    OBVIOUS
  <2> USE DEF detectionOnly, D!vars, D!flagVars, D!judgeVars
  <2>1. CASE FangChaiCheck
    BY <2>1 DEF FangChaiCheck, D!Next
  <2>2. CASE \E z \in Zone : Sample(z)
    BY <2>2 DEF Sample, D!Next
  <2>3. CASE \E z \in Zone : JudgeZone(z)
    BY <2>3 DEF JudgeZone, D!Next
  <2>4. CASE TIM3
    BY <2>4 DEF TIM3, D!Next
  <2>5. CASE TIM5
    BY <2>5 DEF TIM5, S!TIM5_IRQHandler
  <2>6. ASSUME NEW s \in Switch, NEW closed \in BOOLEAN, SwitchUpdate(s, closed)
        PROVE  D!Next
    <3> DEFINE moved == ALARM_STATE' \cap SwitchBits
    <3>1. moved \in SUBSET SwitchBits
      OBVIOUS
    <3>2. SwBit(s) \in SwitchBits
      BY DEF SwBit, SwitchBits
    <3>3. ALARM_STATE' = (ALARM_STATE \ SwitchBits) \cup moved /\ UNCHANGED detectionOnly
      BY <2>6, <3>2 DEF SwitchUpdate, Opened, S!StateUpdate
    <3> HIDE DEF moved
    <3>4. \E m \in SUBSET SwitchBits :
            /\ ALARM_STATE' = (ALARM_STATE \ SwitchBits) \cup m
            /\ UNCHANGED detectionOnly
      BY <3>1, <3>3
    <3>5. \E m \in SUBSET SwitchBits : D!Switches(m)
      BY <3>4, SameWord DEF D!Switches
    <3> QED
      BY <3>5, SameWord DEF D!Next
  <2>7. CASE \/ \E s \in Silencer : \E z \in Zone : BeginSilence(s, z)
             \/ \E s \in Silencer : SilenceStep(s)
             \/ Setting
    BY <2>7 DEF BeginSilence, SilenceStep, Setting, S!BeginSilence, S!SilenceStep,
                S!SilenceCount, S!SilenceLoad, S!SilenceStore, S!SetAlarmDelay,
                S!SetConfigCode, S!wordVars
  <2>8. CASE Operation
    BY <2>8 DEF Operation, D!Next
  <2>9. CASE Environment
    BY <2>9 DEF Environment, D!Next
  <2> QED
    BY <2>1, <2>2, <2>3, <2>4, <2>5, <2>6, <2>7, <2>8, <2>9 DEF HostNext, hostVars
<1> QED
  BY <1>1, <1>2, PTL DEF HostSpec, DetectionKept

\* The host is a pair of sirens: SirenKept, for every value of the constants.
THEOREM HostIsSirens == HostSpec => SirenKept
<1>1. HostInit => S!Init
  BY DEF HostInit
<1> DEFINE Grouped(on, off) ==
             /\ on \cap off = {}
             /\ \E B \in S!Checked : on \cup off \subseteq B
             /\ S!StateUpdate(on, off)
<1>2. [HostNext]_hostVars => [S!Next]_(S!vars)
  <2> SUFFICES ASSUME [HostNext]_hostVars
               PROVE  S!Next \/ UNCHANGED S!vars
    OBVIOUS
  <2> USE DEF sirenOnly, S!vars, S!wordVars, S!ringVars, S!taskVars, S!paramVars
  <2>1. CASE FangChaiCheck
    <3> DEFINE on == D!Rise({FCH}, condition, flag_fcgjsn)
               off == D!Fall({FCH}, condition, flag_fcgjsn)
    <3>1. {FCH} \in S!Checked /\ {FCH} \in SUBSET Bits
      BY SameWord DEF S!Checked, Bits
    <3>2. on \in SUBSET {FCH} /\ off \in SUBSET {FCH} /\ on \cap off = {}
      BY <3>1, JudgedApart
    <3>3. S!StateUpdate(on, off)
      BY <2>1 DEF FangChaiCheck, Judged
    <3> HIDE DEF on, off
    <3>4. on \in SUBSET Bits /\ off \in SUBSET Bits
      BY <3>1, <3>2
    <3>5. \E B \in S!Checked : on \cup off \subseteq B
      BY <3>1, <3>2
    <3>6. \E up, down \in SUBSET Bits : Grouped(up, down)
      BY <3>2, <3>3, <3>4, <3>5 DEF S!StateUpdate
    <3> QED
      BY <3>6, SameWord DEF S!Next
  <2>3. ASSUME NEW z \in Zone, JudgeZone(z)
        PROVE  S!Next
    <3> DEFINE on == D!Rise(ZoneBits(z), crt, z \in BU_FANG)
               off == D!Fall(ZoneBits(z), crt, z \in BU_FANG)
    <3>1. ZoneBits(z) \in S!Checked /\ ZoneBits(z) \in SUBSET Bits
      BY SameWord DEF S!Checked, Bits, ZoneBits
    <3>2. on \in SUBSET ZoneBits(z) /\ off \in SUBSET ZoneBits(z) /\ on \cap off = {}
      BY <3>1, JudgedApart
    <3>3. S!StateUpdate(on, off)
      BY <2>3 DEF JudgeZone, Judged
    <3> HIDE DEF on, off
    <3>4. on \in SUBSET Bits /\ off \in SUBSET Bits
      BY <3>1, <3>2
    <3>5. \E B \in S!Checked : on \cup off \subseteq B
      BY <3>1, <3>2
    <3>6. \E up, down \in SUBSET Bits : Grouped(up, down)
      BY <3>2, <3>3, <3>4, <3>5 DEF S!StateUpdate
    <3> QED
      BY <3>6, SameWord DEF S!Next
  <2>4. CASE TIM3 \/ \E z \in Zone : Sample(z)
    BY <2>4 DEF TIM3, Sample, D!TIM3_IRQHandler, D!ADC_Check, D!judgeVars
  <2>5. CASE TIM5
    BY <2>5 DEF TIM5, S!Next
  <2>6. ASSUME NEW s \in Switch, NEW closed \in BOOLEAN, SwitchUpdate(s, closed)
        PROVE  S!Next
    <3> DEFINE on == IF closed THEN {SwBit(s)} ELSE {}
               off == IF closed THEN {} ELSE Opened(s)
    <3>1. SwBit(s) \in SwitchBits /\ {SwBit(s)} \in S!Checked
      BY SameWord DEF SwBit, SwitchBits, S!Checked
    <3>2. on \in SUBSET Bits /\ off \in SUBSET Bits /\ on \cap off = {}
          /\ on \cup off \subseteq {SwBit(s)}
      BY <3>1 DEF Opened, Bits
    <3>3. S!StateUpdate(on, off)
      BY <2>6 DEF SwitchUpdate
    <3> HIDE DEF on, off
    <3>4. \E up, down \in SUBSET Bits : Grouped(up, down)
      BY <3>1, <3>2, <3>3 DEF S!StateUpdate
    <3> QED
      BY <3>4, SameWord DEF S!Next
  <2>7. CASE \/ \E s \in Silencer : \E z \in Zone : BeginSilence(s, z)
             \/ \E s \in Silencer : SilenceStep(s)
    BY <2>7 DEF BeginSilence, SilenceStep, S!Next
  <2>8. CASE Setting
    BY <2>8, HostAssumption, SameWord DEF Setting, S!Next
  <2>9. CASE Operation \/ Environment
    BY <2>9 DEF Operation, Environment, D!Arm, D!Disarm, D!FangChai, D!Operate,
                D!SetAlarmSensitivity, D!RemoteShutdown, D!World, D!Calibrate, D!judgeVars
  <2> QED
    BY <2>1, <2>3, <2>4, <2>5, <2>6, <2>7, <2>8, <2>9 DEF HostNext, hostVars
<1> QED
  BY <1>1, <1>2, PTL DEF HostSpec, SirenKept

-----------------------------------------------------------------------------
(* The loops of the page readers                                           *)

\* A set of naturals that is not empty has a least member.
LEMMA Least ==
  ASSUME NEW T \in SUBSET Nat, T # {}
  PROVE  \E n \in T : \A m \in T : ~ m < n
<1>1. \E n \in T : \A m \in T : ~ (<<m, n>> \in OpToRel(<, Nat))
  BY NatLessThanWellFounded, WFMin
<1>2. \A m, n \in T : <<m, n>> \in OpToRel(<, Nat) <=> m < n
  BY DEF OpToRel
<1> QED
  BY <1>1, <1>2

\* Induction, as a statement about sets.
LEMMA SetInduction ==
  ASSUME NEW T \in SUBSET Nat, 0 \in T, \A n \in T : n + 1 \in T
  PROVE  T = Nat
<1> DEFINE U == Nat \ T
<1> SUFFICES ASSUME U # {}
             PROVE  FALSE
  OBVIOUS
<1>1. PICK n \in U : \A m \in U : ~ m < n
  BY Least
<1>2. n # 0 /\ n - 1 \in Nat
  BY <1>1
<1>3. n - 1 \in T
  BY <1>1, <1>2
<1>4. (n - 1) + 1 \in T /\ (n - 1) + 1 = n
  BY <1>1, <1>3
<1> QED
  BY <1>1, <1>4

\* One turn of the loops of the page readers.
ReadOne(t, way, s) ==
  IF s.empty THEN s ELSE IF way = "DOWN" THEN ReadNextLog(t, s) ELSE ReadPreviousLog(t, s)

\* f holds the state of such a loop after each of its N turns.
Loops(f, t, way, start, N) ==
  f = [i \in 0 .. N |-> IF i = 0 THEN start ELSE ReadOne(t, way, f[i - 1])]

\* The loop has a result, however many turns it makes.
LEMMA LoopExists ==
  ASSUME NEW t, NEW way, NEW start
  PROVE  \A N \in Nat : \E f : Loops(f, t, way, start, N)
<1> DEFINE T == {N \in Nat : \E f : Loops(f, t, way, start, N)}
<1>1. 0 \in T
  <2> DEFINE f == [i \in 0 .. 0 |-> start]
  <2>1. f = [i \in 0 .. 0 |-> IF i = 0 THEN start ELSE ReadOne(t, way, f[i - 1])]
    OBVIOUS
  <2> HIDE DEF f
  <2> QED
    BY <2>1 DEF Loops
<1>2. ASSUME NEW N \in T
      PROVE  N + 1 \in T
  <2>1. N \in Nat
    OBVIOUS
  <2>2. PICK f : Loops(f, t, way, start, N)
    OBVIOUS
  <2> DEFINE g == [i \in 0 .. N + 1 |-> IF i = 0 THEN start ELSE ReadOne(t, way, f[i - 1])]
  <2>3. \A i \in 0 .. N : g[i] = f[i]
    BY <2>1, <2>2 DEF Loops
  <2>4. ASSUME NEW i \in 0 .. N + 1, i # 0
        PROVE  f[i - 1] = g[i - 1]
    <3>1. i - 1 \in 0 .. N
      BY <2>1, <2>4
    <3> HIDE DEF g
    <3> QED
      BY <2>3, <3>1
  <2>5. g = [i \in 0 .. N + 1 |-> IF i = 0 THEN start ELSE ReadOne(t, way, g[i - 1])]
    <3> DEFINE h == [i \in 0 .. N + 1 |-> IF i = 0 THEN start ELSE ReadOne(t, way, g[i - 1])]
    <3>1. ASSUME NEW i \in 0 .. N + 1
          PROVE  g[i] = h[i]
      <4>1. CASE i = 0
        BY <4>1
      <4>2. CASE i # 0
        <5>1. g[i] = ReadOne(t, way, f[i - 1])
          BY <4>2
        <5>2. f[i - 1] = g[i - 1]
          BY <2>4, <4>2
        <5>3. h[i] = ReadOne(t, way, g[i - 1])
          BY <4>2
        <5> HIDE DEF g, h
        <5> QED
          BY <5>1, <5>2, <5>3
      <4> QED
        BY <4>1, <4>2
    <3>2. g = [i \in 0 .. N + 1 |-> g[i]] /\ h = [i \in 0 .. N + 1 |-> h[i]]
      OBVIOUS
    <3>3. g = h
      <4> HIDE DEF g, h
      <4> QED
        BY <3>1, <3>2
    <3> HIDE DEF g
    <3> QED
      BY <3>3
  <2> HIDE DEF g
  <2>6. Loops(g, t, way, start, N + 1)
    BY <2>5 DEF Loops
  <2> QED
    BY <2>1, <2>6
<1> HIDE DEF T
<1>3. T \in SUBSET Nat
  BY DEF T
<1>4. T = Nat
  BY <1>1, <1>2, <1>3, SetInduction
<1> QED
  BY <1>4 DEF T

\* The pages are read by such a loop, of as many turns as a page has records.
LEMMA PageLoop ==
  ASSUME NEW r, PAGE[r] \in Nat, NEW t, NEW way, NEW start
  PROVE  \E f : /\ f[0] = start
                /\ \A i \in 0 .. PAGE[r] - 1 : f[i + 1] = ReadOne(t, way, f[i])
                /\ ReadPage(r, t, way, start) = f[PAGE[r]]
<1> DEFINE f == CHOOSE f : Loops(f, t, way, start, PAGE[r])
<1>1. ReadPage(r, t, way, start) = f[PAGE[r]]
  BY DEF ReadPage, Loops, ReadOne
<1>2. Loops(f, t, way, start, PAGE[r])
  BY LoopExists
<1> HIDE DEF f
<1>3. f[0] = start
  BY <1>2 DEF Loops
<1>4. ASSUME NEW i \in 0 .. PAGE[r] - 1
      PROVE  f[i + 1] = ReadOne(t, way, f[i])
  <2>1. i + 1 \in 0 .. PAGE[r] /\ i + 1 # 0 /\ (i + 1) - 1 = i
    OBVIOUS
  <2>2. f[i + 1] = ReadOne(t, way, f[(i + 1) - 1])
    BY <1>2, <2>1 DEF Loops
  <2> QED
    BY <2>1, <2>2
<1> QED
  BY <1>1, <1>3, <1>4

\* The two flags.
Ends == {"HEAD", "END"}
\* A browser or an LCD holds the flags HEAD and END, or not.
Flags == [Reader -> SUBSET Ends]
\* What a loop carries from turn to turn.
State == [cur : Int, flags : Flags, read : Seq(Int), empty : BOOLEAN]

\* What is assumed of the rings.
Rings == \A t \in Type : written[t] \in Nat

\* Pages are at least a record, shorter than the ring, and fill it evenly.
LEMMA PagerSizes ==
  /\ TOTAL \in Nat /\ TOTAL >= 2
  /\ \A r \in Reader : PAGE[r] \in Nat /\ PAGE[r] >= 1 /\ PAGE[r] < TOTAL
  /\ \A r \in Reader : TOTAL % PAGE[r] = 0
<1>1. {TOTAL, WEB_PAGE, LCD_PAGE} \subseteq Nat \ {0} /\ WEB_PAGE < TOTAL /\ LCD_PAGE < TOTAL
      /\ TOTAL % WEB_PAGE = 0 /\ TOTAL % LCD_PAGE = 0
  BY PagerAssumption
<1> QED
  BY <1>1 DEF PAGE, Reader

\* What division by a size gives: the quotient and the rest.
LEMMA Quotient ==
  ASSUME NEW a \in Nat, NEW b \in Nat \ {0}
  PROVE  /\ a \div b \in Nat /\ a % b \in 0 .. b - 1
         /\ a = (a \div b) * b + (a % b)
OBVIOUS

\* nextWriteAddrVal stays in the ring.
LEMMA NextSlotType ==
  ASSUME Rings, NEW t \in Type
  PROVE  Next_W(t) \in 0 .. TOTAL - 1
<1>1. written[t] \in Nat /\ TOTAL \in Nat \ {0}
  BY PagerSizes DEF Rings
<1> QED
  BY <1>1, Quotient DEF Next_W

\* What is read from a slot, in the ring or outside, is a number here.
LEMMA SlotType ==
  ASSUME Rings, NEW t \in Type, NEW c \in Int
  PROVE  Slot(t, c) \in Int
<1>1. written[t] \in Int /\ TOTAL \in Int /\ Next_W(t) \in Int /\ Other \in Int
  BY NextSlotType, PagerSizes DEF Rings, Other
<1> QED
  BY <1>1 DEF Slot

\* updateLogPageFlag marks each reader, and marking twice changes nothing.
LEMMA MarkedType ==
  ASSUME NEW f \in Flags, NEW t, NEW flag \in Ends
  PROVE  /\ Marked(f, t, flag) \in Flags
         /\ \A r \in Reader : Marked(f, t, flag)[r] =
              IF isPageOverOne(r, t) THEN {flag} ELSE f[r] \cup {flag}
         /\ Marked(Marked(f, t, flag), t, flag) = Marked(f, t, flag)
<1> DEFINE m == Marked(f, t, flag)
<1>1. \A r \in Reader : m[r] = IF isPageOverOne(r, t) THEN {flag} ELSE f[r] \cup {flag}
  BY DEF Marked
<1>2. m \in Flags
  BY DEF Marked, Flags
<1>3. \A r \in Reader : Marked(m, t, flag)[r] = m[r]
  <2> SUFFICES ASSUME NEW r \in Reader
               PROVE  Marked(m, t, flag)[r] = m[r]
    OBVIOUS
  <2>1. Marked(m, t, flag)[r] = IF isPageOverOne(r, t) THEN {flag} ELSE m[r] \cup {flag}
    BY DEF Marked
  <2> HIDE DEF m
  <2> QED
    BY <1>1, <2>1
<1>4. Marked(m, t, flag) = [r \in Reader |-> Marked(m, t, flag)[r]] /\ m = [r \in Reader |-> m[r]]
  BY DEF Marked
<1>5. Marked(m, t, flag) = m
  <2> DEFINE mm == Marked(m, t, flag)
  <2>1. mm = [r \in Reader |-> mm[r]] /\ m = [r \in Reader |-> m[r]] /\ \A r \in Reader : mm[r] = m[r]
    BY <1>3, <1>4
  <2> HIDE DEF m, mm
  <2>2. mm = m
    BY <2>1
  <2> QED
    BY <2>2 DEF mm
<1> QED
  BY <1>1, <1>2, <1>5

-----------------------------------------------------------------------------
(* One record read                                                         *)

\* The fields of a reading that ended on a blank, at a cursor of its own.
LEMMA EmptyFields ==
  ASSUME NEW C, NEW F, NEW R, NEW s \in [cur : C, flags : F, read : R, empty : BOOLEAN],
         NEW c \in C, NEW m \in F
  PROVE  LET n == [s EXCEPT !.cur = c, !.flags = m, !.empty = TRUE]
         IN  /\ n \in [cur : C, flags : F, read : R, empty : BOOLEAN]
             /\ n.cur = c /\ n.flags = m /\ n.read = s.read /\ n.empty = TRUE
OBVIOUS

\* The fields of a reading that ended on a blank where it stood.
LEMMA EmptyHere ==
  ASSUME NEW C, NEW F, NEW R, NEW s \in [cur : C, flags : F, read : R, empty : BOOLEAN],
         NEW m \in F
  PROVE  LET n == [s EXCEPT !.flags = m, !.empty = TRUE]
         IN  /\ n \in [cur : C, flags : F, read : R, empty : BOOLEAN]
             /\ n.cur = s.cur /\ n.flags = m /\ n.read = s.read /\ n.empty = TRUE
OBVIOUS

\* The fields of a reading that read one record more.
LEMMA ReadFields ==
  ASSUME NEW C, NEW F, NEW R, NEW s \in [cur : C, flags : F, read : R, empty : BOOLEAN],
         NEW c \in C, NEW m \in F, NEW d \in R
  PROVE  LET n == [s EXCEPT !.cur = c, !.read = d, !.flags = m]
         IN  /\ n \in [cur : C, flags : F, read : R, empty : BOOLEAN]
             /\ n.cur = c /\ n.flags = m /\ n.read = d /\ n.empty = s.empty
OBVIOUS

\* The sequences read are longer by one.
LEMMA LongerByOne ==
  ASSUME NEW d \in Seq(Int), NEW v \in Int
  PROVE  /\ Append(d, v) \in Seq(Int) /\ Len(Append(d, v)) = Len(d) + 1
         /\ <<v>> \o d \in Seq(Int) /\ Len(<<v>> \o d) = Len(d) + 1
<1>1. Append(d, v) \in Seq(Int) /\ Len(Append(d, v)) = Len(d) + 1
  BY AppendProperties
<1>2. <<v>> \in Seq(Int) /\ Len(<<v>>) = 1
  OBVIOUS
<1>3. <<v>> \o d \in Seq(Int) /\ Len(<<v>> \o d) = 1 + Len(d)
  BY <1>2, ConcatProperties
<1>4. Len(d) \in Nat
  OBVIOUS
<1> QED
  BY <1>1, <1>3, <1>4

\* ReadNextLog, by cases: it stands at the base of the ring and reads nothing,
\* or reads the slot below, or over the seam.
LEMMA NextFields ==
  ASSUME Rings, NEW t \in Type, NEW s \in State
  PROVE  LET c == IF s.cur = 0 THEN TOTAL - 1 ELSE s.cur - 1
             last == IF isLogFull(t) THEN Next_W(t) ELSE 0
             n == ReadNextLog(t, s)
         IN  /\ n \in State
             /\ s.cur = 0 /\ ~ isLogFull(t) =>
                  /\ n.cur = s.cur /\ n.flags = Marked(s.flags, t, "END")
                  /\ n.read = s.read /\ n.empty = TRUE
             /\ ~ (s.cur = 0 /\ ~ isLogFull(t)) =>
                  /\ n.cur = c /\ n.read = Append(s.read, Slot(t, c)) /\ n.empty = s.empty
                  /\ n.flags = IF c = last THEN Marked(s.flags, t, "END") ELSE s.flags
<1> DEFINE c == IF s.cur = 0 THEN TOTAL - 1 ELSE s.cur - 1
           last == IF isLogFull(t) THEN Next_W(t) ELSE 0
           mk == Marked(s.flags, t, "END")
           fs == IF c = last THEN mk ELSE s.flags
           rd == Append(s.read, Slot(t, c))
           n == ReadNextLog(t, s)
<1>1. s.cur \in Int /\ s.flags \in Flags /\ s.read \in Seq(Int) /\ c \in Int
  BY PagerSizes DEF State
<1>2. mk \in Flags /\ fs \in Flags
  BY <1>1, MarkedType DEF Ends
<1>3. rd \in Seq(Int)
  <2> HIDE DEF c
  <2> QED
    BY <1>1, SlotType, LongerByOne
<1>4. n = IF s.cur = 0 /\ ~ isLogFull(t)
          THEN [s EXCEPT !.flags = mk, !.empty = TRUE]
          ELSE [s EXCEPT !.cur = c, !.read = rd, !.flags = fs]
  BY DEF ReadNextLog
<1> HIDE DEF c, mk, fs, rd, n
<1>5. CASE s.cur = 0 /\ ~ isLogFull(t)
  <2>1. n = [s EXCEPT !.flags = mk, !.empty = TRUE]
    BY <1>4, <1>5
  <2>2. n \in State /\ n.cur = s.cur /\ n.flags = mk /\ n.read = s.read /\ n.empty = TRUE
    BY <1>2, <2>1, EmptyHere DEF State
  <2> QED
    BY <1>5, <2>2 DEF n, mk
<1>6. CASE ~ (s.cur = 0 /\ ~ isLogFull(t))
  <2>1. n = [s EXCEPT !.cur = c, !.read = rd, !.flags = fs]
    BY <1>4, <1>6
  <2>2. n \in State /\ n.cur = c /\ n.flags = fs /\ n.read = rd /\ n.empty = s.empty
    BY <1>1, <1>2, <1>3, <2>1, ReadFields DEF State
  <2> QED
    BY <1>6, <2>2 DEF n, fs, rd, c, mk
<1> QED
  BY <1>5, <1>6

\* ReadPreviousLog, by cases: it stands on the newest record and reads nothing,
\* or reads the slot above, or over the seam.
LEMMA PreviousFields ==
  ASSUME Rings, NEW t \in Type, NEW s \in State
  PROVE  LET c == IF s.cur = TOTAL - 1 THEN 0 ELSE s.cur + 1
             w == Next_W(t)
             n == ReadPreviousLog(t, s)
         IN  /\ n \in State
             /\ s.cur # TOTAL - 1 /\ s.cur = w - 1 =>
                  /\ n.cur = w /\ n.flags = Marked(s.flags, t, "HEAD")
                  /\ n.read = s.read /\ n.empty = TRUE
             /\ ~ (s.cur # TOTAL - 1 /\ s.cur = w - 1) =>
                  /\ n.cur = c /\ n.read = <<Slot(t, c)>> \o s.read /\ n.empty = s.empty
                  /\ n.flags = IF c = w - 1 THEN Marked(s.flags, t, "HEAD") ELSE s.flags
<1> DEFINE c == IF s.cur = TOTAL - 1 THEN 0 ELSE s.cur + 1
           w == Next_W(t)
           mk == Marked(s.flags, t, "HEAD")
           fs == IF c = w - 1 THEN mk ELSE s.flags
           rd == <<Slot(t, c)>> \o s.read
           n == ReadPreviousLog(t, s)
<1>1. /\ s.cur \in Int /\ s.flags \in Flags /\ s.read \in Seq(Int) /\ c \in Int
      /\ w \in Int
  BY PagerSizes, NextSlotType DEF State
<1>2. mk \in Flags /\ fs \in Flags
  BY <1>1, MarkedType DEF Ends
<1>3. rd \in Seq(Int)
  <2> HIDE DEF c
  <2> QED
    BY <1>1, SlotType, LongerByOne
<1>4. n = IF s.cur # TOTAL - 1 /\ s.cur = w - 1
          THEN [s EXCEPT !.cur = w, !.flags = mk, !.empty = TRUE]
          ELSE [s EXCEPT !.cur = c, !.read = rd, !.flags = fs]
  BY DEF ReadPreviousLog
<1> HIDE DEF c, mk, fs, rd, n, w
<1>5. CASE s.cur # TOTAL - 1 /\ s.cur = w - 1
  <2>1. n = [s EXCEPT !.cur = w, !.flags = mk, !.empty = TRUE]
    BY <1>4, <1>5
  <2>2. n \in State /\ n.cur = w /\ n.flags = mk /\ n.read = s.read /\ n.empty = TRUE
    BY <1>1, <1>2, <2>1, EmptyFields DEF State
  <2> QED
    BY <1>5, <2>2 DEF n, mk, w
<1>6. CASE ~ (s.cur # TOTAL - 1 /\ s.cur = w - 1)
  <2>1. n = [s EXCEPT !.cur = c, !.read = rd, !.flags = fs]
    BY <1>4, <1>6
  <2>2. n \in State /\ n.cur = c /\ n.flags = fs /\ n.read = rd /\ n.empty = s.empty
    BY <1>1, <1>2, <1>3, <2>1, ReadFields DEF State
  <2> QED
    BY <1>6, <2>2 DEF n, fs, rd, c, mk, w
<1> QED
  BY <1>5, <1>6

-----------------------------------------------------------------------------
(* Whatever is read: types, the length of a page, and the ring             *)

Ring == 0 .. TOTAL - 1

\* A turn of the loop reads at most one record, and leaves the cursor in the
\* ring if it was there.
LEMMA ReadOneType ==
  ASSUME Rings, NEW t \in Type, NEW way, NEW s \in State
  PROVE  LET q == ReadOne(t, way, s)
         IN  /\ q \in State
             /\ Len(q.read) <= Len(s.read) + 1
             /\ s.cur \in Ring => q.cur \in Ring
<1> DEFINE q == ReadOne(t, way, s)
<1>1. s.cur \in Int /\ s.read \in Seq(Int) /\ s.empty \in BOOLEAN /\ Len(s.read) \in Nat
  BY DEF State
<1>5. TOTAL \in Nat /\ TOTAL >= 2 /\ Next_W(t) \in 0 .. TOTAL - 1
  BY PagerSizes, NextSlotType
<1>6. ASSUME NEW c \in Int
      PROVE  /\ Len(Append(s.read, Slot(t, c))) = Len(s.read) + 1
             /\ Len(<<Slot(t, c)>> \o s.read) = Len(s.read) + 1
  BY <1>1, SlotType, LongerByOne
<1>8. CASE s.empty
  BY <1>1, <1>8 DEF ReadOne
<1>9. CASE ~ s.empty /\ way = "DOWN"
  <2> DEFINE c == IF s.cur = 0 THEN TOTAL - 1 ELSE s.cur - 1
  <2>1. q = ReadNextLog(t, s)
    BY <1>9 DEF ReadOne
  <2>2. c \in Int /\ (s.cur \in Ring => c \in Ring)
    BY <1>1, <1>5 DEF Ring
  <2>3. q \in State /\ (q.cur = s.cur \/ q.cur = c)
        /\ (q.read = s.read \/ q.read = Append(s.read, Slot(t, c)))
    <3> DEFINE n == ReadNextLog(t, s)
               end == s.cur = 0 /\ ~ isLogFull(t)
               d == Append(s.read, Slot(t, c))
    <3>1. n \in State /\ (end => n.cur = s.cur /\ n.read = s.read)
          /\ (~ end => n.cur = c /\ n.read = d)
      BY NextFields, Zenon
    <3>2. q = n
      BY <2>1
    <3> HIDE DEF c, n, q, end, d
    <3>3. q \in State /\ (q.cur = s.cur \/ q.cur = c) /\ (q.read = s.read \/ q.read = d)
      BY <3>1, <3>2
    <3> QED
      BY <3>3 DEF d
  <2>4. Len(Append(s.read, Slot(t, c))) = Len(s.read) + 1
    <3> HIDE DEF c
    <3> QED
      BY <1>6, <2>2
  <2>5. Len(q.read) <= Len(s.read) + 1
    <3> HIDE DEF c, q
    <3> QED
      BY <1>1, <2>3, <2>4
  <2>6. s.cur \in Ring => q.cur \in Ring
    <3> HIDE DEF c, q
    <3> QED
      BY <2>2, <2>3
  <2> QED
    BY <2>3, <2>5, <2>6
<1>10. CASE ~ s.empty /\ way # "DOWN"
  <2> DEFINE c == IF s.cur = TOTAL - 1 THEN 0 ELSE s.cur + 1
             w == Next_W(t)
  <2>1. q = ReadPreviousLog(t, s)
    BY <1>10 DEF ReadOne
  <2>2. c \in Int /\ (s.cur \in Ring => c \in Ring) /\ w \in Ring
    BY <1>1, <1>5 DEF Ring
  <2>3. q \in State /\ (q.cur = w \/ q.cur = c)
        /\ (q.read = s.read \/ q.read = <<Slot(t, c)>> \o s.read)
    <3> DEFINE n == ReadPreviousLog(t, s)
               end == s.cur # TOTAL - 1 /\ s.cur = w - 1
               d == <<Slot(t, c)>> \o s.read
    <3>1. n \in State /\ (end => n.cur = w /\ n.read = s.read)
          /\ (~ end => n.cur = c /\ n.read = d)
      BY PreviousFields, Zenon
    <3>2. q = n
      BY <2>1
    <3> HIDE DEF c, n, q, end, d, w
    <3>3. q \in State /\ (q.cur = w \/ q.cur = c) /\ (q.read = s.read \/ q.read = d)
      BY <3>1, <3>2
    <3> QED
      BY <3>3 DEF d
  <2>4. Len(<<Slot(t, c)>> \o s.read) = Len(s.read) + 1
    <3> HIDE DEF c
    <3> QED
      BY <1>6, <2>2
  <2>5. Len(q.read) <= Len(s.read) + 1
    <3> HIDE DEF c, q
    <3> QED
      BY <1>1, <2>3, <2>4
  <2>6. s.cur \in Ring => q.cur \in Ring
    <3> HIDE DEF c, q, w
    <3> QED
      BY <2>2, <2>3
  <2> QED
    BY <2>3, <2>5, <2>6
<1> QED
  BY <1>8, <1>9, <1>10

\* A page read from anywhere is at most a page, and from a cursor in the ring
\* leaves the cursor there.
LEMMA PageType ==
  ASSUME Rings, NEW r \in Reader, NEW t \in Type, NEW way, NEW c \in Int, NEW f \in Flags
  PROVE  LET s == ReadPage(r, t, way, Start(c, f))
         IN  /\ s \in State /\ Len(s.read) <= PAGE[r]
             /\ c \in Ring => s.cur \in Ring
<1> DEFINE start == Start(c, f)
           N == PAGE[r]
<1>0. N \in Nat
  BY PagerSizes
<1>1. start \in State /\ Len(start.read) = 0 /\ start.cur = c
  <2>1. << >> \in Seq(Int) /\ Len(<< >>) = 0
    BY EmptySeq
  <2>2. start = [cur |-> c, flags |-> f, read |-> << >>, empty |-> FALSE]
    BY DEF Start
  <2>3. start.cur = c /\ start.flags = f /\ start.read = << >> /\ start.empty = FALSE
    BY <2>2
  <2> HIDE DEF start
  <2> QED
    BY <2>1, <2>2, <2>3 DEF State
<1>2. PICK g : /\ g[0] = start
               /\ \A i \in 0 .. N - 1 : g[i + 1] = ReadOne(t, way, g[i])
               /\ ReadPage(r, t, way, start) = g[N]
  BY <1>0, PageLoop
<1> HIDE DEF start, N
<1> DEFINE Good(i) == /\ g[i] \in State /\ Len(g[i].read) <= i
                      /\ c \in Ring => g[i].cur \in Ring
           T == {i \in Nat : i <= N => Good(i)}
<1>3. 0 \in T
  BY <1>0, <1>1, <1>2
<1>4. ASSUME NEW i \in T
      PROVE  i + 1 \in T
  <2> SUFFICES ASSUME i + 1 <= N
               PROVE  Good(i + 1)
    OBVIOUS
  <2>1. i \in Nat /\ i <= N /\ Good(i) /\ i \in 0 .. N - 1
    BY <1>0
  <2>2. g[i + 1] = ReadOne(t, way, g[i])
    BY <1>2, <2>1
  <2>3. /\ ReadOne(t, way, g[i]) \in State
        /\ Len(ReadOne(t, way, g[i]).read) <= Len(g[i].read) + 1
        /\ g[i].cur \in Ring => ReadOne(t, way, g[i]).cur \in Ring
    BY <2>1, ReadOneType
  <2>4. Len(g[i].read) \in Nat /\ Len(ReadOne(t, way, g[i]).read) \in Nat
    BY <2>1, <2>3 DEF State
  <2> QED
    BY <2>1, <2>2, <2>3, <2>4
<1>5. T \in SUBSET Nat
  OBVIOUS
<1> HIDE DEF T
<1>6. T = Nat
  BY <1>3, <1>4, <1>5, SetInduction
<1>7. Good(N)
  BY <1>0, <1>6 DEF T
<1> QED
  BY <1>2, <1>7 DEF start, N

-----------------------------------------------------------------------------
(* Slots                                                                   *)

\* Where record n was written.
SlotOf(n) == (n - 1) % TOTAL

\* The quotient and the rest are the only ones.
LEMMA Remainder ==
  ASSUME NEW a \in Nat, NEW b \in Nat \ {0}, NEW q \in Nat, NEW r \in 0 .. b - 1,
         a = q * b + r
  PROVE  a % b = r
OBVIOUS

\* A record is written to a slot of the ring.
LEMMA SlotOfType ==
  ASSUME NEW n \in Nat \ {0}
  PROVE  SlotOf(n) \in 0 .. TOTAL - 1
<1>1. n - 1 \in Nat /\ TOTAL \in Nat \ {0}
  BY PagerSizes
<1> QED
  BY <1>1, Quotient DEF SlotOf

\* The first records, until the ring is full, have the slots they are numbered by.
LEMMA SlotOfSmall ==
  ASSUME NEW n \in 1 .. TOTAL
  PROVE  SlotOf(n) = n - 1
<1>1. n - 1 \in Nat /\ TOTAL \in Nat \ {0} /\ n - 1 \in 0 .. TOTAL - 1
  BY PagerSizes
<1>2. 0 * TOTAL = 0
  BY <1>1
<1>3. n - 1 = 0 * TOTAL + (n - 1)
  BY <1>1, <1>2
<1> QED
  BY <1>1, <1>3, Remainder DEF SlotOf

\* A ring later, the slot is used again.
LEMMA SlotOfAgain ==
  ASSUME NEW n \in Nat \ {0}
  PROVE  SlotOf(n + TOTAL) = SlotOf(n)
<1> DEFINE q == (n - 1) \div TOTAL
           r == (n - 1) % TOTAL
<1>1. n - 1 \in Nat /\ TOTAL \in Nat \ {0} /\ (n + TOTAL) - 1 \in Nat
  BY PagerSizes
<1>2. q \in Nat /\ r \in 0 .. TOTAL - 1 /\ n - 1 = (q * TOTAL) + r
  BY <1>1, Quotient
<1> HIDE DEF q, r
<1>3. q + 1 \in Nat /\ (q + 1) * TOTAL = q * TOTAL + TOTAL /\ q * TOTAL \in Nat
  BY <1>1, <1>2
<1>4. (n + TOTAL) - 1 = ((q + 1) * TOTAL) + r
  BY <1>1, <1>2, <1>3
<1>5. ((n + TOTAL) - 1) % TOTAL = r
  BY <1>1, <1>2, <1>3, <1>4, Remainder
<1> QED
  BY <1>5 DEF SlotOf, r

\* Records that follow each other are in slots that do, until the seam.
LEMMA SlotOfNear ==
  ASSUME NEW n \in Nat \ {0}, NEW d \in 0 .. TOTAL - 1
  PROVE  SlotOf(n + d) = IF SlotOf(n) + d < TOTAL THEN SlotOf(n) + d ELSE SlotOf(n) + d - TOTAL
<1> DEFINE q == (n - 1) \div TOTAL
           r == (n - 1) % TOTAL
<1>1. n - 1 \in Nat /\ TOTAL \in Nat \ {0} /\ (n + d) - 1 \in Nat /\ d \in Nat /\ d < TOTAL
  BY PagerSizes
<1>2. q \in Nat /\ r \in 0 .. TOTAL - 1 /\ n - 1 = (q * TOTAL) + r
  BY <1>1, Quotient
<1>0. SlotOf(n) = r
  BY DEF SlotOf
<1> HIDE DEF q, r
<1>3. q + 1 \in Nat /\ (q + 1) * TOTAL = q * TOTAL + TOTAL /\ q * TOTAL \in Nat
  BY <1>1, <1>2
<1>4. CASE r + d < TOTAL
  <2>1. (n + d) - 1 = (q * TOTAL) + (r + d) /\ r + d \in 0 .. TOTAL - 1
    BY <1>1, <1>2, <1>3, <1>4
  <2>2. ((n + d) - 1) % TOTAL = r + d
    BY <1>1, <1>2, <2>1, Remainder
  <2> QED
    BY <1>0, <1>4, <2>2 DEF SlotOf
<1>5. CASE ~ r + d < TOTAL
  <2>1. (n + d) - 1 = ((q + 1) * TOTAL) + (r + d - TOTAL) /\ r + d - TOTAL \in 0 .. TOTAL - 1
    BY <1>1, <1>2, <1>3, <1>5
  <2>2. ((n + d) - 1) % TOTAL = r + d - TOTAL
    BY <1>1, <1>3, <2>1, Remainder
  <2> QED
    BY <1>0, <1>5, <2>2 DEF SlotOf
<1> QED
  BY <1>4, <1>5

\* The slot after the last one is the first.
LEMMA SlotOfNext ==
  ASSUME NEW n \in Nat \ {0}
  PROVE  SlotOf(n + 1) = IF SlotOf(n) = TOTAL - 1 THEN 0 ELSE SlotOf(n) + 1
<1>1. 1 \in 0 .. TOTAL - 1 /\ TOTAL \in Nat
  BY PagerSizes
<1>2. SlotOf(n) \in 0 .. TOTAL - 1
  BY SlotOfType
<1>3. SlotOf(n + 1) = IF SlotOf(n) + 1 < TOTAL THEN SlotOf(n) + 1 ELSE SlotOf(n) + 1 - TOTAL
  BY <1>1, SlotOfNear
<1> QED
  BY <1>1, <1>2, <1>3

\* Two records in the ring have slots of their own.
LEMMA SlotOfOwn ==
  ASSUME NEW a \in Nat \ {0}, NEW b \in Nat \ {0}, a <= b, b < a + TOTAL, SlotOf(a) = SlotOf(b)
  PROVE  a = b
<1> DEFINE d == b - a
<1>1. TOTAL \in Nat /\ d \in 0 .. TOTAL - 1 /\ b = a + d
  BY PagerSizes
<1>2. SlotOf(a) \in 0 .. TOTAL - 1
  BY SlotOfType
<1> HIDE DEF d
<1>3. SlotOf(a + d) = IF SlotOf(a) + d < TOTAL THEN SlotOf(a) + d ELSE SlotOf(a) + d - TOTAL
  BY <1>1, SlotOfNear
<1> QED
  BY <1>1, <1>2, <1>3

-----------------------------------------------------------------------------
(* What is in the ring                                                     *)

\* What is in the ring: at most TOTAL records, the oldest first to go, and
\* nextWriteAddrVal where the next one will be.
LEMMA RingBounds ==
  ASSUME Rings, NEW t \in Type
  PROVE  /\ written[t] \in Nat /\ Oldest(t) \in Nat \ {0}
         /\ Oldest(t) <= written[t] + 1 /\ written[t] < Oldest(t) + TOTAL
         /\ isLogFull(t) <=> written[t] + 1 - Oldest(t) = TOTAL
         /\ isLogFull(t) <=> written[t] >= TOTAL
         /\ ~ isLogFull(t) => Oldest(t) = 1 /\ Next_W(t) = written[t]
         /\ Next_W(t) = SlotOf(written[t] + 1)
         /\ Next_W(t) \in 0 .. TOTAL - 1
         /\ isLogFull(t) => Oldest(t) = written[t] - TOTAL + 1
<1>1. written[t] \in Nat /\ TOTAL \in Nat /\ TOTAL >= 2
  BY PagerSizes DEF Rings
<1>2. Next_W(t) = SlotOf(written[t] + 1)
  <2>1. (written[t] + 1) - 1 = written[t]
    BY <1>1
  <2> QED
    BY <2>1 DEF Next_W, SlotOf
<1>3. ~ isLogFull(t) => Next_W(t) = written[t]
  <2> SUFFICES ASSUME ~ isLogFull(t)
               PROVE  Next_W(t) = written[t]
    OBVIOUS
  <2>1. written[t] + 1 \in 1 .. TOTAL
    BY <1>1 DEF isLogFull
  <2>2. SlotOf(written[t] + 1) = (written[t] + 1) - 1
    BY <2>1, SlotOfSmall
  <2> QED
    BY <1>1, <1>2, <2>2
<1>4. Next_W(t) \in 0 .. TOTAL - 1
  BY NextSlotType
<1> HIDE DEF Next_W
<1> QED
  BY <1>1, <1>2, <1>3, <1>4 DEF Oldest, isLogFull

\* The slot of the oldest record, which ends the pages.
LEMMA OldestSlot ==
  ASSUME Rings, NEW t \in Type
  PROVE  SlotOf(Oldest(t)) = IF isLogFull(t) THEN Next_W(t) ELSE 0
<1>1. TOTAL \in Nat /\ TOTAL >= 2
  BY PagerSizes
<1>2. CASE isLogFull(t)
  <2>1. Oldest(t) \in Nat \ {0} /\ Oldest(t) + TOTAL = written[t] + 1
        /\ Next_W(t) = SlotOf(written[t] + 1)
    BY <1>1, <1>2, RingBounds
  <2>2. SlotOf(Oldest(t) + TOTAL) = SlotOf(Oldest(t))
    BY <2>1, SlotOfAgain
  <2> QED
    BY <1>2, <2>1, <2>2
<1>3. CASE ~ isLogFull(t)
  <2>1. Oldest(t) = 1 /\ 1 \in 1 .. TOTAL
    BY <1>1, <1>3, RingBounds
  <2>2. SlotOf(1) = 1 - 1
    BY <2>1, SlotOfSmall
  <2> QED
    BY <1>3, <2>1, <2>2
<1> QED
  BY <1>2, <1>3

\* A record is read where it was written.
LEMMA RecordRead ==
  ASSUME Rings, NEW t \in Type, NEW n \in Oldest(t) .. written[t]
  PROVE  Slot(t, SlotOf(n)) = n
<1> DEFINE w == written[t]
           o == Oldest(t)
           c == SlotOf(n)
           e == SlotOf(w + 1)
           d == (w + 1) - n
<1>1. /\ w \in Nat /\ o \in Nat \ {0} /\ w < o + TOTAL /\ o <= w + 1
      /\ isLogFull(t) <=> w >= TOTAL
      /\ ~ isLogFull(t) => o = 1 /\ Next_W(t) = w
      /\ Next_W(t) = e
  BY RingBounds
<1>2. TOTAL \in Nat /\ TOTAL >= 2
  BY PagerSizes
<1>3. n \in Nat \ {0} /\ n <= w /\ w + 1 \in Nat \ {0} /\ n >= o /\ d \in 1 .. TOTAL
      /\ w + 1 = n + d
  BY <1>1, <1>2
<1>4. c \in 0 .. TOTAL - 1 /\ e \in 0 .. TOTAL - 1
  BY <1>3, SlotOfType
<1>5. e = IF c + d < TOTAL THEN c + d ELSE c + d - TOTAL
  <2>1. CASE d < TOTAL
    <3>1. d \in 0 .. TOTAL - 1
      BY <1>2, <1>3, <2>1
    <3> HIDE DEF d
    <3> QED
      BY <1>3, <3>1, SlotOfNear
  <2>2. CASE d = TOTAL
    <3>1. SlotOf(n + TOTAL) = SlotOf(n)
      BY <1>3, SlotOfAgain
    <3> HIDE DEF d
    <3>2. e = c
      BY <1>3, <2>2, <3>1
    <3> HIDE DEF e, c
    <3> QED
      BY <1>2, <1>4, <2>2, <3>2
  <2> QED
    BY <1>2, <1>3, <2>1, <2>2
<1>6. Slot(t, c) = IF c < e THEN w - e + c + 1 ELSE IF isLogFull(t) THEN w - e - TOTAL + c + 1 ELSE 0
  BY <1>1, <1>4 DEF Slot
<1>7. ~ isLogFull(t) => c < e
  <2>1. ASSUME ~ isLogFull(t)
        PROVE  c < e
    <3>1. e = w /\ n \in 1 .. TOTAL /\ n <= w
      BY <1>1, <1>2, <1>3, <2>1
    <3>2. c = n - 1
      BY <3>1, SlotOfSmall
    <3> HIDE DEF c, e, w
    <3> QED
      BY <1>1, <1>3, <3>1, <3>2
  <2> QED
    BY <2>1
<1> HIDE DEF c, e, w, o
<1>8. d = (w + 1) - n
  BY DEF w
<1> HIDE DEF d
<1>9. Slot(t, c) = n
  BY <1>1, <1>2, <1>3, <1>4, <1>5, <1>6, <1>7, <1>8
<1> QED
  BY <1>9 DEF c

-----------------------------------------------------------------------------
(* Pages as sequences                                                      *)

\* The records from a down to the j-th one below it.
Below(x, j) == [a \in 1 .. j |-> x - a]

Upto(i, n) == IF i < n THEN i ELSE n

\* Below is a sequence of j records.
LEMMA BelowSeq ==
  ASSUME NEW x \in Int, NEW j \in Nat
  PROVE  Below(x, j) \in Seq(Int) /\ Len(Below(x, j)) = j
<1>1. \A a \in 1 .. j : x - a \in Int
  OBVIOUS
<1> QED
  BY <1>1 DEF Below

\* One record more at the end of a page.
LEMMA BelowMore ==
  ASSUME NEW x \in Int, NEW j \in Nat
  PROVE  Append(Below(x, j), x - (j + 1)) = Below(x, j + 1)
<1> DEFINE p == Below(x, j)
           q == Below(x, j + 1)
           v == x - (j + 1)
           b == Append(p, v)
<1>1. p \in Seq(Int) /\ Len(p) = j /\ q \in Seq(Int) /\ Len(q) = j + 1 /\ v \in Int
  BY BelowSeq
<1>2. b \in Seq(Int) /\ Len(b) = j + 1
      /\ (\A i \in 1 .. j : b[i] = p[i]) /\ b[j + 1] = v
  <2> HIDE DEF p, v
  <2> QED
    BY <1>1, AppendProperties
<1>3. ASSUME NEW i \in 1 .. j + 1
      PROVE  b[i] = q[i]
  <2>1. q[i] = x - i
    BY DEF Below
  <2>2. CASE i \in 1 .. j
    <3>1. p[i] = x - i
      BY <2>2 DEF Below
    <3> HIDE DEF p, q, b
    <3> QED
      BY <1>2, <2>1, <2>2, <3>1
  <2>3. CASE i = j + 1
    <3> HIDE DEF p, q, b
    <3> QED
      BY <1>2, <2>1, <2>3
  <2>4. i \in 1 .. j \/ i = j + 1
    OBVIOUS
  <2> HIDE DEF p, q, b
  <2> QED
    BY <2>2, <2>3, <2>4
<1> HIDE DEF p, q, b, v
<1>4. b = q
  BY <1>1, <1>2, <1>3, SeqEqual
<1> QED
  BY <1>4 DEF b, p, q, v

\* One record more at the head of a page.
LEMMA BelowUp ==
  ASSUME NEW x \in Int, NEW j \in Nat
  PROVE  <<x>> \o Below(x, j) = Below(x + 1, j + 1)
<1> DEFINE p == Below(x, j)
           q == Below(x + 1, j + 1)
           o == <<x>>
           b == o \o p
<1>1. p \in Seq(Int) /\ Len(p) = j /\ q \in Seq(Int) /\ Len(q) = j + 1
  BY BelowSeq
<1>0. o \in Seq(Int) /\ Len(o) = 1 /\ o[1] = x
  OBVIOUS
<1>2. b \in Seq(Int) /\ Len(b) = 1 + j
      /\ \A i \in 1 .. 1 + j : b[i] = IF i <= 1 THEN o[i] ELSE p[i - 1]
  <2> HIDE DEF p, o
  <2>1. b \in Seq(Int) /\ Len(b) = Len(o) + Len(p)
        /\ \A i \in 1 .. Len(o) + Len(p) : b[i] = IF i <= Len(o) THEN o[i] ELSE p[i - Len(o)]
    <3>1. o \in Seq(Int) /\ p \in Seq(Int)
      BY <1>0, <1>1
    <3> QED
      BY <3>1, ConcatProperties, Zenon
  <2>2. Len(o) = 1 /\ Len(p) = j
    BY <1>0, <1>1
  <2> HIDE DEF b
  <2>3. Len(b) = 1 + j /\ \A i \in 1 .. 1 + j : b[i] = IF i <= 1 THEN o[i] ELSE p[i - 1]
    BY <2>1, <2>2
  <2> QED
    BY <2>1, <2>3
<1>3. ASSUME NEW i \in 1 .. j + 1
      PROVE  b[i] = q[i]
  <2>1. q[i] = (x + 1) - i
    BY DEF Below
  <2>2. CASE i = 1
    <3> HIDE DEF p, q, b, o
    <3> QED
      BY <1>0, <1>2, <2>1, <2>2
  <2>3. CASE i # 1
    <3>1. i - 1 \in 1 .. j
      BY <2>3
    <3>2. p[i - 1] = x - (i - 1)
      BY <3>1 DEF Below
    <3> HIDE DEF p, q, b, o
    <3> QED
      BY <1>2, <2>1, <2>3, <3>1, <3>2
  <2> QED
    BY <2>2, <2>3
<1> HIDE DEF p, q, b, o
<1>4. b = q
  BY <1>1, <1>2, <1>3, SeqEqual
<1> QED
  BY <1>4 DEF b, p, q, o

-----------------------------------------------------------------------------
(* Pages read downwards                                                    *)

\* After i turns of the loop that began below record x.
DownAt(s, t, x, f, i) ==
  LET n == x - Oldest(t)
      j == Upto(i, n)
  IN  /\ s \in State
      /\ s.cur = SlotOf(x - j)
      /\ s.read = Below(x, j)
      /\ s.empty => i > n
      /\ s.flags = IF i >= 1 /\ i >= n THEN Marked(f, t, "END") ELSE f

\* A turn of the loop reads the record below, or finds there is none.
LEMMA DownOne ==
  ASSUME Rings, NEW t \in Type, NEW x \in Oldest(t) .. written[t] + 1, NEW f \in Flags,
         NEW i \in Nat, isLogFull(t) => i < x - Oldest(t),
         NEW s, DownAt(s, t, x, f, i)
  PROVE  DownAt(ReadOne(t, "DOWN", s), t, x, f, i + 1)
<1> DEFINE o == Oldest(t)
           n == x - o
           w == written[t]
           q == ReadOne(t, "DOWN", s)
           mk == Marked(f, t, "END")
<1>1. /\ w \in Nat /\ o \in Nat \ {0} /\ w < o + TOTAL /\ o <= w + 1
      /\ isLogFull(t) <=> w >= TOTAL
      /\ ~ isLogFull(t) => o = 1
      /\ x \in Nat \ {0} /\ x >= o /\ x <= w + 1 /\ n \in Nat
      /\ TOTAL \in Nat /\ TOTAL >= 2
  <2>1. /\ w \in Nat /\ o \in Nat \ {0} /\ w < o + TOTAL /\ o <= w + 1
        /\ isLogFull(t) <=> w >= TOTAL
        /\ ~ isLogFull(t) => o = 1
    BY RingBounds
  <2> HIDE DEF o, w
  <2>2. x \in o .. w + 1
    BY DEF o, w
  <2> QED
    BY <2>1, <2>2, PagerSizes
<1>2. s \in State /\ s.flags \in Flags /\ s.read \in Seq(Int) /\ s.cur \in Int
  BY DEF DownAt, State
<1>3. CASE s.empty
  <2>1. i > n
    BY <1>3 DEF DownAt
  <2>2. q = s
    BY <1>3 DEF ReadOne
  <2>3. Upto(i, n) = n /\ Upto(i + 1, n) = n /\ i + 1 > n /\ i >= 1 /\ i >= n /\ i + 1 >= 1
        /\ i + 1 >= n
    <3> HIDE DEF n
    <3> QED
      BY <1>1, <2>1 DEF Upto
  <2>4. s.cur = SlotOf(x - n) /\ s.read = Below(x, n) /\ s.flags = mk
    BY <2>3 DEF DownAt
  <2>5. q \in State /\ q.cur = SlotOf(x - n) /\ q.read = Below(x, n) /\ q.flags = mk
    BY <1>2, <2>2, <2>4
  <2>20. DownAt(q, t, x, f, i + 1)
    <3> HIDE DEF q, mk
    <3> QED
      BY <2>3, <2>5 DEF DownAt, mk
  <2> HIDE DEF q
  <2> QED
    BY <2>20 DEF q
<1>4. CASE ~ s.empty
  <2>0. q = ReadNextLog(t, s)
    BY <1>4 DEF ReadOne
  <2> DEFINE c == IF s.cur = 0 THEN TOTAL - 1 ELSE s.cur - 1
             last == IF isLogFull(t) THEN Next_W(t) ELSE 0
             end == s.cur = 0 /\ ~ isLogFull(t)
             sm == Marked(s.flags, t, "END")
             rd == Append(s.read, Slot(t, c))
             nl == ReadNextLog(t, s)
  <2>1. /\ nl \in State
        /\ end => nl.cur = s.cur /\ nl.flags = sm /\ nl.read = s.read /\ nl.empty = TRUE
        /\ ~ end => /\ nl.cur = c /\ nl.read = rd /\ nl.empty = s.empty
                    /\ nl.flags = IF c = last THEN sm ELSE s.flags
    BY <1>2, NextFields, Zenon
  <2> HIDE DEF nl
  <2>2. /\ q \in State
        /\ end => q.cur = s.cur /\ q.flags = sm /\ q.read = s.read /\ q.empty = TRUE
        /\ ~ end => /\ q.cur = c /\ q.read = rd /\ q.empty = s.empty
                    /\ q.flags = IF c = last THEN sm ELSE s.flags
    <3>1. q = nl
      BY <2>0 DEF nl
    <3> HIDE DEF q, c, last, end, sm, rd
    <3> QED
      BY <2>1, <3>1
  <2> HIDE DEF q
  <2>3. CASE i < n
    <3> DEFINE y == x - i
    <3>1. Upto(i, n) = i /\ Upto(i + 1, n) = i + 1 /\ ~ i >= n
      <4> HIDE DEF n
      <4> QED
        BY <1>1, <2>3 DEF Upto
    <3>2. s.cur = SlotOf(y) /\ s.read = Below(x, i) /\ s.flags = f
      BY <3>1 DEF DownAt
    <3>3. /\ y - 1 \in Nat \ {0} /\ y \in Nat \ {0} /\ y - 1 \in o .. w /\ (y - 1) + 1 = y
          /\ y <= w + 1 /\ y - 1 >= o
          /\ y - 1 = x - (i + 1)
      <4> HIDE DEF o, w
      <4> QED
        BY <1>1, <2>3
    <3> HIDE DEF y
    <3>4. SlotOf(y - 1) \in 0 .. TOTAL - 1 /\ SlotOf(y) \in 0 .. TOTAL - 1
      BY <3>3, SlotOfType
    <3>5. SlotOf(y) = IF SlotOf(y - 1) = TOTAL - 1 THEN 0 ELSE SlotOf(y - 1) + 1
      BY <3>3, SlotOfNext
    <3>6. c = SlotOf(y - 1)
      BY <1>1, <3>2, <3>4, <3>5
    <3>7. ~ end
      <4> SUFFICES ASSUME ~ isLogFull(t)
                   PROVE  SlotOf(y) # 0
        BY <3>2
      <4>1. w < TOTAL /\ o = 1
        <5> HIDE DEF w, o
        <5> QED
          BY <1>1
      <4>2. y \in 1 .. TOTAL /\ y >= 2
        <5> HIDE DEF w, o
        <5> QED
          BY <1>1, <3>3, <4>1
      <4>3. SlotOf(y) = y - 1
        BY <4>2, SlotOfSmall
      <4> QED
        BY <4>2, <4>3
    <3>8. Slot(t, c) = y - 1
      BY <3>3, <3>6, RecordRead
    <3>9. rd = Below(x, i + 1)
      <4>1. x \in Int /\ i \in Nat
        BY <1>1
      <4>2. Append(Below(x, i), x - (i + 1)) = Below(x, i + 1)
        BY <4>1, BelowMore
      <4>3. rd = Append(Below(x, i), x - (i + 1))
        BY <3>2, <3>3, <3>8
      <4> QED
        BY <4>2, <4>3
    <3>10. c = last <=> i + 1 >= n
      <4>1. SlotOf(o) = last
        BY OldestSlot
      <4>2. o <= y - 1 /\ y - 1 < o + TOTAL /\ y - 1 \in Nat \ {0} /\ o \in Nat \ {0}
        <5> HIDE DEF w, o
        <5> QED
          BY <1>1, <3>3
      <4>3. SlotOf(y - 1) = SlotOf(o) <=> y - 1 = o
        BY <4>2, SlotOfOwn
      <4>4. y - 1 = o <=> i + 1 >= n
        <5> HIDE DEF w, o
        <5>1. i + 1 <= n /\ y - 1 = x - (i + 1) /\ n = x - o
          BY <1>1, <2>3, <3>3
        <5> QED
          BY <1>1, <3>3, <5>1
      <4> HIDE DEF c, last
      <4> QED
        BY <3>6, <4>1, <4>3, <4>4
    <3>11. /\ q.cur = SlotOf(x - (i + 1)) /\ q.read = Below(x, i + 1) /\ ~ q.empty
           /\ q.flags = IF i + 1 >= n THEN mk ELSE f
      <4>1. sm = mk
        BY <3>2
      <4> HIDE DEF c, last, end, sm, rd, mk
      <4>2. q.cur = SlotOf(y - 1) /\ q.read = Below(x, i + 1) /\ ~ q.empty
        BY <1>4, <2>2, <3>6, <3>7, <3>9
      <4>3. q.flags = IF i + 1 >= n THEN mk ELSE f
        BY <2>2, <3>2, <3>7, <3>10, <4>1
      <4> QED
        BY <3>3, <4>2, <4>3
    <3>12. i + 1 >= 1 /\ i + 1 \in Nat
      OBVIOUS
    <3>13. q \in State
      <4> HIDE DEF end
      <4> QED
        BY <2>2
    <3>20. DownAt(q, t, x, f, i + 1)
      <4> HIDE DEF c, last, end, sm, rd, mk, q
      <4> QED
        BY <3>1, <3>11, <3>12, <3>13 DEF DownAt, mk
    <3> HIDE DEF q
    <3> QED
      BY <3>20 DEF q
  <2>4. CASE i >= n
    <3>1. Upto(i, n) = n /\ Upto(i + 1, n) = n /\ ~ isLogFull(t)
      <4> HIDE DEF n
      <4> QED
        BY <1>1, <2>4 DEF Upto, n
    <3>2. s.cur = SlotOf(x - n) /\ s.read = Below(x, n)
          /\ (s.flags = f \/ s.flags = mk)
      BY <3>1 DEF DownAt
    <3>3. x - n = 1 /\ 1 \in 1 .. TOTAL
      <4> HIDE DEF o
      <4> QED
        BY <1>1, <3>1
    <3>4. s.cur = 0
      <4>1. SlotOf(1) = 1 - 1
        BY <3>3, SlotOfSmall
      <4> QED
        BY <3>2, <3>3, <4>1
    <3>5. end
      BY <3>1, <3>4
    <3>6. sm = mk
      <4>1. Marked(mk, t, "END") = mk
        BY MarkedType DEF Ends
      <4> HIDE DEF mk
      <4> QED
        BY <3>2, <4>1 DEF mk
    <3>7. q.cur = SlotOf(x - n) /\ q.read = Below(x, n) /\ q.flags = mk /\ q.empty = TRUE /\ q \in State
      <4> HIDE DEF c, last, end, sm, rd, mk
      <4> QED
        BY <2>2, <3>2, <3>5, <3>6
    <3>8. i + 1 > n /\ i + 1 >= 1 /\ i + 1 >= n
      <4> HIDE DEF n
      <4> QED
        BY <1>1, <2>4
    <3>20. DownAt(q, t, x, f, i + 1)
      <4> HIDE DEF c, last, end, sm, rd, mk, q
      <4> QED
        BY <3>1, <3>7, <3>8 DEF DownAt, mk
    <3> HIDE DEF q
    <3> QED
      BY <3>20 DEF q
  <2>5. i < n \/ i >= n
    <3> HIDE DEF n
    <3> QED
      BY <1>1
  <2> QED
    BY <2>3, <2>4, <2>5
<1> QED
  BY <1>3, <1>4

\* The reading with which a page begins.
LEMMA StartFields ==
  ASSUME NEW c \in Int, NEW f \in Flags
  PROVE  /\ Start(c, f) \in State
         /\ Start(c, f).cur = c /\ Start(c, f).flags = f
         /\ Start(c, f).read = << >> /\ ~ Start(c, f).empty
<1> DEFINE start == Start(c, f)
<1>1. << >> \in Seq(Int)
  BY EmptySeq
<1>2. start = [cur |-> c, flags |-> f, read |-> << >>, empty |-> FALSE]
  BY DEF Start
<1>3. start.cur = c /\ start.flags = f /\ start.read = << >> /\ start.empty = FALSE
  BY <1>2
<1>4. start \in State
  <2> HIDE DEF start
  <2> QED
    BY <1>1, <1>2, <1>3 DEF State
<1> QED
  BY <1>3, <1>4

\* No records read: the page is empty.
LEMMA BelowNone ==
  ASSUME NEW x \in Int
  PROVE  Below(x, 0) = << >>
<1>1. Below(x, 0) \in Seq(Int) /\ Len(Below(x, 0)) = 0
  BY BelowSeq
<1> QED
  BY <1>1, EmptySeq

\* A page read downwards from record x holds the records below it.
LEMMA DownPage ==
  ASSUME Rings, NEW r \in Reader, NEW t \in Type, NEW x \in Oldest(t) .. written[t] + 1,
         NEW f \in Flags, isLogFull(t) => PAGE[r] <= x - Oldest(t)
  PROVE  LET s == ReadPage(r, t, "DOWN", Start(SlotOf(x), f))
             j == Upto(PAGE[r], x - Oldest(t))
         IN  /\ s \in State
             /\ s.cur = SlotOf(x - j)
             /\ s.read = Below(x, j)
             /\ s.flags = IF PAGE[r] >= x - Oldest(t) THEN Marked(f, t, "END") ELSE f
<1> DEFINE start == Start(SlotOf(x), f)
           N == PAGE[r]
           o == Oldest(t)
<1>1. N \in Nat /\ N >= 1
  BY PagerSizes
<1>2. o \in Nat \ {0} /\ x \in Nat \ {0} /\ x - o \in Nat /\ x \in Int
  <2>1. written[t] \in Nat /\ o \in Nat \ {0}
    BY RingBounds
  <2>2. x \in o .. written[t] + 1
    OBVIOUS
  <2> HIDE DEF o
  <2> QED
    BY <2>1, <2>2
<1>3. DownAt(start, t, x, f, 0)
  <2>1. SlotOf(x) \in Int
    BY <1>2, SlotOfType, PagerSizes
  <2>2. start \in State /\ start.cur = SlotOf(x) /\ start.flags = f
        /\ start.read = << >> /\ ~ start.empty
    BY <2>1, StartFields
  <2>3. Upto(0, x - o) = 0 /\ x - 0 = x /\ Below(x, 0) = << >>
    <3> HIDE DEF o
    <3> QED
      BY <1>2, BelowNone DEF Upto
  <2> HIDE DEF start
  <2> QED
    BY <2>2, <2>3 DEF DownAt
<1>4. PICK g : /\ g[0] = start
               /\ \A i \in 0 .. N - 1 : g[i + 1] = ReadOne(t, "DOWN", g[i])
               /\ ReadPage(r, t, "DOWN", start) = g[N]
  BY <1>1, PageLoop
<1> HIDE DEF start, N, o
<1> DEFINE T == {i \in Nat : i <= N => DownAt(g[i], t, x, f, i)}
<1>5. 0 \in T
  BY <1>3, <1>4
<1>6. ASSUME NEW i \in T
      PROVE  i + 1 \in T
  <2> SUFFICES ASSUME i + 1 <= N
               PROVE  DownAt(g[i + 1], t, x, f, i + 1)
    OBVIOUS
  <2>1. i \in Nat /\ i <= N /\ DownAt(g[i], t, x, f, i) /\ i \in 0 .. N - 1
    BY <1>1
  <2>2. g[i + 1] = ReadOne(t, "DOWN", g[i])
    BY <1>4, <2>1
  <2>3. isLogFull(t) => i < x - Oldest(t)
    BY <1>1, <1>2, <2>1 DEF N, o
  <2>4. DownAt(ReadOne(t, "DOWN", g[i]), t, x, f, i + 1)
    BY <2>1, <2>3, DownOne
  <2> QED
    BY <2>2, <2>4
<1>7. T \in SUBSET Nat
  OBVIOUS
<1> HIDE DEF T
<1>8. T = Nat
  BY <1>5, <1>6, <1>7, SetInduction
<1>9. DownAt(g[N], t, x, f, N)
  BY <1>1, <1>8 DEF T
<1>10. ReadPage(r, t, "DOWN", Start(SlotOf(x), f)) = g[N]
  BY <1>4 DEF start
<1> QED
  BY <1>1, <1>9, <1>10 DEF DownAt, N

-----------------------------------------------------------------------------
(* Pages read upwards                                                      *)

\* After i turns of the loop that began at record x.
UpAt(s, t, x, f, i) ==
  /\ s \in State
  /\ s.cur = SlotOf(x + i)
  /\ s.read = Below(x + i + 1, i)
  /\ ~ s.empty
  /\ s.flags = IF i >= 1 /\ x + i = written[t] /\ Next_W(t) >= 1 THEN Marked(f, t, "HEAD") ELSE f

\* A turn of the loop reads the record above, as long as there is one.
LEMMA UpOne ==
  ASSUME Rings, NEW t \in Type, NEW x \in Oldest(t) .. written[t], NEW f \in Flags,
         NEW i \in Nat, x + i + 1 <= written[t],
         NEW s, UpAt(s, t, x, f, i)
  PROVE  UpAt(ReadOne(t, "UP", s), t, x, f, i + 1)
<1> DEFINE o == Oldest(t)
           w == written[t]
           e == Next_W(t)
           q == ReadOne(t, "UP", s)
           mk == Marked(f, t, "HEAD")
           y == x + i
           c == IF s.cur = TOTAL - 1 THEN 0 ELSE s.cur + 1
           rd == <<Slot(t, c)>> \o s.read
           sm == Marked(s.flags, t, "HEAD")
           nl == ReadPreviousLog(t, s)
           end == s.cur # TOTAL - 1 /\ s.cur = e - 1
<1>1. /\ w \in Nat /\ o \in Nat \ {0} /\ w < o + TOTAL
      /\ x \in Nat \ {0} /\ x >= o
      /\ y \in Nat \ {0} /\ y >= o /\ y + 1 <= w /\ y + 1 \in Nat \ {0}
      /\ w + 1 \in Nat \ {0}
      /\ TOTAL \in Nat /\ TOTAL >= 2
      /\ e \in 0 .. TOTAL - 1 /\ e = SlotOf(w + 1)
  <2>1. w \in Nat /\ o \in Nat \ {0} /\ w < o + TOTAL /\ e \in 0 .. TOTAL - 1
        /\ e = SlotOf(w + 1)
    BY RingBounds
  <2>2. x \in o .. w /\ x + i + 1 <= w
    OBVIOUS
  <2> HIDE DEF o, w, e
  <2> QED
    BY <2>1, <2>2, PagerSizes
<1>2. s \in State /\ s.cur = SlotOf(y) /\ s.read = Below(y + 1, i) /\ ~ s.empty /\ s.flags = f
  <2>1. ~ (x + i = w)
    <3> HIDE DEF w
    <3> QED
      BY <1>1
  <2> QED
    BY <2>1 DEF UpAt
<1> HIDE DEF y
<1>3. SlotOf(y) \in 0 .. TOTAL - 1 /\ SlotOf(y + 1) \in 0 .. TOTAL - 1
      /\ SlotOf(y + 1) = IF SlotOf(y) = TOTAL - 1 THEN 0 ELSE SlotOf(y) + 1
  BY <1>1, SlotOfType, SlotOfNext
<1>4. c = SlotOf(y + 1)
  BY <1>2, <1>3
<1>5. ~ end
  <2> SUFFICES ASSUME end
               PROVE  FALSE
    OBVIOUS
  <2>1. SlotOf(y + 1) = SlotOf(w + 1)
    <3> HIDE DEF e, w
    <3> QED
      BY <1>1, <1>2, <1>3
  <2>2. y + 1 <= w + 1 /\ w + 1 < (y + 1) + TOTAL
    <3> HIDE DEF e, w, o
    <3> QED
      BY <1>1
  <2>3. y + 1 = w + 1
    <3> HIDE DEF w
    <3> QED
      BY <1>1, <2>1, <2>2, SlotOfOwn
  <2> HIDE DEF w, o, e
  <2> QED
    BY <1>1, <2>3
<1>6. c = e - 1 <=> y + 1 = w /\ e >= 1
  <2>1. w \in Nat \ {0} /\ y + 1 <= w /\ w < (y + 1) + TOTAL
    <3> HIDE DEF e, w, o
    <3> QED
      BY <1>1
  <2> HIDE DEF w
  <2>2. SlotOf(w) \in 0 .. TOTAL - 1
        /\ SlotOf(w + 1) = IF SlotOf(w) = TOTAL - 1 THEN 0 ELSE SlotOf(w) + 1
    BY <2>1, SlotOfType, SlotOfNext
  <2>3. SlotOf(y + 1) = SlotOf(w) <=> y + 1 = w
    BY <1>1, <2>1, SlotOfOwn
  <2> HIDE DEF e, c
  <2> QED
    BY <1>1, <1>3, <1>4, <2>2, <2>3
<1>7. Slot(t, c) = y + 1
  <2>1. y + 1 \in o .. w
    <3> HIDE DEF w, o
    <3> QED
      BY <1>1
  <2>2. Slot(t, SlotOf(y + 1)) = y + 1
    BY <2>1, RecordRead
  <2> HIDE DEF c
  <2> QED
    BY <1>4, <2>2
<1>8. rd = Below(y + 2, i + 1)
  <2>1. y + 1 \in Int /\ (y + 1) + 1 = y + 2
    <3> HIDE DEF w
    <3> QED
      BY <1>1
  <2>2. <<y + 1>> \o Below(y + 1, i) = Below((y + 1) + 1, i + 1)
    BY <2>1, BelowUp
  <2> QED
    BY <1>2, <1>7, <2>1, <2>2
<1>9. q = nl
  BY <1>2 DEF ReadOne
<1>10. /\ nl \in State
       /\ ~ end => /\ nl.cur = c /\ nl.read = rd /\ nl.empty = s.empty
                   /\ nl.flags = IF c = e - 1 THEN sm ELSE s.flags
  BY <1>2, PreviousFields, Zenon
<1>11. sm = mk
  BY <1>2
<1>12. (x + (i + 1) = y + 1) /\ (x + (i + 1) + 1 = y + 2) /\ i + 1 >= 1
  <2> HIDE DEF w
  <2> QED
    BY <1>1 DEF y
<1> HIDE DEF nl, c, end, sm, rd, q, mk, e, w
<1>13. q \in State /\ q.cur = SlotOf(y + 1) /\ q.read = Below(y + 2, i + 1) /\ ~ q.empty
  BY <1>2, <1>4, <1>5, <1>8, <1>9, <1>10
<1>14. q.flags = IF y + 1 = w /\ e >= 1 THEN mk ELSE f
  BY <1>2, <1>5, <1>6, <1>9, <1>10, <1>11
<1>15. UpAt(q, t, x, f, i + 1)
  BY <1>12, <1>13, <1>14 DEF UpAt, mk, w, e
<1> QED
  BY <1>15 DEF q

\* A page read upwards from record x holds the records above it.
LEMMA UpPage ==
  ASSUME Rings, NEW r \in Reader, NEW t \in Type, NEW x \in Oldest(t) .. written[t],
         NEW f \in Flags, x + PAGE[r] <= written[t]
  PROVE  LET s == ReadPage(r, t, "UP", Start(SlotOf(x), f))
         IN  /\ s \in State
             /\ s.cur = SlotOf(x + PAGE[r])
             /\ s.read = Below(x + PAGE[r] + 1, PAGE[r])
             /\ s.flags = IF x + PAGE[r] = written[t] /\ Next_W(t) >= 1
                          THEN Marked(f, t, "HEAD") ELSE f
<1> DEFINE start == Start(SlotOf(x), f)
           N == PAGE[r]
           w == written[t]
<1>1. N \in Nat /\ N >= 1
  BY PagerSizes
<1>2. x \in Nat \ {0} /\ w \in Nat /\ x + N <= w
  <2>1. w \in Nat /\ Oldest(t) \in Nat \ {0}
    BY RingBounds
  <2>2. x \in Oldest(t) .. w
    OBVIOUS
  <2> HIDE DEF w
  <2> QED
    BY <2>1, <2>2 DEF w
<1>3. UpAt(start, t, x, f, 0)
  <2>1. SlotOf(x) \in Int
    BY <1>2, SlotOfType, PagerSizes
  <2>2. start \in State /\ start.cur = SlotOf(x) /\ start.flags = f
        /\ start.read = << >> /\ ~ start.empty
    BY <2>1, StartFields
  <2>3. x + 0 = x /\ x + 0 + 1 = x + 1 /\ ~ 0 >= 1 /\ x + 1 \in Int
    <3> HIDE DEF w
    <3> QED
      BY <1>2
  <2>4. Below(x + 1, 0) = << >>
    BY <2>3, BelowNone
  <2> HIDE DEF start
  <2> QED
    BY <2>2, <2>3, <2>4 DEF UpAt
<1>4. PICK g : /\ g[0] = start
               /\ \A i \in 0 .. N - 1 : g[i + 1] = ReadOne(t, "UP", g[i])
               /\ ReadPage(r, t, "UP", start) = g[N]
  BY <1>1, PageLoop
<1> HIDE DEF start, N, w
<1> DEFINE T == {i \in Nat : i <= N => UpAt(g[i], t, x, f, i)}
<1>5. 0 \in T
  BY <1>3, <1>4
<1>6. ASSUME NEW i \in T
      PROVE  i + 1 \in T
  <2> SUFFICES ASSUME i + 1 <= N
               PROVE  UpAt(g[i + 1], t, x, f, i + 1)
    OBVIOUS
  <2>1. i \in Nat /\ i <= N /\ UpAt(g[i], t, x, f, i) /\ i \in 0 .. N - 1
    BY <1>1
  <2>2. g[i + 1] = ReadOne(t, "UP", g[i])
    BY <1>4, <2>1
  <2>3. x + i + 1 <= written[t]
    BY <1>1, <1>2, <2>1 DEF w
  <2>4. UpAt(ReadOne(t, "UP", g[i]), t, x, f, i + 1)
    BY <2>1, <2>3, UpOne
  <2> QED
    BY <2>2, <2>4
<1>7. T \in SUBSET Nat
  OBVIOUS
<1> HIDE DEF T
<1>8. T = Nat
  BY <1>5, <1>6, <1>7, SetInduction
<1>9. UpAt(g[N], t, x, f, N)
  BY <1>1, <1>8 DEF T
<1>10. ReadPage(r, t, "UP", Start(SlotOf(x), f)) = g[N]
  BY <1>4 DEF start
<1> QED
  BY <1>1, <1>9, <1>10 DEF UpAt, N

-----------------------------------------------------------------------------
(* The page a reader is on                                                 *)

\* Reader r is on the page of log t whose newest record is n.
Reads(r, t, n, pg, ln, d, cur, fl) ==
  LET o == Oldest(t)
      h == Upto(PAGE[r], n - o + 1)
  IN  /\ n \in Int /\ n <= written[t] /\ n >= o - 1 /\ (written[t] > 0 => n >= o)
      /\ \E m \in Nat : n = written[t] - m * PAGE[r]
      /\ pg = Below(n + 1, h) /\ (h > 0 => ln = h)
      /\ d = "DOWN" => cur = SlotOf(n - h + 1)
      /\ d = "UP" => h = PAGE[r] /\ cur = SlotOf(n)
      /\ isPageOverOne(r, t) => fl # Ends
      /\ "END" \in fl <=> n - PAGE[r] < o
      /\ "HEAD" \in fl => n = written[t]
      /\ n = written[t] => "HEAD" \in fl \/ (isLogFull(t) /\ Next_W(t) = 0)

\* Two multiples of a page that differ are a page apart.
LEMMA Multiples ==
  ASSUME NEW k \in Int, NEW m \in Int, NEW p \in Nat \ {0}, k * p - m * p > 0
  PROVE  k * p - m * p >= p
<1>1. k * p - m * p = (k - m) * p
  OBVIOUS
<1>2. k - m \in Int /\ k - m >= 1
  <2> SUFFICES ASSUME k - m <= 0
               PROVE  FALSE
    OBVIOUS
  <2>1. (m - k) \in Nat /\ (m - k) * p \in Nat /\ (k - m) * p = - ((m - k) * p)
    OBVIOUS
  <2> QED
    BY <1>1, <2>1
<1>3. \A a, b \in Nat : a >= 1 => a * b >= b
  OBVIOUS
<1> QED
  BY <1>1, <1>2, <1>3

\* In a ring that is full, what is above the base of a page is a whole page.
LEMMA WholePages ==
  ASSUME Rings, NEW r \in Reader, NEW t \in Type, isLogFull(t), NEW m \in Nat,
         written[t] - m * PAGE[r] >= Oldest(t)
  PROVE  written[t] - m * PAGE[r] - Oldest(t) + 1 >= PAGE[r]
<1> DEFINE P == PAGE[r]
           k == TOTAL \div P
<1>1. P \in Nat \ {0} /\ TOTAL \in Nat /\ TOTAL % P = 0
  BY PagerSizes
<1>2. k \in Nat /\ TOTAL = (k * P) + (TOTAL % P)
  <2> HIDE DEF P
  <2> QED
    BY <1>1, Quotient
<1> HIDE DEF P, k
<1>3. m * P \in Nat /\ k * P \in Nat /\ TOTAL = k * P
  BY <1>1, <1>2
<1>4. written[t] \in Nat /\ Oldest(t) = written[t] - TOTAL + 1
  BY RingBounds
<1>5. k * P - m * P > 0
  BY <1>3, <1>4 DEF P
<1>6. k * P - m * P >= P
  BY <1>1, <1>2, <1>5, Multiples
<1> QED
  BY <1>1, <1>3, <1>4, <1>6 DEF P

\* The flags of one reader are set, the other keeps its own.
LEMMA FlagsExcept ==
  ASSUME NEW f \in Flags, NEW r \in Reader, NEW v \in SUBSET Ends
  PROVE  [f EXCEPT ![r] = v] \in Flags /\ [f EXCEPT ![r] = v][r] = v
BY DEF Flags

\* The top page of a file is not, by that alone, the page with both its ends.
LEMMA TopIsNotEnds == {"HEAD"} # {"HEAD", "END"} /\ "END" \notin {"HEAD"}
OBVIOUS

\* ReadWebFirstPageLog, ReadLCDFirstPageLog: the page of the newest records.
LEMMA FirstReads ==
  ASSUME Rings, NEW r \in Reader, NEW t \in Type, NEW f \in Flags, NEW ln
  PROVE  LET s == ReadPage(r, t, "DOWN", Start(Next_W(t), [f EXCEPT ![r] = {"HEAD"}]))
         IN  (Len(s.read) > 0 => ln = Len(s.read)) =>
               Reads(r, t, written[t], s.read, ln, "DOWN", s.cur, s.flags[r])
<1> DEFINE g == [f EXCEPT ![r] = {"HEAD"}]
           s == ReadPage(r, t, "DOWN", Start(Next_W(t), g))
           w == written[t]
           o == Oldest(t)
           x == w + 1
           P == PAGE[r]
           j == Upto(P, x - o)
           h == Upto(P, w - o + 1)
<1> SUFFICES ASSUME Len(s.read) > 0 => ln = Len(s.read)
             PROVE  Reads(r, t, w, s.read, ln, "DOWN", s.cur, s.flags[r])
  OBVIOUS
<1>1. g \in Flags /\ g[r] = {"HEAD"}
  BY FlagsExcept DEF Ends
<1>2. /\ w \in Nat /\ o \in Nat \ {0} /\ o <= w + 1
      /\ isLogFull(t) <=> w + 1 - o = TOTAL
      /\ ~ isLogFull(t) => o = 1 /\ Next_W(t) = w
      /\ Next_W(t) = SlotOf(x)
      /\ P \in Nat /\ P >= 1 /\ P < TOTAL /\ TOTAL \in Nat
  <2>1. /\ w \in Nat /\ o \in Nat \ {0} /\ o <= w + 1
        /\ isLogFull(t) <=> w + 1 - o = TOTAL
        /\ ~ isLogFull(t) => o = 1 /\ Next_W(t) = w
        /\ Next_W(t) = SlotOf(x)
    BY RingBounds
  <2> HIDE DEF w, o, x
  <2> QED
    BY <2>1, PagerSizes
<1> HIDE DEF g
<1>3. x \in o .. w + 1 /\ (isLogFull(t) => P <= x - o) /\ x - o = w - o + 1 /\ j = h
  <2> HIDE DEF w, o, P
  <2> QED
    BY <1>2
<1>4. /\ s.cur = SlotOf(x - h)
      /\ s.read = Below(x, h)
      /\ s.flags = IF P >= x - o THEN Marked(g, t, "END") ELSE g
  <2>1. /\ s.cur = SlotOf(x - j)
        /\ s.read = Below(x, j)
        /\ s.flags = IF P >= x - o THEN Marked(g, t, "END") ELSE g
    <3>1. x \in Oldest(t) .. written[t] + 1 /\ (isLogFull(t) => PAGE[r] <= x - Oldest(t))
      BY <1>3
    <3>2. s = ReadPage(r, t, "DOWN", Start(SlotOf(x), g))
      BY <1>2
    <3> HIDE DEF x
    <3> QED
      BY <1>1, <3>1, <3>2, DownPage
  <2> HIDE DEF s, x, j, h, P, o
  <2> QED
    BY <1>3, <2>1
<1>5. s.flags[r] = IF P >= x - o
                   THEN IF isPageOverOne(r, t) THEN {"END"} ELSE {"HEAD", "END"}
                   ELSE {"HEAD"}
  <2>1. Marked(g, t, "END")[r] = IF isPageOverOne(r, t) THEN {"END"} ELSE g[r] \cup {"END"}
    BY DEF Marked
  <2> HIDE DEF s, x, P, o
  <2> QED
    BY <1>1, <1>4, <2>1
<1>6. isPageOverOne(r, t) => ~ P >= x - o
  <2>1. isPageOverOne(r, t) => isLogFull(t) \/ P < Next_W(t)
    BY DEF isPageOverOne
  <2> HIDE DEF x, P, w, o
  <2>2. x = w + 1
    BY DEF x
  <2> QED
    BY <1>2, <2>1, <2>2
<1>7. h \in Nat /\ Len(s.read) = h
  <2>1. h \in Nat
    <3> HIDE DEF w, o, P
    <3> QED
      BY <1>2 DEF Upto
  <2>2. x \in Int
    <3> HIDE DEF w
    <3> QED
      BY <1>2
  <2>3. Len(Below(x, h)) = h
    <3> HIDE DEF x, h
    <3> QED
      BY <2>1, <2>2, BelowSeq
  <2> HIDE DEF s, h, x
  <2> QED
    BY <1>4, <2>1, <2>3
<1>8. \E m \in Nat : w = w - m * P
  <2>1. 0 * P = 0
    <3> HIDE DEF P
    <3> QED
      BY <1>2
  <2>2. w = w - 0 * P
    <3> HIDE DEF w, P
    <3> QED
      BY <1>2, <2>1
  <2> HIDE DEF w, P
  <2> QED
    BY <2>2
<1> DEFINE pg == s.read
           cur == s.cur
           fl == s.flags[r]
<1>9. /\ w \in Int /\ w <= w /\ w >= o - 1 /\ (w > 0 => w >= o)
      /\ pg = Below(w + 1, h) /\ (h > 0 => ln = h)
      /\ cur = SlotOf(w - h + 1)
      /\ isPageOverOne(r, t) => fl # Ends
      /\ "END" \in fl <=> w - P < o
      /\ "HEAD" \in fl
  <2>1. w \in Int /\ w <= w /\ w >= o - 1 /\ x - h = w - h + 1
        /\ (P >= x - o <=> w - P < o)
    <3> HIDE DEF w, o, P, h
    <3> QED
      BY <1>2, <1>7
  <2>2. w > 0 => w >= o
    <3> HIDE DEF w, o
    <3> QED
      BY <1>2
  <2>3. (isPageOverOne(r, t) => fl # Ends) /\ ("END" \in fl <=> P >= x - o) /\ "HEAD" \in fl
    <3> HIDE DEF fl, x, P, o
    <3> QED
      BY <1>5, <1>6, TopIsNotEnds DEF Ends, fl
  <2> HIDE DEF s, w, o, P, h, fl
  <2> QED
    BY <1>4, <1>7, <2>1, <2>2, <2>3 DEF x
<1> HIDE DEF s, pg, cur, fl
<1>10. Reads(r, t, w, pg, ln, "DOWN", cur, fl)
  BY <1>8, <1>9 DEF Reads
<1> QED
  BY <1>10 DEF pg, cur, fl

\* The page below: read from the base of the page the reader is on.
LEMMA NextReads ==
  ASSUME Rings, NEW r \in Reader, NEW t \in Type, NEW f \in Flags,
         NEW n, NEW pg, NEW ln, NEW d \in {"UP", "DOWN"}, NEW cur, NEW fl,
         Reads(r, t, n, pg, ln, d, cur, fl), "END" \notin fl,
         NEW back, back = IF d = "DOWN" THEN 0 ELSE ln - 1, cur - back \in Ring
  PROVE  LET s == ReadPage(r, t, "DOWN", Start(cur - back, [f EXCEPT ![r] = {}]))
         IN  Reads(r, t, n - PAGE[r], s.read, Len(s.read), "DOWN", s.cur, s.flags[r])
<1> DEFINE g == [f EXCEPT ![r] = {}]
           s == ReadPage(r, t, "DOWN", Start(cur - back, g))
           w == written[t]
           o == Oldest(t)
           P == PAGE[r]
           x == n - P + 1
           j == Upto(P, x - o)
           h == Upto(P, n - o + 1)
           k == n - P
           i == Upto(P, k - o + 1)
<1>1. g \in Flags /\ g[r] = {}
  BY FlagsExcept
<1>2. /\ w \in Nat /\ o \in Nat \ {0} /\ o <= w + 1
      /\ P \in Nat /\ P >= 1 /\ P < TOTAL /\ TOTAL \in Nat
  <2>1. /\ w \in Nat /\ o \in Nat \ {0} /\ o <= w + 1
    BY RingBounds
  <2> HIDE DEF w, o
  <2> QED
    BY <2>1, PagerSizes
<1> HIDE DEF g
<1>3. PICK m \in Nat : n = w - m * P
  BY DEF Reads
<1>4. /\ n \in Int /\ n <= w /\ ~ (n - P < o) /\ (h > 0 => ln = h)
      /\ d = "DOWN" => cur = SlotOf(n - h + 1)
      /\ d = "UP" => h = P /\ cur = SlotOf(n)
  BY DEF Reads
<1>5. h = P /\ n - h + 1 = x /\ x \in Nat \ {0} /\ x >= o + 1 /\ x <= w /\ ln = P /\ n \in Nat \ {0}
      /\ x - o = k - o + 1 /\ k \in Int /\ k >= o /\ k < w /\ x + (P - 1) = n
  <2>1. h = P
    <3> HIDE DEF w, o, P
    <3> QED
      BY <1>2, <1>4 DEF Upto
  <2> HIDE DEF w, o, P, h
  <2> QED
    BY <1>2, <1>4, <2>1
<1>6. cur - back = SlotOf(x)
  <2>1. CASE d = "DOWN"
    <3>1. cur = SlotOf(x) /\ back = 0
      BY <1>4, <1>5, <2>1
    <3>2. SlotOf(x) \in 0 .. TOTAL - 1
      BY <1>5, SlotOfType
    <3> QED
      BY <1>2, <3>1, <3>2
  <2>2. CASE d = "UP"
    <3>1. cur = SlotOf(n) /\ back = P - 1
      <4>1. d # "DOWN"
        BY <2>2
      <4> HIDE DEF P, h
      <4> QED
        BY <1>4, <1>5, <2>2, <4>1
    <3>2. SlotOf(x) \in 0 .. TOTAL - 1 /\ SlotOf(n) \in 0 .. TOTAL - 1
      BY <1>5, SlotOfType
    <3>3. P - 1 \in 0 .. TOTAL - 1
      <4> HIDE DEF P
      <4> QED
        BY <1>2
    <3>4. SlotOf(x + (P - 1)) = IF SlotOf(x) + (P - 1) < TOTAL THEN SlotOf(x) + (P - 1)
                                ELSE SlotOf(x) + (P - 1) - TOTAL
      <4> HIDE DEF P, x
      <4> QED
        BY <1>5, <3>3, SlotOfNear
    <3>5. SlotOf(x + (P - 1)) = SlotOf(n)
      BY <1>5
    <3>6. SlotOf(n) - (P - 1) \in 0 .. TOTAL - 1
      BY <3>1 DEF Ring
    <3> HIDE DEF P, x
    <3> QED
      BY <1>2, <3>1, <3>2, <3>3, <3>4, <3>5, <3>6
  <2> QED
    BY <2>1, <2>2
<1>7. n - P = w - (m + 1) * P /\ m + 1 \in Nat
  <2>1. \A a, b \in Nat : (a + 1) * b = a * b + b /\ a * b \in Nat
    OBVIOUS
  <2>2. (m + 1) * P = m * P + P /\ m * P \in Nat
    <3> HIDE DEF P
    <3> QED
      BY <1>2, <2>1
  <2> HIDE DEF P, w
  <2> QED
    BY <1>2, <1>3, <2>2
<1>8. isLogFull(t) => P <= x - o
  <2> SUFFICES ASSUME isLogFull(t)
               PROVE  P <= x - o
    OBVIOUS
  <2>1. w - (m + 1) * P >= o
    <3> HIDE DEF P, w, o
    <3> QED
      BY <1>2, <1>5, <1>7 DEF k
  <2>2. w - (m + 1) * P - o + 1 >= P
    BY <1>7, <2>1, WholePages
  <2> HIDE DEF P, w, o
  <2> QED
    BY <1>2, <1>4, <1>7, <2>2
<1>9. /\ s.cur = SlotOf(x - i)
      /\ s.read = Below(x, i)
      /\ s.flags = IF P >= x - o THEN Marked(g, t, "END") ELSE g
  <2>1. x \in Oldest(t) .. written[t] + 1 /\ (isLogFull(t) => PAGE[r] <= x - Oldest(t))
    <3>1. x \in o .. w + 1
      <4> HIDE DEF x, w, o
      <4> QED
        BY <1>2, <1>5
    <3> QED
      BY <1>8, <3>1
  <2>2. s = ReadPage(r, t, "DOWN", Start(SlotOf(x), g))
    BY <1>6
  <2>3. /\ s.cur = SlotOf(x - j)
        /\ s.read = Below(x, j)
        /\ s.flags = IF P >= x - o THEN Marked(g, t, "END") ELSE g
    <3> HIDE DEF x
    <3> QED
      BY <1>1, <2>1, <2>2, DownPage
  <2>4. i = j
    BY <1>5
  <2> HIDE DEF s, x, j, i, P, o
  <2> QED
    BY <2>3, <2>4
<1>10. s.flags[r] = IF P >= x - o THEN {"END"} ELSE {}
  <2>1. Marked(g, t, "END")[r] = IF isPageOverOne(r, t) THEN {"END"} ELSE g[r] \cup {"END"}
    BY DEF Marked
  <2>2. Marked(g, t, "END")[r] = {"END"}
    BY <1>1, <2>1
  <2> HIDE DEF s, x, P, o
  <2> QED
    BY <1>1, <1>9, <2>2
<1>11. i \in Nat /\ Len(s.read) = i
  <2>1. i \in Nat /\ x \in Int
    <3> HIDE DEF w, o, P, k
    <3> QED
      BY <1>2, <1>5 DEF Upto
  <2>3. Len(Below(x, i)) = i
    <3> HIDE DEF x, i
    <3> QED
      BY <2>1, BelowSeq
  <2> HIDE DEF s, i, x
  <2> QED
    BY <1>9, <2>1, <2>3
<1> DEFINE pp == s.read
           cc == s.cur
           ff == s.flags[r]
           ll == Len(s.read)
<1>12. \E a \in Nat : k = w - a * P
  <2> HIDE DEF P, w
  <2> QED
    BY <1>7
<1>13. /\ k \in Int /\ k <= w /\ k >= o - 1 /\ (w > 0 => k >= o) /\ k # w
       /\ pp = Below(k + 1, i) /\ (i > 0 => ll = i)
       /\ cc = SlotOf(k - i + 1)
       /\ ff # Ends
       /\ "END" \in ff <=> k - P < o
       /\ "HEAD" \notin ff
  <2>1. x = k + 1 /\ x - i = k - i + 1 /\ (P >= x - o <=> k - P < o)
    <3> HIDE DEF o, P, i
    <3> QED
      BY <1>2, <1>4, <1>11
  <2>2. k \in Int /\ k <= w /\ k >= o - 1 /\ (w > 0 => k >= o) /\ k # w
    <3> HIDE DEF o, w, k
    <3> QED
      BY <1>2, <1>5
  <2>3. ff # Ends /\ ("END" \in ff <=> P >= x - o) /\ "HEAD" \notin ff
    <3>1. "HEAD" # "END" /\ "HEAD" \in Ends
      BY DEF Ends
    <3> HIDE DEF s, x, P, o
    <3> QED
      BY <1>10, <3>1
  <2> HIDE DEF s, w, o, P, i, k, x
  <2> QED
    BY <1>9, <1>11, <2>1, <2>2, <2>3
<1> HIDE DEF s, pp, cc, ff, ll
<1>14. Reads(r, t, k, pp, ll, "DOWN", cc, ff)
  BY <1>12, <1>13 DEF Reads
<1> QED
  BY <1>14 DEF pp, cc, ff, ll, s, g

\* The page above: read from the newest record of the page the reader is on.
LEMMA PreviousReads ==
  ASSUME Rings, NEW r \in Reader, NEW t \in Type, NEW f \in Flags,
         NEW n, NEW pg, NEW ln, NEW d \in {"UP", "DOWN"}, NEW cur, NEW fl,
         Reads(r, t, n, pg, ln, d, cur, fl), n # written[t],
         NEW back, back = IF d = "UP" THEN 0 ELSE ln - 1, cur + back \in Ring
  PROVE  LET s == ReadPage(r, t, "UP", Start(cur + back, [f EXCEPT ![r] = {}]))
         IN  Reads(r, t, n + PAGE[r], s.read, Len(s.read), "UP", s.cur, s.flags[r])
<1> DEFINE g == [f EXCEPT ![r] = {}]
           s == ReadPage(r, t, "UP", Start(cur + back, g))
           w == written[t]
           o == Oldest(t)
           P == PAGE[r]
           h == Upto(P, n - o + 1)
           k == n + P
           i == Upto(P, k - o + 1)
<1>1. g \in Flags /\ g[r] = {}
  BY FlagsExcept
<1>2. /\ w \in Nat /\ o \in Nat \ {0} /\ o <= w + 1
      /\ P \in Nat /\ P >= 1 /\ P < TOTAL /\ TOTAL \in Nat
  <2>1. /\ w \in Nat /\ o \in Nat \ {0} /\ o <= w + 1
    BY RingBounds
  <2> HIDE DEF w, o
  <2> QED
    BY <2>1, PagerSizes
<1> HIDE DEF g
<1>3. PICK m \in Nat : n = w - m * P
  BY DEF Reads
<1>4. /\ n \in Int /\ n <= w /\ n >= o - 1 /\ (w > 0 => n >= o) /\ (h > 0 => ln = h)
      /\ d = "DOWN" => cur = SlotOf(n - h + 1)
      /\ d = "UP" => h = P /\ cur = SlotOf(n)
      /\ n # w
  BY DEF Reads
<1>5. n \in Nat \ {0} /\ n >= o
  <2> HIDE DEF w, o, h, P
  <2> QED
    BY <1>2, <1>4
<1>6. m - 1 \in Nat /\ k = w - (m - 1) * P /\ k <= w
  <2>1. \A a, b \in Nat : a >= 1 => a - 1 \in Nat /\ (a - 1) * b = a * b - b /\ (a - 1) * b \in Nat
                                    /\ a * b \in Nat
    OBVIOUS
  <2>2. 0 * P = 0
    <3> HIDE DEF P
    <3> QED
      BY <1>2
  <2>3. m # 0
    <3> HIDE DEF P, w
    <3> QED
      BY <1>2, <1>3, <1>4, <2>2
  <2>4. m >= 1
    BY <2>3
  <2>5. m - 1 \in Nat /\ (m - 1) * P = m * P - P /\ (m - 1) * P \in Nat /\ m * P \in Nat
    <3> HIDE DEF P
    <3> QED
      BY <1>2, <2>1, <2>4
  <2> HIDE DEF P, w
  <2> QED
    BY <1>2, <1>3, <2>5
<1>7. h \in 1 .. P /\ (n - h) + 1 \in Nat \ {0} /\ ((n - h) + 1) + (h - 1) = n /\ i = P
      /\ n - h + 1 = (n - h) + 1
  <2>1. h \in 1 .. P /\ h <= n - o + 1
    <3> HIDE DEF P, o
    <3> QED
      BY <1>2, <1>5 DEF Upto
  <2>2. i = P
    <3> HIDE DEF P, o
    <3> QED
      BY <1>2, <1>5 DEF Upto
  <2> HIDE DEF h, i, P, o
  <2> QED
    BY <1>2, <1>5, <2>1, <2>2
<1>8. cur + back = SlotOf(n)
  <2>0. SlotOf(n) \in 0 .. TOTAL - 1
    BY <1>5, SlotOfType
  <2>1. CASE d = "UP"
    <3>1. cur = SlotOf(n) /\ back = 0
      BY <1>4, <2>1
    <3> QED
      BY <1>2, <2>0, <3>1
  <2>2. CASE d = "DOWN"
    <3> DEFINE a == (n - h) + 1
    <3>1. cur = SlotOf(a) /\ back = h - 1
      <4>1. d # "UP"
        BY <2>2
      <4> HIDE DEF P, h
      <4> QED
        BY <1>2, <1>4, <1>7, <2>2, <4>1
    <3>2. SlotOf(a) \in 0 .. TOTAL - 1
      BY <1>7, SlotOfType
    <3>3. h - 1 \in 0 .. TOTAL - 1
      <4> HIDE DEF P, h
      <4> QED
        BY <1>2, <1>7
    <3>4. SlotOf(a + (h - 1)) = IF SlotOf(a) + (h - 1) < TOTAL THEN SlotOf(a) + (h - 1)
                                ELSE SlotOf(a) + (h - 1) - TOTAL
      <4>1. a \in Nat \ {0}
        BY <1>7
      <4> HIDE DEF h, a
      <4> QED
        BY <3>3, <4>1, SlotOfNear
    <3>5. SlotOf(a + (h - 1)) = SlotOf(n)
      BY <1>7
    <3>6. SlotOf(a) + (h - 1) \in 0 .. TOTAL - 1
      BY <3>1 DEF Ring
    <3> HIDE DEF h, a
    <3> QED
      BY <1>2, <3>1, <3>2, <3>3, <3>4, <3>5, <3>6
  <2> QED
    BY <2>1, <2>2
<1>9. /\ s.cur = SlotOf(k)
      /\ s.read = Below(k + 1, P)
      /\ s.flags = IF k = w /\ Next_W(t) >= 1 THEN Marked(g, t, "HEAD") ELSE g
  <2>1. n \in Oldest(t) .. written[t] /\ n + PAGE[r] <= written[t]
    <3>1. n \in o .. w /\ n + P <= w
      <4> HIDE DEF w, o, P
      <4> QED
        BY <1>2, <1>4, <1>5, <1>6
    <3> QED
      BY <3>1
  <2>2. s = ReadPage(r, t, "UP", Start(SlotOf(n), g))
    BY <1>8
  <2> QED
    BY <1>1, <2>1, <2>2, UpPage
<1>10. s.flags[r] = IF k = w /\ Next_W(t) >= 1 THEN {"HEAD"} ELSE {}
  <2>1. Marked(g, t, "HEAD")[r] = IF isPageOverOne(r, t) THEN {"HEAD"} ELSE g[r] \cup {"HEAD"}
    BY DEF Marked
  <2>2. Marked(g, t, "HEAD")[r] = {"HEAD"}
    BY <1>1, <2>1
  <2> HIDE DEF s, k, w
  <2> QED
    BY <1>1, <1>9, <2>2
<1>11. k \in Int /\ k >= o /\ ~ (k - P < o) /\ (k = w => w >= TOTAL \/ Next_W(t) >= 1)
  <2>1. k \in Int /\ k >= o /\ ~ (k - P < o) /\ k >= 1
    <3> HIDE DEF P, o
    <3> QED
      BY <1>2, <1>5
  <2>2. w >= TOTAL \/ Next_W(t) = w
    BY RingBounds
  <2> HIDE DEF w, k, P, o
  <2> QED
    BY <1>2, <2>1, <2>2
<1>12. Len(s.read) = P
  <2>1. k + 1 \in Int
    <3> HIDE DEF k
    <3> QED
      BY <1>11
  <2>2. Len(Below(k + 1, P)) = P
    <3> HIDE DEF k, P
    <3> QED
      BY <1>2, <2>1, BelowSeq
  <2> HIDE DEF s, k, P
  <2> QED
    BY <1>9, <2>2
<1>13. k = w => Next_W(t) >= 1 \/ (isLogFull(t) /\ Next_W(t) = 0)
  <2>1. Next_W(t) \in 0 .. TOTAL - 1 /\ (isLogFull(t) <=> w >= TOTAL)
    BY RingBounds
  <2> HIDE DEF w, k
  <2> QED
    BY <1>2, <1>11, <2>1
<1> DEFINE pp == s.read
           cc == s.cur
           ff == s.flags[r]
           ll == Len(s.read)
<1>14. \E a \in Nat : k = w - a * P
  <2> HIDE DEF P, w, k
  <2> QED
    BY <1>6
<1>15. /\ k \in Int /\ k <= w /\ k >= o - 1 /\ (w > 0 => k >= o)
       /\ pp = Below(k + 1, i) /\ (i > 0 => ll = i)
       /\ i = P /\ cc = SlotOf(k)
       /\ ff # Ends
       /\ ("END" \in ff <=> k - P < o)
       /\ ("HEAD" \in ff => k = w)
       /\ (k = w => "HEAD" \in ff \/ (isLogFull(t) /\ Next_W(t) = 0))
  <2>1. k >= o - 1
    <3> HIDE DEF k, o
    <3> QED
      BY <1>2, <1>11
  <2>2. ff # Ends /\ "END" \notin ff /\ ("HEAD" \in ff <=> k = w /\ Next_W(t) >= 1)
    <3>1. "HEAD" # "END" /\ "END" \in Ends
      BY DEF Ends
    <3> HIDE DEF s, k, w
    <3> QED
      BY <1>10, <3>1
  <2> HIDE DEF s, w, o, P, i, k
  <2> QED
    BY <1>6, <1>7, <1>9, <1>11, <1>12, <1>13, <2>1, <2>2
<1> HIDE DEF s, pp, cc, ff, ll
<1>16. Reads(r, t, k, pp, ll, "UP", cc, ff)
  BY <1>14, <1>15 DEF Reads
<1> QED
  BY <1>16 DEF pp, cc, ff, ll, s, g

-----------------------------------------------------------------------------
(* The invariant                                                           *)

\* The types.
Typed ==
  /\ written \in [Type -> Nat] /\ \A t \in Type : written[t] <= Records[t]
  /\ crtReadAddrVal \in [Type -> Int]
  /\ flags \in Flags
  /\ lastNum \in [Reader -> Nat] /\ page \in [Reader -> Seq(Int)]
  /\ \A r \in Reader : lastNum[r] <= PAGE[r] /\ Len(page[r]) <= PAGE[r]
  /\ dir \in [Reader -> {"UP", "DOWN"}]
  /\ type \in [Reader -> Type \cup {"none"}]
  /\ buttons \in SUBSET Ends
  /\ top \in [Reader -> Int]
  /\ kept \in [Reader -> BOOLEAN]

\* A reader that is on a page of its log, the browser up to date.
On(r) ==
  /\ type[r] \in Type
  /\ Reads(r, type[r], top[r], page[r], lastNum[r], dir[r], crtReadAddrVal[type[r]], flags[r])
  /\ r = "web" => buttons = flags["web"]
  /\ \A x \in Reader : kept[x] => x = r

\* Types for everybody, and a page for each reader nothing has disturbed.
IInv == Typed /\ \A r \in Reader : kept[r] => On(r)

\* The types bound what is in the rings.
LEMMA TypedRings ==
  ASSUME Typed
  PROVE  Rings
BY DEF Typed, Rings

\* A page that fits the next values is, in the next state, the reader's page.
LEMMA ReadsNext ==
  ASSUME UNCHANGED written, NEW r,
         Reads(r, type'[r], top'[r], page'[r], lastNum'[r], dir'[r], crtReadAddrVal'[type'[r]],
               flags'[r])
  PROVE  Reads(r, type[r], top[r], page[r], lastNum[r], dir[r], crtReadAddrVal[type[r]],
               flags[r])'
BY DEF Reads, Oldest, isLogFull, Next_W, isPageOverOne

\* What a page leaves behind keeps the types.
LEMMA ShownTyped ==
  ASSUME Typed, NEW r \in Reader, NEW t \in Type, NEW s \in State, Len(s.read) <= PAGE[r],
         NEW n \in Nat, n <= PAGE[r], Shown(r, t, s, n),
         NEW d \in {"UP", "DOWN"}, dir' = [dir EXCEPT ![r] = d],
         NEW k \in Int, NEW u \in BOOLEAN, Alone(r, k, u),
         type' \in [Reader -> Type \cup {"none"}]
  PROVE  Typed'
<1>1. s.cur \in Int /\ s.flags \in Flags /\ s.read \in Seq(Int)
  BY DEF State
<1>2. written' \in [Type -> Nat] /\ \A x \in Type : written'[x] <= Records[x]
  BY DEF Typed, Shown
<1>3. crtReadAddrVal' \in [Type -> Int] /\ flags' \in Flags
  BY <1>1 DEF Typed, Shown
<1>4. lastNum' \in [Reader -> Nat] /\ page' \in [Reader -> Seq(Int)]
  <2>1. lastNum' = [lastNum EXCEPT ![r] = n] /\ page' = [page EXCEPT ![r] = s.read]
    BY DEF Shown
  <2> QED
    BY <1>1, <2>1 DEF Typed
<1>5. \A x \in Reader : lastNum'[x] <= PAGE[x] /\ Len(page'[x]) <= PAGE[x]
  <2> SUFFICES ASSUME NEW x \in Reader
               PROVE  lastNum'[x] <= PAGE[x] /\ Len(page'[x]) <= PAGE[x]
    OBVIOUS
  <2>1. lastNum' = [lastNum EXCEPT ![r] = n] /\ page' = [page EXCEPT ![r] = s.read]
    BY DEF Shown
  <2>2. lastNum \in [Reader -> Nat] /\ page \in [Reader -> Seq(Int)]
        /\ lastNum[x] <= PAGE[x] /\ Len(page[x]) <= PAGE[x]
    BY DEF Typed
  <2>3. CASE x = r
    <3>1. lastNum'[x] = n /\ page'[x] = s.read
      BY <2>1, <2>2, <2>3
    <3> QED
      BY <2>3, <3>1
  <2>4. CASE x # r
    <3>1. lastNum'[x] = lastNum[x] /\ page'[x] = page[x]
      BY <2>1, <2>2, <2>4
    <3> QED
      BY <2>2, <3>1
  <2> QED
    BY <2>3, <2>4
<1>6. dir' \in [Reader -> {"UP", "DOWN"}]
  BY DEF Typed
<1>7. buttons' \in SUBSET Ends
  <2>1. buttons' = s.flags["web"] \/ buttons' = buttons
    BY DEF Shown
  <2>2. s.flags["web"] \in SUBSET Ends /\ buttons \in SUBSET Ends
    BY <1>1 DEF Flags, Reader, Typed
  <2> QED
    BY <2>1, <2>2
<1>8. top' \in [Reader -> Int] /\ kept' \in [Reader -> BOOLEAN]
  BY DEF Alone
<1> QED
  BY <1>2, <1>3, <1>4, <1>5, <1>6, <1>7, <1>8 DEF Typed

\* A reader that is shown a page it may be on is on it.
LEMMA ShownOn ==
  ASSUME Typed, NEW r \in Reader, NEW t \in Type, NEW s \in State, NEW n, Shown(r, t, s, n),
         NEW d, dir' = [dir EXCEPT ![r] = d], NEW k, NEW u \in BOOLEAN, Alone(r, k, u),
         type'[r] = t,
         u => Reads(r, t, k, s.read, n, d, s.cur, s.flags[r])
  PROVE  \A x \in Reader : kept'[x] => On(x)'
<1> SUFFICES ASSUME NEW x \in Reader, kept'[x]
             PROVE  On(x)'
  OBVIOUS
<1>1. x = r /\ u /\ \A y \in Reader : kept'[y] => y = r
  BY DEF Alone
<1>2. top'[r] = k
  BY <1>1 DEF Alone
<1>3. page'[r] = s.read /\ lastNum'[r] = n /\ dir'[r] = d
  BY DEF Shown, Typed
<1>4. crtReadAddrVal'[type'[r]] = s.cur
  BY DEF Shown, Typed
<1>5. flags' = s.flags /\ (r = "web" => buttons' = s.flags["web"]) /\ UNCHANGED written
  BY DEF Shown
<1>6. Reads(r, type'[r], top'[r], page'[r], lastNum'[r], dir'[r], crtReadAddrVal'[type'[r]],
            flags'[r])
  BY <1>1, <1>2, <1>3, <1>4, <1>5
<1>7. Reads(r, type[r], top[r], page[r], lastNum[r], dir[r], crtReadAddrVal[type[r]], flags[r])'
  BY <1>5, <1>6, ReadsNext
<1> QED
  BY <1>1, <1>5, <1>7 DEF On

\* The first page of a log.
LEMMA FirstKeeps ==
  ASSUME Typed, NEW r \in Reader, NEW t \in Type, NEW f \in Flags, First(r, t, f),
         type' \in [Reader -> Type \cup {"none"}], type'[r] = t
  PROVE  IInv'
<1> DEFINE g == [f EXCEPT ![r] = {"HEAD"}]
           s == ReadPage(r, t, "DOWN", Start(Next_W(t), g))
           n == Len(s.read)
           ln == IF r = "lcd" /\ n = 0 THEN lastNum[r] ELSE n
           w == written[t]
<1>0. Rings
  BY TypedRings
<1>1. g \in Flags /\ Next_W(t) \in Int
  <2>1. Next_W(t) \in 0 .. TOTAL - 1 /\ TOTAL \in Nat
    BY <1>0, NextSlotType, PagerSizes
  <2>2. g \in Flags
    BY FlagsExcept DEF Ends
  <2> QED
    BY <2>1, <2>2
<1>2. s \in State /\ n <= PAGE[r]
  <2> HIDE DEF g
  <2> QED
    BY <1>0, <1>1, PageType
<1>3. n \in Nat /\ PAGE[r] \in Nat
  BY <1>2, PagerSizes DEF State
<1>4. (n > 0 => ln = n) /\ ln \in Nat /\ ln <= PAGE[r]
  <2>1. lastNum[r] \in Nat /\ lastNum[r] <= PAGE[r]
    BY DEF Typed
  <2> HIDE DEF n
  <2> QED
    BY <1>2, <1>3, <2>1
<1>5. /\ Shown(r, t, s, ln) /\ dir' = [dir EXCEPT ![r] = "DOWN"] /\ Alone(r, w, TRUE)
  BY DEF First
<1>6. Reads(r, t, w, s.read, ln, "DOWN", s.cur, s.flags[r])
  <2>1. Len(s.read) > 0 => ln = Len(s.read)
    BY <1>4
  <2> HIDE DEF ln
  <2> QED
    BY <1>0, <2>1, FirstReads
<1>7. w \in Int
  BY DEF Typed
<1> HIDE DEF s, ln, w
<1>8. Typed'
  BY <1>2, <1>4, <1>5, <1>7, ShownTyped DEF n
<1>9. \A x \in Reader : kept'[x] => On(x)'
  BY <1>2, <1>5, <1>6, ShownOn
<1> QED
  BY <1>8, <1>9 DEF IInv

\* Turning a page keeps the invariant, the way back to the first page included.
LEMMA TurnedKeeps ==
  ASSUME Typed, NEW r \in Reader, type[r] \in Type, NEW s \in State, Len(s.read) <= PAGE[r],
         NEW d \in {"UP", "DOWN"}, NEW k \in Int, NEW u \in BOOLEAN,
         Turned(r, type[r], s, d, k, u),
         u => Reads(r, type[r], k, s.read, Len(s.read), d, s.cur, s.flags[r])
  PROVE  IInv'
<1> DEFINE t == type[r]
<1>1. type' = type /\ type' \in [Reader -> Type \cup {"none"}] /\ type'[r] = t
  BY DEF Turned, Typed
<1>2. Len(s.read) \in Nat /\ s.flags \in Flags
  BY DEF State
<1>3. CASE r = "web" /\ s.read = << >>
  <2>1. First(r, t, s.flags)
    BY <1>3 DEF Turned
  <2> HIDE DEF t
  <2>2. t \in Type
    BY DEF t
  <2> QED
    BY <1>1, <1>2, <2>1, <2>2, FirstKeeps
<1>4. CASE ~ (r = "web" /\ s.read = << >>)
  <2>1. Shown(r, t, s, Len(s.read)) /\ dir' = [dir EXCEPT ![r] = d] /\ Alone(r, k, u)
    BY <1>4 DEF Turned
  <2>2. Typed'
    BY <1>1, <1>2, <2>1, ShownTyped
  <2>3. \A x \in Reader : kept'[x] => On(x)'
    BY <1>1, <2>1, ShownOn
  <2> QED
    BY <2>2, <2>3 DEF IInv
<1> QED
  BY <1>3, <1>4

\* The flag that stops a reader, as its buttons or its keys see it.
LEMMA TurnsDown ==
  ASSUME IInv, NEW r \in Reader, kept[r], Turns(r, "END"), isPageOverOne(r, type[r])
  PROVE  "END" \notin flags[r]
<1>1. On(r) /\ flags[r] \in SUBSET Ends
  BY DEF IInv, Typed, Flags
<1>2. CASE r = "web"
  BY <1>1, <1>2 DEF On, Turns
<1>3. CASE r # "web"
  <2>1. flags[r] # {"END"} /\ flags[r] # Ends
    BY <1>1, <1>3 DEF On, Reads, Turns
  <2> QED
    BY <1>1, <2>1 DEF Ends
<1> QED
  BY <1>2, <1>3

\* The cursor is moved back by a whole number of slots.
LEMMA BackType ==
  ASSUME Typed, NEW r \in Reader, NEW d
  PROVE  Back(r, d) \in Int
BY DEF Typed, Back

\* ReadWebNextPageLog, ReadLCDNextPageLog keep the invariant.
LEMMA DownKeeps ==
  ASSUME IInv, NEW r \in Reader, Down(r)
  PROVE  IInv'
<1> DEFINE t == type[r]
           g == [flags EXCEPT ![r] = {}]
           b == Back(r, "DOWN")
           c == crtReadAddrVal[t] - b
           s == ReadPage(r, t, "DOWN", Start(c, g))
           k == top[r] - PAGE[r]
           u == Clean(r, t, "DOWN")
<1>1. Typed /\ Rings /\ t \in Type /\ flags \in Flags /\ g \in Flags
  <2>1. Typed /\ Rings
    BY TypedRings DEF IInv
  <2>2. t \in Type
    BY <2>1 DEF Typed, Down
  <2>3. flags \in Flags
    BY <2>1 DEF Typed
  <2> QED
    BY <2>1, <2>2, <2>3, FlagsExcept
<1>2. b \in Int /\ crtReadAddrVal[t] \in Int /\ c \in Int
  BY <1>1, BackType DEF Typed
<1>3. Turned(r, t, s, "DOWN", k, u) /\ Turns(r, "END")
  BY DEF Down, NextPage
<1>4. s \in State /\ Len(s.read) <= PAGE[r]
  <2> HIDE DEF g, c
  <2> QED
    BY <1>1, <1>2, PageType
<1>5. k \in Int /\ u \in BOOLEAN
  <2>1. top[r] \in Int /\ PAGE[r] \in Int /\ kept[r] \in BOOLEAN
    BY <1>1, PagerSizes DEF Typed
  <2> QED
    BY <2>1 DEF Clean
<1>6. u => Reads(r, t, k, s.read, Len(s.read), "DOWN", s.cur, s.flags[r])
  <2> SUFFICES ASSUME u
               PROVE  Reads(r, t, k, s.read, Len(s.read), "DOWN", s.cur, s.flags[r])
    OBVIOUS
  <2>1. kept[r] /\ isPageOverOne(r, t) /\ c \in Ring
    BY DEF Clean, OverSeam, Ring
  <2>2. "END" \notin flags[r]
    BY <1>3, <2>1, TurnsDown
  <2>3. Reads(r, t, top[r], page[r], lastNum[r], dir[r], crtReadAddrVal[t], flags[r])
    BY <2>1 DEF IInv, On
  <2>4. dir[r] \in {"UP", "DOWN"}
    BY <1>1 DEF Typed
  <2>5. b = IF dir[r] = "DOWN" THEN 0 ELSE lastNum[r] - 1
    BY DEF Back
  <2> HIDE DEF b, t
  <2> QED
    BY <1>1, <2>1, <2>2, <2>3, <2>4, <2>5, NextReads
<1> HIDE DEF s, k, u
<1> QED
  BY <1>1, <1>3, <1>4, <1>5, <1>6, TurnedKeeps

\* ReadWebPreviousPageLog, ReadLCDPreviousPageLog keep the invariant.
LEMMA UpKeeps ==
  ASSUME IInv, NEW r \in Reader, Up(r)
  PROVE  IInv'
<1> DEFINE t == type[r]
           g == [flags EXCEPT ![r] = {}]
           b == Back(r, "UP")
           c == crtReadAddrVal[t] + b
           s == ReadPage(r, t, "UP", Start(c, g))
           k == top[r] + PAGE[r]
           u == Clean(r, t, "UP") /\ ~ PastNewest(r, t)
<1>1. Typed /\ Rings /\ t \in Type /\ flags \in Flags /\ g \in Flags
  <2>1. Typed /\ Rings
    BY TypedRings DEF IInv
  <2>2. t \in Type
    BY <2>1 DEF Typed, Up
  <2>3. flags \in Flags
    BY <2>1 DEF Typed
  <2> QED
    BY <2>1, <2>2, <2>3, FlagsExcept
<1>2. b \in Int /\ crtReadAddrVal[t] \in Int /\ c \in Int
  BY <1>1, BackType DEF Typed
<1>3. Turned(r, t, s, "UP", k, u)
  BY DEF Up, PreviousPage
<1>4. s \in State /\ Len(s.read) <= PAGE[r]
  <2> HIDE DEF g, c
  <2> QED
    BY <1>1, <1>2, PageType
<1>5. k \in Int /\ u \in BOOLEAN
  <2>1. top[r] \in Int /\ PAGE[r] \in Int /\ kept[r] \in BOOLEAN
    BY <1>1, PagerSizes DEF Typed
  <2> QED
    BY <2>1 DEF Clean
<1>6. u => Reads(r, t, k, s.read, Len(s.read), "UP", s.cur, s.flags[r])
  <2> SUFFICES ASSUME u
               PROVE  Reads(r, t, k, s.read, Len(s.read), "UP", s.cur, s.flags[r])
    OBVIOUS
  <2>1. kept[r] /\ c \in Ring
    BY DEF Clean, OverSeam, Ring
  <2>2. top[r] # written[t]
    BY DEF PastNewest
  <2>3. Reads(r, t, top[r], page[r], lastNum[r], dir[r], crtReadAddrVal[t], flags[r])
    BY <2>1 DEF IInv, On
  <2>4. dir[r] \in {"UP", "DOWN"}
    BY <1>1 DEF Typed
  <2>5. b = IF dir[r] = "UP" THEN 0 ELSE lastNum[r] - 1
    BY DEF Back
  <2> HIDE DEF b, t
  <2> QED
    <3> DEFINE n == top[r]
               pg == page[r]
               ln == lastNum[r]
               d == dir[r]
               cur == crtReadAddrVal[t]
               fl == flags[r]
    <3>1. /\ Reads(r, t, n, pg, ln, d, cur, fl) /\ n # written[t]
          /\ d \in {"UP", "DOWN"} /\ b = IF d = "UP" THEN 0 ELSE ln - 1
          /\ cur + b \in Ring
      BY <2>1, <2>2, <2>3, <2>4, <2>5
    <3>2. s = ReadPage(r, t, "UP", Start(cur + b, [flags EXCEPT ![r] = {}])) /\ k = n + PAGE[r]
      OBVIOUS
    <3> HIDE DEF n, pg, ln, d, cur, fl, s, k, g, c, u
    <3> DEFINE q == ReadPage(r, t, "UP", Start(cur + b, [flags EXCEPT ![r] = {}]))
    <3>3. Reads(r, t, n + PAGE[r], q.read, Len(q.read), "UP", q.cur, q.flags[r])
      BY <1>1, <3>1, PreviousReads, Zenon
    <3> HIDE DEF q
    <3>4. s = q
      BY <3>2 DEF q
    <3> QED
      BY <3>2, <3>3, <3>4
<1> HIDE DEF s, k, u
<1> QED
  BY <1>1, <1>3, <1>4, <1>5, <1>6, TurnedKeeps

\* A reader that opens a log keeps the invariant.
LEMMA OpenKeeps ==
  ASSUME IInv, NEW r \in Reader, NEW t \in Type, Open(r, t)
  PROVE  IInv'
<1>1. Typed /\ flags \in Flags
  BY DEF IInv, Typed
<1>2. type' \in [Reader -> Type \cup {"none"}] /\ type'[r] = t
  BY <1>1 DEF Open, Typed
<1> QED
  BY <1>1, <1>2, FirstKeeps DEF Open

\* The invariant holds as the program starts.
LEMMA InitKeeps == Init => IInv
<1> SUFFICES ASSUME Init
             PROVE  IInv
  OBVIOUS
<1>1. << >> \in Seq(Int) /\ Len(<< >>) = 0
  BY EmptySeq
<1>2. \A t \in Type : Records[t] \in Nat
  BY PagerAssumption
<1>3. \A r \in Reader : PAGE[r] \in Nat
  BY PagerSizes
<1>4. Typed
  <2>1. lastNum \in [Reader -> Nat] /\ page \in [Reader -> Seq(Int)]
        /\ \A r \in Reader : lastNum[r] <= PAGE[r] /\ Len(page[r]) <= PAGE[r]
    BY <1>1, <1>3 DEF Init
  <2>2. written \in [Type -> Nat] /\ \A t \in Type : written[t] <= Records[t]
    BY <1>2 DEF Init
  <2> QED
    BY <2>1, <2>2 DEF Init, Typed, Flags, Ends
<1> QED
  BY <1>4 DEF IInv, Init

\* A write or a clear ends the peace of every reader.
LEMMA EmptiedKeeps ==
  ASSUME Typed, NEW R, Emptied(R), written' \in [Type -> Nat],
         \A t \in Type : written'[t] <= Records[t],
         type' \in [Reader -> Type \cup {"none"}]
  PROVE  IInv'
<1>1. << >> \in Seq(Int) /\ Len(<< >>) = 0 /\ \A r \in Reader : PAGE[r] \in Nat
  BY EmptySeq, PagerSizes
<1>2. page' \in [Reader -> Seq(Int)] /\ \A r \in Reader : Len(page'[r]) <= PAGE[r]
  <2>1. page' = [r \in Reader |-> IF r \in R THEN << >> ELSE page[r]]
    BY DEF Emptied
  <2>2. page \in [Reader -> Seq(Int)] /\ \A r \in Reader : Len(page[r]) <= PAGE[r]
    BY DEF Typed
  <2>3. \A r \in Reader : page'[r] = << >> \/ page'[r] = page[r]
    BY <2>1
  <2> QED
    BY <1>1, <2>1, <2>2, <2>3
<1>3. Typed'
  BY <1>2 DEF Typed, Emptied
<1>4. \A r \in Reader : ~ kept'[r]
  BY DEF Emptied
<1> QED
  BY <1>3, <1>4 DEF IInv

\* A page that is loaded again keeps the invariant.
LEMMA ReloadKeeps ==
  ASSUME IInv, Reload
  PROVE  IInv'
<1>1. Typed /\ flags["web"] \in SUBSET Ends
  BY DEF IInv, Typed, Flags, Reader
<1>2. Typed'
  BY <1>1 DEF Typed, Reload
<1>3. ASSUME NEW r \in Reader, kept'[r]
      PROVE  On(r)'
  <2>1. kept[r] /\ On(r) /\ kept' = kept
    BY <1>3 DEF IInv, Reload
  <2>2. Reads(r, type'[r], top'[r], page'[r], lastNum'[r], dir'[r], crtReadAddrVal'[type'[r]],
              flags'[r])
    BY <2>1 DEF On, Reload
  <2>3. Reads(r, type[r], top[r], page[r], lastNum[r], dir[r], crtReadAddrVal[type[r]], flags[r])'
    BY <2>2, ReadsNext DEF Reload
  <2> QED
    BY <2>1, <2>3 DEF On, Reload
<1> QED
  BY <1>2, <1>3 DEF IInv

\* So does a step that changes nothing.
LEMMA StutterKeeps ==
  ASSUME IInv, UNCHANGED vars
  PROVE  IInv'
<1>1. Typed'
  BY DEF IInv, Typed, vars
<1>3. ASSUME NEW r \in Reader, kept'[r]
      PROVE  On(r)'
  <2>1. kept[r] /\ On(r) /\ kept' = kept
    BY <1>3 DEF IInv, vars
  <2>2. Reads(r, type'[r], top'[r], page'[r], lastNum'[r], dir'[r], crtReadAddrVal'[type'[r]],
              flags'[r])
    BY <2>1 DEF On, vars
  <2>3. Reads(r, type[r], top[r], page[r], lastNum[r], dir[r], crtReadAddrVal[type[r]], flags[r])'
    BY <2>2, ReadsNext DEF vars
  <2> QED
    BY <2>1, <2>3 DEF On, vars
<1> QED
  BY <1>1, <1>3 DEF IInv

\* Every step keeps the invariant.
LEMMA StepKeeps ==
  ASSUME IInv, [Next]_vars
  PROVE  IInv'
<1>0. Typed
  BY DEF IInv
<1>1. ASSUME NEW r \in Reader, NEW t \in Type, Open(r, t)
      PROVE  IInv'
  BY <1>1, OpenKeeps
<1>2. CASE Reload
  BY <1>2, ReloadKeeps
<1>3. ASSUME NEW r \in Reader, Down(r)
      PROVE  IInv'
  BY <1>3, DownKeeps
<1>4. ASSUME NEW r \in Reader, Up(r)
      PROVE  IInv'
  BY <1>4, UpKeeps
<1>5. ASSUME NEW t \in Type, WriteLog(t)
      PROVE  IInv'
  <2>1. written' \in [Type -> Nat] /\ \A x \in Type : written'[x] <= Records[x]
    <3>1. Records[t] \in Nat
      BY PagerAssumption
    <3> QED
      BY <1>0, <1>5, <3>1 DEF Typed, WriteLog
  <2>2. type' \in [Reader -> Type \cup {"none"}]
    BY <1>0, <1>5 DEF Typed, WriteLog
  <2> QED
    BY <1>0, <1>5, <2>1, <2>2, EmptiedKeeps DEF WriteLog
<1>6. ASSUME NEW t \in Type, NEW r \in Reader, Clear(t, r)
      PROVE  IInv'
  <2>1. written' \in [Type -> Nat] /\ \A x \in Type : written'[x] <= Records[x]
    <3>1. Records[t] \in Nat
      BY PagerAssumption
    <3> QED
      BY <1>0, <1>6, <3>1 DEF Typed, Clear
  <2>2. type' \in [Reader -> Type \cup {"none"}]
    BY <1>0, <1>6 DEF Typed, Clear
  <2> QED
    BY <1>0, <1>6, <2>1, <2>2, EmptiedKeeps DEF Clear
<1>7. CASE UNCHANGED vars
  BY <1>7, StutterKeeps
<1> QED
  BY <1>1, <1>2, <1>3, <1>4, <1>5, <1>6, <1>7 DEF Next

\* The invariant holds throughout.
LEMMA AlwaysIInv == Spec => []IInv
<1>1. Init => IInv
  BY InitKeeps
<1>2. IInv /\ [Next]_vars => IInv'
  BY StepKeeps
<1> QED
  BY <1>1, <1>2, PTL DEF Spec

\* TypeOK: whatever is turned, written or cleared, a page holds at most its
\* records and lastWebPageLogNum, lastLCDPageLogNum count no more.
THEOREM PagerTypes == Spec => []TypeOK
<1>1. IInv => TypeOK
  <2> SUFFICES ASSUME IInv
               PROVE  TypeOK
    OBVIOUS
  <2>1. Typed /\ \A r \in Reader : PAGE[r] \in Nat
    BY PagerSizes DEF IInv
  <2>2. \A t \in Type : written[t] \in 0 .. Records[t]
    <3> SUFFICES ASSUME NEW t \in Type
                 PROVE  written[t] \in 0 .. Records[t]
      OBVIOUS
    <3>1. Records[t] \in Nat
      BY PagerAssumption
    <3>2. written[t] \in Nat /\ written[t] <= Records[t]
      BY <2>1 DEF Typed
    <3> QED
      BY <3>1, <3>2
  <2>3. \A r \in Reader : lastNum[r] \in 0 .. PAGE[r] /\ Len(page[r]) <= PAGE[r]
    BY <2>1 DEF Typed
  <2> QED
    BY <2>1, <2>2, <2>3 DEF TypeOK, Typed, Flags, Ends
<1> QED
  BY <1>1, AlwaysIInv, PTL

\* The page that is expected, as the records below its newest one.
LEMMA ExpectedBelow ==
  ASSUME NEW r \in Reader, top[r] \in Int, Oldest(type[r]) \in Int
  PROVE  Expected(r) = Below(top[r] + 1, Upto(PAGE[r], top[r] - Oldest(type[r]) + 1))
<1> DEFINE n == top[r] - Oldest(type[r]) + 1
           j == IF n < PAGE[r] THEN n ELSE PAGE[r]
           h == Upto(PAGE[r], n)
<1>1. Expected(r) = [i \in 1 .. j |-> top[r] - i + 1]
  BY DEF Expected
<1>2. Below(top[r] + 1, h) = [i \in 1 .. h |-> top[r] + 1 - i]
  BY DEF Below
<1>3. j = h
  <2>1. n \in Int /\ PAGE[r] \in Int
    BY PagerSizes
  <2> HIDE DEF n
  <2> QED
    BY <2>1 DEF Upto
<1>4. ASSUME NEW i \in 1 .. h
      PROVE  top[r] - i + 1 = top[r] + 1 - i
  BY <1>4
<1> HIDE DEF j, h
<1>5. Expected(r) = Below(top[r] + 1, h)
  BY <1>1, <1>2, <1>3, <1>4
<1> QED
  BY <1>5 DEF h

\* PagesInOrder: for a reader alone in a log longer than a page, ReadNextLog and
\* ReadPreviousLog give page after page, none of its records twice or skipped.
THEOREM PagesKeepOrder == Spec => []PagesInOrder
<1>1. IInv => PagesInOrder
  <2> SUFFICES ASSUME IInv, NEW r \in Reader, kept[r]
               PROVE  page[r] = Expected(r)
    BY DEF PagesInOrder
  <2>1. top[r] \in Int /\ On(r)
    BY DEF IInv, Typed
  <2>2. page[r] = Below(top[r] + 1, Upto(PAGE[r], top[r] - Oldest(type[r]) + 1))
    BY <2>1 DEF On, Reads
  <2> QED
    <3>1. Oldest(type[r]) \in Int
      BY <2>1, TypedRings, RingBounds DEF IInv, On
    <3> QED
      BY <2>1, <2>2, <3>1, ExpectedBelow
<1> QED
  BY <1>1, AlwaysIInv, PTL

\* FlagsTellEnds: for a reader alone, the flags of updateLogPageFlag tell the two
\* ends of the log.
THEOREM EndsAreTold == Spec => []FlagsTellEnds
<1>1. IInv => FlagsTellEnds
  BY DEF IInv, On, Reads, FlagsTellEnds
<1> QED
  BY <1>1, AlwaysIInv, PTL

-----------------------------------------------------------------------------
(* The cursor                                                              *)

\* In a log longer than a page that was not filled yet, the cursor may be moved
\* back over the page a reader is on.
LEMMA BackInside ==
  ASSUME Rings, NEW r \in Reader, NEW t \in Type, ~ isLogFull(t), isPageOverOne(r, t),
         NEW n, NEW pg, NEW ln, NEW d \in {"UP", "DOWN"}, NEW cur, NEW fl,
         Reads(r, t, n, pg, ln, d, cur, fl)
  PROVE  /\ cur - (IF d = "DOWN" THEN 0 ELSE ln - 1) \in Ring
         /\ cur + (IF d = "UP" THEN 0 ELSE ln - 1) \in Ring
<1> DEFINE w == written[t]
           P == PAGE[r]
           h == Upto(P, n - Oldest(t) + 1)
<1>1. /\ w \in Nat /\ w < TOTAL /\ Oldest(t) = 1 /\ Next_W(t) = w
      /\ P \in Nat /\ P >= 1 /\ P < TOTAL /\ TOTAL \in Nat
  <2>1. /\ w \in Nat /\ Oldest(t) = 1 /\ Next_W(t) = w /\ (isLogFull(t) <=> w >= TOTAL)
    BY RingBounds
  <2> HIDE DEF w
  <2> QED
    BY <2>1, PagerSizes
<1>2. P < w
  BY <1>1 DEF isPageOverOne
<1>3. /\ n \in Int /\ n <= w /\ (w > 0 => n >= 1) /\ (h > 0 => ln = h)
      /\ d = "DOWN" => cur = SlotOf(n - h + 1)
      /\ d = "UP" => h = P /\ cur = SlotOf(n)
  BY <1>1 DEF Reads
<1>4. n >= 1 /\ n \in 1 .. TOTAL
  <2> HIDE DEF w, P, h
  <2> QED
    BY <1>1, <1>2, <1>3
<1>5. h \in 1 .. n /\ h <= P /\ n - h + 1 \in 1 .. TOTAL
  <2>1. h = Upto(P, n)
    BY <1>1, <1>3
  <2>2. h = IF P < n THEN P ELSE n
    <3> HIDE DEF P, h
    <3> QED
      BY <2>1 DEF Upto
  <2> HIDE DEF P, h
  <2> QED
    BY <1>1, <1>4, <2>2
<1>6. ln = h
  <2> HIDE DEF h
  <2> QED
    BY <1>3, <1>5
<1>7. SlotOf(n - h + 1) = (n - h + 1) - 1 /\ SlotOf(n) = n - 1
  <2> HIDE DEF h
  <2> QED
    BY <1>4, <1>5, SlotOfSmall
<1> HIDE DEF h, P, w
<1>8. CASE d = "DOWN"
  <2>1. cur = n - h /\ d # "UP"
    BY <1>3, <1>4, <1>5, <1>7, <1>8
  <2> QED
    BY <1>1, <1>3, <1>4, <1>5, <1>6, <1>8, <2>1 DEF Ring
<1>9. CASE d = "UP"
  <2>1. cur = n - 1 /\ d # "DOWN"
    BY <1>3, <1>7, <1>9
  <2> QED
    BY <1>1, <1>3, <1>4, <1>5, <1>6, <1>9, <2>1 DEF Ring
<1> QED
  BY <1>8, <1>9

\* A page that is read from inside the ring leaves the cursor there.
LEMMA ShownInside ==
  ASSUME Typed, NEW r \in Reader, NEW t \in Type, NEW s, NEW n, Shown(r, t, s, n),
         s.cur \in Ring, NEW x \in Type, Inside(x)
  PROVE  Inside(x)'
<1>1. crtReadAddrVal' = [crtReadAddrVal EXCEPT ![t] = s.cur]
  BY DEF Shown
<1>2. crtReadAddrVal \in [Type -> Int]
  BY DEF Typed
<1>3. crtReadAddrVal'[x] \in 0 .. TOTAL - 1
  BY <1>1, <1>2 DEF Inside, Ring
<1> QED
  BY <1>3 DEF Inside

\* The first page is read from inside the ring.
LEMMA FirstInside ==
  ASSUME Typed, NEW r \in Reader, NEW t \in Type, NEW f \in Flags, First(r, t, f),
         NEW x \in Type, Inside(x)
  PROVE  Inside(x)'
<1> DEFINE g == [f EXCEPT ![r] = {"HEAD"}]
           s == ReadPage(r, t, "DOWN", Start(Next_W(t), g))
<1>1. Rings /\ g \in Flags
  BY TypedRings, FlagsExcept DEF Ends
<1>2. Next_W(t) \in Ring /\ Next_W(t) \in Int
  BY <1>1, NextSlotType, PagerSizes DEF Ring
<1>3. s.cur \in Ring
  <2> HIDE DEF g
  <2> QED
    BY <1>1, <1>2, PageType
<1>4. \E n : Shown(r, t, s, n)
  BY DEF First
<1> HIDE DEF s
<1> QED
  BY <1>3, <1>4, ShownInside

\* A page turned to is read from where the cursor was moved to.
LEMMA TurnedInside ==
  ASSUME Typed, NEW r \in Reader, type[r] \in Type, NEW way, NEW c \in Int, NEW g \in Flags,
         NEW d, NEW k, NEW u,
         Turned(r, type[r], ReadPage(r, type[r], way, Start(c, g)), d, k, u),
         NEW x \in Type, Inside(x), x = type[r] => c \in Ring
  PROVE  Inside(x)'
<1> DEFINE t == type[r]
           s == ReadPage(r, t, way, Start(c, g))
<1>1. Rings /\ s \in State /\ (c \in Ring => s.cur \in Ring)
  BY TypedRings, PageType
<1>2. s.flags \in Flags
  BY <1>1 DEF State
<1>3. CASE First(r, t, s.flags)
  <2>1. t \in Type
    OBVIOUS
  <2> HIDE DEF s, t
  <2> QED
    BY <1>2, <1>3, <2>1, FirstInside
<1>4. CASE Shown(r, t, s, Len(s.read))
  <2>1. CASE x = t
    BY <1>1, <1>4, <2>1, ShownInside
  <2>2. CASE x # t
    <3>1. crtReadAddrVal' = [crtReadAddrVal EXCEPT ![t] = s.cur]
      BY <1>4 DEF Shown
    <3>2. crtReadAddrVal'[x] = crtReadAddrVal[x]
      BY <2>2, <3>1 DEF Typed
    <3> QED
      BY <3>2 DEF Inside
  <2> QED
    BY <2>1, <2>2
<1>5. First(r, t, s.flags) \/ Shown(r, t, s, Len(s.read))
  BY DEF Turned
<1> QED
  BY <1>3, <1>4, <1>5

\* Where a cursor may leave its ring.
Seam(r, t) == isLogFull(t) \/ ~ isPageOverOne(r, t) \/ ~ kept[r]

\* The next page strays only where StraysOnlyAtSeam allows it.
LEMMA DownInside ==
  ASSUME IInv, NEW r \in Reader, Down(r), NEW x \in Type, Inside(x), ~ Inside(x)'
  PROVE  type[r] = x /\ Seam(r, x)
<1> DEFINE t == type[r]
           g == [flags EXCEPT ![r] = {}]
           b == Back(r, "DOWN")
           c == crtReadAddrVal[t] - b
<1>1. Typed /\ Rings /\ t \in Type /\ g \in Flags
  <2>1. Typed /\ Rings
    BY TypedRings DEF IInv
  <2>2. t \in Type /\ flags \in Flags
    BY <2>1 DEF Typed, Down
  <2> QED
    BY <2>1, <2>2, FlagsExcept
<1>2. c \in Int
  BY <1>1, BackType DEF Typed
<1>3. \E k, u : Turned(r, t, ReadPage(r, t, "DOWN", Start(c, g)), "DOWN", k, u)
  BY DEF Down, NextPage
<1>4. x = t /\ c \notin Ring
  <2> HIDE DEF c, g
  <2> QED
    BY <1>1, <1>2, <1>3, TurnedInside
<1>5. ASSUME ~ Seam(r, t)
      PROVE  FALSE
  <2>1. ~ isLogFull(t) /\ isPageOverOne(r, t) /\ kept[r]
    BY <1>5 DEF Seam
  <2>2. Reads(r, t, top[r], page[r], lastNum[r], dir[r], crtReadAddrVal[t], flags[r])
        /\ dir[r] \in {"UP", "DOWN"}
    BY <1>1, <2>1 DEF IInv, On, Typed
  <2>3. crtReadAddrVal[t] - (IF dir[r] = "DOWN" THEN 0 ELSE lastNum[r] - 1) \in Ring
    BY <1>1, <2>1, <2>2, BackInside
  <2> QED
    BY <1>4, <2>3 DEF Back
<1> QED
  BY <1>4, <1>5

\* The previous page strays only where StraysOnlyAtSeam allows it.
LEMMA UpInside ==
  ASSUME IInv, NEW r \in Reader, Up(r), NEW x \in Type, Inside(x), ~ Inside(x)'
  PROVE  type[r] = x /\ Seam(r, x)
<1> DEFINE t == type[r]
           g == [flags EXCEPT ![r] = {}]
           b == Back(r, "UP")
           c == crtReadAddrVal[t] + b
<1>1. Typed /\ Rings /\ t \in Type /\ g \in Flags
  <2>1. Typed /\ Rings
    BY TypedRings DEF IInv
  <2>2. t \in Type /\ flags \in Flags
    BY <2>1 DEF Typed, Up
  <2> QED
    BY <2>1, <2>2, FlagsExcept
<1>2. c \in Int
  BY <1>1, BackType DEF Typed
<1>3. \E k, u : Turned(r, t, ReadPage(r, t, "UP", Start(c, g)), "UP", k, u)
  BY DEF Up, PreviousPage
<1>4. x = t /\ c \notin Ring
  <2> HIDE DEF c, g
  <2> QED
    BY <1>1, <1>2, <1>3, TurnedInside
<1>5. ASSUME ~ Seam(r, t)
      PROVE  FALSE
  <2>1. ~ isLogFull(t) /\ isPageOverOne(r, t) /\ kept[r]
    BY <1>5 DEF Seam
  <2>2. Reads(r, t, top[r], page[r], lastNum[r], dir[r], crtReadAddrVal[t], flags[r])
        /\ dir[r] \in {"UP", "DOWN"}
    BY <1>1, <2>1 DEF IInv, On, Typed
  <2>3. crtReadAddrVal[t] + (IF dir[r] = "UP" THEN 0 ELSE lastNum[r] - 1) \in Ring
    BY <1>1, <2>1, <2>2, BackInside
  <2> QED
    BY <1>4, <2>3 DEF Back
<1> QED
  BY <1>4, <1>5

\* No other step moves a cursor out of its ring.
LEMMA CursorStep ==
  ASSUME IInv, [Next]_vars, NEW t \in Type, Inside(t), ~ Inside(t)'
  PROVE  \E r \in Reader :
           /\ type[r] = t /\ (Down(r) \/ Up(r))
           /\ isLogFull(t) \/ ~ isPageOverOne(r, t) \/ ~ kept[r]
<1>0. Typed /\ flags \in Flags
  BY DEF IInv, Typed
<1>1. ASSUME NEW r \in Reader, NEW x \in Type, Open(r, x)
      PROVE  FALSE
  BY <1>0, <1>1, FirstInside DEF Open
<1>2. crtReadAddrVal' # crtReadAddrVal
  BY DEF Inside
<1>3. ASSUME NEW r \in Reader, Down(r)
      PROVE  type[r] = t /\ Seam(r, t)
  BY <1>3, DownInside
<1>4. ASSUME NEW r \in Reader, Up(r)
      PROVE  type[r] = t /\ Seam(r, t)
  BY <1>4, UpInside
<1>5. \E r \in Reader : Down(r) \/ Up(r)
  BY <1>1, <1>2 DEF Next, Reload, WriteLog, Clear, Emptied, vars
<1> QED
  BY <1>3, <1>4, <1>5 DEF Seam

\* StraysOnlyAtSeam: crtReadAddrVal leaves its ring only over the seam of a full
\* one, from the only page of a log, or after somebody disturbed the reader.
THEOREM CursorStrays == Spec => StraysOnlyAtSeam
<1> DEFINE A == \A t \in Type : Inside(t) /\ ~ Inside(t)' =>
                  \E r \in Reader :
                    /\ type[r] = t /\ (Down(r) \/ Up(r))
                    /\ isLogFull(t) \/ ~ isPageOverOne(r, t) \/ ~ kept[r]
<1>1. IInv /\ [Next]_vars => [A]_vars
  BY CursorStep
<1> HIDE DEF A
<1>2. []IInv /\ [][Next]_vars => [][A]_vars
  BY <1>1, PTL
<1>3. Spec => [][A]_vars
  BY <1>2, AlwaysIInv, PTL DEF Spec
<1> QED
  BY <1>3 DEF StraysOnlyAtSeam, A
=============================================================================
