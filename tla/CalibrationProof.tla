-------------------------- MODULE CalibrationProof --------------------------
(***************************************************************************)
(* What a calibration stores, for any number of seconds and any intervals. *)
(* A round of watch_task begins and ends between two ticks of TIM4, so no  *)
(* request is left over when the end is marked, and by then the last one   *)
(* has been sampled.  A start does not reset the count, which stands at 1  *)
(* between two calibrations: with TIME > 1 there is one more request.      *)
(***************************************************************************)
EXTENDS Calibration, TLAPS

Marked == calibrating_flag # NONE /\ calibrating_flag.done

\* A request stands from a tick of TIM4 to the end of watch_task's round, and
\* only in a round does watch_task look at the flag.
Rounds ==
  /\ served => ~ request
  /\ pc # "idle" => request
  /\ pc \in {"sample", "zero", "base", "done"} =>
       calibrating_flag # NONE /\ field = calibrating_flag.zone
  /\ pc \in {"sample", "clear"} => ~ Marked
  /\ pc \in {"zero", "base", "done"} => Marked

\* With no calibration, the sum is empty.
Cleared == calibrating_flag = NONE => temp = {} /\ ~ crossed

\* The count once the end is marked, and after the calibration.
Counted ==
  /\ calibrating_flag = NONE \/ Marked => adcCalibrateCnt <= 1
  /\ Marked /\ ~ request => adcCalibrateCnt = 0

\* A calibration begun over none has summed up its own zone only, and has a
\* sample as soon as its first request is served.
Sampled ==
  calibrating_flag # NONE /\ ~ crossed =>
    /\ temp \subseteq {calibrating_flag.zone}
    /\ Marked => temp # {}
    /\ adcCalibrateCnt > 1 /\ (~ request \/ pc = "clear") => temp # {}

IInv == TypeOK /\ Rounds /\ Cleared /\ Counted /\ Sampled

-----------------------------------------------------------------------------
LEMMA JobIsNotNone ==
  ASSUME NEW j \in Job
  PROVE  j # NONE /\ j.kind \in {"zero", "base"} /\ j.zone \in Zone /\ j.done \in BOOLEAN
BY DEF Job, NONE

\* A new calibration is one, and its end is not marked.
LEMMA Started ==
  ASSUME NEW kind \in {"zero", "base"}, NEW z \in Zone, Start(kind, z)
  PROVE  calibrating_flag' \in Job /\ calibrating_flag' # NONE /\ ~ Marked'
         /\ calibrating_flag'.zone = z
BY DEF Start, Job, NONE, Marked

LEMMA LongestBounds ==
  /\ LongestCnt \in Nat
  /\ MINUTE <= LongestCnt
  /\ \A t \in Minutes : t * MINUTE \in Nat /\ t * MINUTE <= LongestCnt
  /\ \A t \in Minutes \ {0} : MINUTE <= t * MINUTE
<1> DEFINE T == CHOOSE t \in Minutes : \A u \in Minutes : u <= t
<1>1. PICK m \in Minutes \ {0} : \A u \in Minutes : u <= m
  BY CalibrationAssumption
<1>2. T \in Minutes /\ \A u \in Minutes : u <= T
  BY <1>1
<1> HIDE DEF T
<1>3. T \in Nat /\ 1 <= T /\ MINUTE \in Nat /\ Minutes \subseteq Nat
  <2>1. Minutes \subseteq Nat /\ MINUTE \in Nat
    BY CalibrationAssumption
  <2>2. m \in Nat /\ m # 0 /\ m <= T /\ T \in Nat
    BY <1>1, <1>2, <2>1
  <2> QED
    BY <2>1, <2>2
<1>4. \A t, u \in Nat : t <= u => t * MINUTE \in Nat /\ t * MINUTE <= u * MINUTE
  BY <1>3
<1>5. \A t \in Nat \ {0} : MINUTE <= t * MINUTE
  BY <1>3, <1>4
<1>6. LongestCnt = T * MINUTE
  BY DEF LongestCnt, T
<1> QED
  BY <1>2, <1>3, <1>4, <1>5, <1>6

LEMMA FirstCntTyped == FirstCnt \in [Zone -> 0..LongestCnt]
<1>1. LongestCnt \in Nat /\ MINUTE \in Nat /\ MINUTE <= LongestCnt
  BY LongestBounds, CalibrationAssumption
<1> QED
  BY <1>1 DEF FirstCnt

\* TIM3 keeps the counters of the intervals in their range.
LEMMA CountersKept ==
  ASSUME TypeOK, TIM3_IRQHandler
  PROVE  baseAutoCalibrateCnt' \in [Zone -> 0..LongestCnt]
<1> DEFINE t == base_auto_calibrate_time
<1>1. CASE t > 0
  <2> SUFFICES ASSUME NEW z \in Zone
               PROVE  NextAutoCnt(z) \in 0..LongestCnt
    BY <1>1 DEF TIM3_IRQHandler
  <2>1. baseAutoCalibrateCnt[z] \in 0..LongestCnt /\ LongestCnt \in Nat
    BY LongestBounds DEF TypeOK
  <2>2. t \in Minutes \ {0} /\ t \in Nat
    BY <1>1, CalibrationAssumption DEF TypeOK
  <2>3. t * MINUTE \in Nat /\ t * MINUTE <= LongestCnt /\ MINUTE <= t * MINUTE
    BY <2>2, LongestBounds
  <2>4. TIME \in Nat /\ MINUTE \in Nat /\ TIME > 1 /\ TIME + 2 < MINUTE
    BY CalibrationAssumption
  <2>5. CASE ~ Due(z)
    BY <2>1, <2>3, <2>5 DEF NextAutoCnt, Due
  <2>6. CASE Due(z) /\ Busy(z)
    BY <2>1, <2>3, <2>4, <2>6 DEF NextAutoCnt, Due, StandBack
  <2>7. CASE Due(z) /\ ~ Busy(z) /\ z \in quiet
    BY <2>1, <2>7 DEF NextAutoCnt
  <2>8. CASE Due(z) /\ ~ Busy(z) /\ z \notin quiet
    <3>1. (t - 1) * MINUTE = t * MINUTE - MINUTE
      BY <2>2, <2>4
    <3> QED
      BY <2>1, <2>3, <2>4, <2>8, <3>1 DEF NextAutoCnt
  <2> QED
    BY <2>5, <2>6, <2>7, <2>8
<1>2. CASE ~ t > 0
  BY <1>2, LongestBounds, CalibrationAssumption DEF TIM3_IRQHandler, TypeOK
<1> QED
  BY <1>1, <1>2

-----------------------------------------------------------------------------
LEMMA InitOK == Init => IInv
<1> SUFFICES ASSUME Init
             PROVE  IInv
  OBVIOUS
<1>1. TypeOK
  <2>1. {request, crossed, served} \subseteq BOOLEAN
    BY DEF Init
  <2>2. adcCalibrateCnt \in 0..TIME
    BY CalibrationAssumption DEF Init
  <2> QED
    BY FirstCntTyped, <2>1, <2>2 DEF Init, TypeOK
<1>2. Rounds /\ Cleared /\ Counted /\ Sampled
  BY DEF Init, Rounds, Cleared, Counted, Sampled, Marked
<1> QED
  BY <1>1, <1>2 DEF IInv

\* OperatorStarts and the start of TIM3: whatever was under way, a calibration
\* begun over none finds nothing summed up and at most one request counted.
LEMMA StartKeeps ==
  ASSUME IInv, NEW kind \in {"zero", "base"}, NEW z \in Zone, Start(kind, z),
         pc = "idle" \/ calibrating_flag = NONE,
         ~ crossed' => calibrating_flag = NONE,
         UNCHANGED <<adcCalibrateCnt, request, temp, pc, field, served>>
  PROVE  Rounds' /\ Cleared' /\ Counted' /\ Sampled'
<1>1. calibrating_flag' # NONE /\ ~ Marked'
  BY Started
<1>2. Rounds'
  <2>1. pc' = "idle" \/ pc' = "clear"
    BY DEF IInv, Rounds, TypeOK, Marked
  <2> QED
    BY <1>1, <2>1 DEF IInv, Rounds
<1>3. Cleared' /\ Counted'
  BY <1>1 DEF Cleared, Counted
<1>4. adcCalibrateCnt \in Int
  BY CalibrationAssumption DEF IInv, TypeOK
<1>5. Sampled'
  BY <1>1, <1>4 DEF IInv, Cleared, Counted, Sampled
<1> QED
  BY <1>2, <1>3, <1>5

LEMMA Tim3Keeps ==
  ASSUME IInv, TIM3_IRQHandler
  PROVE  IInv'
<1>1. PICK b \in BOOLEAN : b = (base_auto_calibrate_time > 0 /\ \E z \in Zone : Starts(z))
  OBVIOUS
<1>2. CASE b
  <2>1. PICK z \in Zone : Starts(z) /\ Start("base", z) /\ crossed' = FALSE
    BY <1>1, <1>2 DEF TIM3_IRQHandler
  <2>2. calibrating_flag = NONE
    BY <2>1 DEF Starts
  <2>3. UNCHANGED <<adcCalibrateCnt, request, temp, pc, field, served>>
    BY DEF TIM3_IRQHandler
  <2>4. Rounds' /\ Cleared' /\ Counted' /\ Sampled'
    BY <2>1, <2>2, <2>3, StartKeeps
  <2>5. TypeOK'
    BY <2>1, Started, CountersKept DEF IInv, TypeOK, TIM3_IRQHandler, world
  <2> QED
    BY <2>4, <2>5 DEF IInv
<1>3. CASE ~ b
  <2>1. UNCHANGED <<calibrating_flag, crossed, adcCalibrateCnt, request, temp, pc, field, served>>
    BY <1>1, <1>3 DEF TIM3_IRQHandler, job
  <2>2. TypeOK'
    BY <2>1, CountersKept DEF IInv, TypeOK, TIM3_IRQHandler, world
  <2>3. Rounds' /\ Cleared' /\ Counted' /\ Sampled'
    BY <2>1 DEF IInv, Rounds, Cleared, Counted, Sampled, Marked
  <2> QED
    BY <2>2, <2>3 DEF IInv
<1> QED
  BY <1>2, <1>3

\* The end is marked when TIM4 finds no request left over.
LEMMA Tim4Keeps ==
  ASSUME IInv, TIM4_IRQHandler
  PROVE  IInv'
<1>1. pc = "idle" /\ ~ request /\ served
  BY DEF IInv, Rounds, TIM4_IRQHandler
<1>2. UNCHANGED <<crossed, temp, baseAutoCalibrateCnt, base_auto_calibrate_time, quiet, pc, field>>
      /\ served' = FALSE /\ second' = "TIM3"
  BY DEF TIM4_IRQHandler, world
<1>3. CASE Counting /\ adcCalibrateCnt >= TIME
  <2>1. /\ calibrating_flag' = [calibrating_flag EXCEPT !.done = TRUE]
        /\ adcCalibrateCnt' = 0 /\ request' = request
    BY <1>3, CalibrationAssumption DEF TIM4_IRQHandler, IInv, TypeOK
  <2>2. calibrating_flag \in Job
    BY <1>3 DEF Counting, IInv, TypeOK
  <2>3. /\ calibrating_flag' \in Job /\ calibrating_flag' # NONE
        /\ calibrating_flag'.zone = calibrating_flag.zone /\ Marked'
    BY <2>1, <2>2 DEF Job, NONE, Marked
  <2>4. adcCalibrateCnt > 1
    BY <1>3, CalibrationAssumption DEF IInv, TypeOK
  <2>5. TypeOK'
    <3>1. {request', crossed', served'} \subseteq BOOLEAN
      BY <1>2, <2>1 DEF IInv, TypeOK
    <3>2. adcCalibrateCnt' \in 0..TIME
      BY <2>1, CalibrationAssumption
    <3> QED
      BY <1>2, <2>3, <3>1, <3>2 DEF IInv, TypeOK
  <2>6. Rounds' /\ Cleared' /\ Counted'
    BY <1>1, <1>2, <2>1, <2>3 DEF Rounds, Cleared, Counted
  <2>7. Sampled'
    BY <1>1, <1>2, <1>3, <2>1, <2>3, <2>4 DEF IInv, Sampled, Counting
  <2> QED
    BY <2>5, <2>6, <2>7 DEF IInv
<1>4. CASE Counting /\ adcCalibrateCnt < TIME
  <2>1. /\ adcCalibrateCnt' = adcCalibrateCnt + 1 /\ request' = TRUE
        /\ calibrating_flag' = calibrating_flag
    BY <1>4, CalibrationAssumption DEF TIM4_IRQHandler, IInv, TypeOK
  <2>2. TypeOK'
    <3>1. {request', crossed', served'} \subseteq BOOLEAN
      BY <1>2, <2>1 DEF IInv, TypeOK
    <3>2. adcCalibrateCnt' \in 0..TIME
      BY <1>4, <2>1, CalibrationAssumption DEF IInv, TypeOK
    <3> QED
      BY <1>2, <2>1, <3>1, <3>2 DEF IInv, TypeOK
  <2>3. Rounds' /\ Cleared' /\ Sampled'
    BY <1>1, <1>2, <2>1 DEF IInv, Rounds, Cleared, Sampled, Marked
  <2>4. Counted'
    BY <1>1, <1>4, <2>1 DEF IInv, Counted, Counting, Marked
  <2> QED
    BY <2>2, <2>3, <2>4 DEF IInv
<1>5. CASE ~ Counting
  <2>1. UNCHANGED <<calibrating_flag, adcCalibrateCnt, request>>
    BY <1>5 DEF TIM4_IRQHandler
  <2>2. TypeOK'
    BY <1>2, <2>1 DEF IInv, TypeOK
  <2>3. Rounds' /\ Cleared' /\ Counted' /\ Sampled'
    BY <1>1, <1>2, <2>1 DEF IInv, Rounds, Cleared, Counted, Sampled, Marked
  <2> QED
    BY <2>2, <2>3 DEF IInv
<1> QED
  BY <1>3, <1>4, <1>5, CalibrationAssumption DEF IInv, TypeOK

LEMMA WatchKeeps ==
  ASSUME IInv, Watch
  PROVE  IInv'
<1>1. /\ calibrating_flag \in Job \cup {NONE} /\ temp \in SUBSET Zone /\ field \in Zone
      /\ request \in BOOLEAN /\ served \in BOOLEAN /\ crossed \in BOOLEAN
  BY DEF IInv, TypeOK
<1>2. adcCalibrateCnt \in Int
  BY CalibrationAssumption DEF IInv, TypeOK
<1>3. /\ UNCHANGED <<adcCalibrateCnt, baseAutoCalibrateCnt, base_auto_calibrate_time, quiet, second>>
      /\ {request', crossed', served'} \subseteq BOOLEAN
      /\ calibrating_flag' \in Job \cup {NONE}
      /\ temp' \in SUBSET Zone
      /\ pc' \in {"idle", "sample", "zero", "base", "done", "clear"}
      /\ field' \in Zone
  <2>1. calibrating_flag # NONE => calibrating_flag.zone \in Zone
    BY <1>1, JobIsNotNone
  <2>2. CASE Begin
    BY <1>1, <2>1, <2>2 DEF Begin, watchKeeps, world, job, IInv, TypeOK
  <2>3. CASE Sample \/ StoreMean \/ Clear
    BY <1>1, <2>3 DEF Sample, StoreMean, Clear, watchKeeps, world, job
  <2>4. CASE Finish
    BY <1>1, <2>4 DEF Finish, Emptied, watchKeeps, world
  <2> QED
    BY <2>2, <2>3, <2>4 DEF Watch
<1>4. TypeOK'
  BY <1>3 DEF IInv, TypeOK
<1>5. CASE Begin
  <2>1. UNCHANGED <<calibrating_flag, crossed, request, temp, adcCalibrateCnt>>
    BY <1>3, <1>5 DEF Begin, job
  <2>2. Rounds'
    BY <1>5, <2>1 DEF Begin, IInv, Rounds, Marked
  <2>3. Cleared' /\ Counted'
    BY <2>1 DEF IInv, Cleared, Counted, Marked
  <2>4. Sampled'
    BY <1>2, <1>5, <2>1 DEF Begin, IInv, Sampled, Cleared, Counted, Marked
  <2> QED
    BY <1>4, <2>2, <2>3, <2>4 DEF IInv
<1>6. CASE Sample
  <2>1. UNCHANGED <<calibrating_flag, crossed, request, adcCalibrateCnt, field, served>>
        /\ temp' = temp \cup {field} /\ pc' = "clear" /\ pc = "sample"
    BY <1>3, <1>6 DEF Sample, job
  <2>2. Rounds' /\ Cleared' /\ Counted' /\ Sampled'
    BY <2>1 DEF IInv, Rounds, Cleared, Counted, Sampled, Marked
  <2> QED
    BY <1>4, <2>2 DEF IInv
<1>7. CASE StoreMean
  <2>1. UNCHANGED <<calibrating_flag, crossed, request, adcCalibrateCnt, temp, field, served>>
        /\ pc \in {"zero", "base"} /\ pc' \in {"base", "done"}
    BY <1>3, <1>7 DEF StoreMean, job
  <2>2. Rounds' /\ Cleared' /\ Counted' /\ Sampled'
    BY <2>1 DEF IInv, Rounds, Cleared, Counted, Sampled, Marked
  <2> QED
    BY <1>4, <2>2 DEF IInv
<1>8. CASE Finish
  <2>1. /\ UNCHANGED <<request, adcCalibrateCnt, field, served>>
        /\ calibrating_flag' = NONE /\ temp' = {} /\ crossed' = FALSE
        /\ pc = "done" /\ pc' = "clear"
    BY <1>3, <1>8 DEF Finish, Emptied
  <2>2. Rounds' /\ Cleared' /\ Counted' /\ Sampled'
    BY <2>1 DEF IInv, Rounds, Cleared, Counted, Sampled, Marked
  <2> QED
    BY <1>4, <2>2 DEF IInv
<1>9. CASE Clear
  <2>1. /\ UNCHANGED <<calibrating_flag, crossed, adcCalibrateCnt, temp, field>>
        /\ ~ request' /\ served' /\ pc = "clear" /\ pc' = "idle"
    BY <1>3, <1>9 DEF Clear, job
  <2>2. Rounds' /\ Cleared' /\ Counted' /\ Sampled'
    BY <2>1 DEF IInv, Rounds, Cleared, Counted, Sampled, Marked
  <2> QED
    BY <1>4, <2>2 DEF IInv
<1> QED
  BY <1>5, <1>6, <1>7, <1>8, <1>9 DEF Watch

LEMMA NextKeeps == IInv /\ [Next]_vars => IInv'
<1> SUFFICES ASSUME IInv, [Next]_vars
             PROVE  IInv'
  OBVIOUS
<1>1. ASSUME NEW kind \in {"zero", "base"}, NEW z \in Zone, OperatorStarts(kind, z)
      PROVE  IInv'
  <2>1. /\ Start(kind, z) /\ pc = "idle" /\ (~ crossed' => calibrating_flag = NONE)
        /\ UNCHANGED <<adcCalibrateCnt, request, temp, pc, field, served>>
        /\ UNCHANGED <<baseAutoCalibrateCnt, base_auto_calibrate_time, quiet, second>>
        /\ crossed' \in BOOLEAN
    BY <1>1 DEF OperatorStarts, world, time, IInv, TypeOK
  <2>2. TypeOK'
    BY <2>1, Started DEF IInv, TypeOK
  <2> QED
    BY <2>1, <2>2, StartKeeps DEF IInv
<1>2. CASE World
  <2>1. /\ UNCHANGED <<calibrating_flag, crossed, adcCalibrateCnt, request, temp,
                       baseAutoCalibrateCnt, pc, field, second, served>>
        /\ quiet' \in SUBSET Zone /\ base_auto_calibrate_time' \in Minutes
    BY <1>2 DEF World, job, time, IInv, TypeOK
  <2> QED
    BY <2>1 DEF IInv, TypeOK, Rounds, Cleared, Counted, Sampled, Marked
<1>3. CASE Reset
  <2>1. /\ calibrating_flag' = NONE /\ ~ crossed' /\ adcCalibrateCnt' = 0 /\ ~ request'
        /\ temp' = {} /\ pc' = "idle" /\ served'
    BY <1>3 DEF Reset
  <2>2. TypeOK'
    <3>1. {request', crossed', served'} \subseteq BOOLEAN
      BY <1>3 DEF Reset
    <3>2. adcCalibrateCnt' \in 0..TIME
      BY <2>1, CalibrationAssumption
    <3> QED
      BY <1>3, FirstCntTyped, <3>1, <3>2 DEF Reset, world, IInv, TypeOK
  <2>3. Rounds' /\ Cleared' /\ Counted' /\ Sampled'
    BY <2>1 DEF Rounds, Cleared, Counted, Sampled, Marked
  <2> QED
    BY <2>2, <2>3 DEF IInv
<1>4. CASE UNCHANGED vars
  BY <1>4 DEF vars, job, world, time, IInv, TypeOK, Rounds, Cleared, Counted, Sampled, Marked
<1> QED
  BY <1>1, <1>2, <1>3, <1>4, Tim3Keeps, Tim4Keeps, WatchKeeps DEF Next

-----------------------------------------------------------------------------
\* TypeOK: the counts of TIM3 and TIM4 stay in their range, whatever intervals
\* are set at what time (baseAutoCalibrateCnt, adcCalibrateCnt).
THEOREM CalibrationTypes == Spec => []TypeOK
<1>1. IInv => TypeOK
  BY DEF IInv
<1> QED
  BY InitOK, NextKeeps, <1>1, PTL DEF Spec

\* EndKeepsJob: what watch_task reads in calibrating_flag while it stores a
\* mean is the calibration that ended, though the timers go on.
THEOREM JobIsKept == Spec => []EndKeepsJob
<1>1. IInv => EndKeepsJob
  BY JobIsNotNone DEF IInv, TypeOK, Rounds, Marked, EndKeepsJob
<1> QED
  BY InitOK, NextKeeps, <1>1, PTL DEF Spec

\* OwnSamplesOnly: the mean stored for a zone is of samples of that zone, and
\* of at least one, unless operators began the calibration over another.
THEOREM MeansAreOwn == Spec => []OwnSamplesOnly
<1>1. IInv => OwnSamplesOnly
  BY DEF IInv, Rounds, Sampled, OwnSamplesOnly
<1> QED
  BY InitOK, NextKeeps, <1>1, PTL DEF Spec
=============================================================================
