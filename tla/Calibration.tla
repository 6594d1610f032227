---------------------------- MODULE Calibration ----------------------------
(***************************************************************************)
(* Calibration (adc.c calibrating, timer.c TIM3 and TIM4): an operator, or *)
(* the zone's timer, marks in calibrating_flag what is to be calibrated;   *)
(* TIM4 asks watch_task for sample after sample, marks the end after       *)
(* CALIBRATING_TIME, and watch_task stores the mean.  Every calibration    *)
(* goes through the one flag, the one count and the one sum.               *)
(*                                                                         *)
(* watch_task does not give up the processor inside calibrating() (its     *)
(* delays are shorter than a tick, and a task that holds the bus inherits  *)
(* urgency), so tasks only come between its rounds.  Of a sum, and so of   *)
(* the values stored, only the zones are kept that its samples are from.   *)
(***************************************************************************)
EXTENDS Integers, FiniteSets

CONSTANTS
  Zone,        (* zones looked at, out of "A" and "B"                        *)
  Operators,   (* whether the web page and the LCD start calibrations        *)
  TIME,        (* BOUND: CALIBRATING_TIME in seconds (5 in the code); TIM4's *)
               (* requests, one in 5 ms there, are one in a second here      *)
  MINUTE,      (* BOUND: seconds in a minute                                 *)
  Minutes      (* BOUND: values of base_auto_calibrate_time                  *)

ASSUME CalibrationAssumption ==
  /\ Zone \subseteq {"A", "B"}
  /\ Operators \in BOOLEAN
  /\ TIME \in Nat /\ TIME > 1
  /\ MINUTE \in Nat /\ MINUTE > TIME + 2
  /\ Minutes \subseteq Nat
  /\ \E t \in Minutes \ {0} : \A u \in Minutes : u <= t   \* a u16

Job == [kind : {"zero", "base"}, zone : Zone, done : BOOLEAN]
NONE == [kind |-> "none"]                \* 0xFF

VARIABLES
  calibrating_flag,
  adcCalibrateCnt,
  request,                  (* bit 2 of timerHandlerFlag                     *)
  temp,                     (* calibrate_temp_val: the zones summed up in it *)
  baseAutoCalibrateCnt,
  base_auto_calibrate_time,
  quiet,                    (* zones that are armed and not in alarm         *)
  pc, field,                (* where watch_task is in calibrating()          *)
  second,                   (* which timer is due: TIM4 and TIM3 take turns  *)
  served,                   (* watch_task has ended a round since TIM4 ran   *)
  crossed                   (* history: begun over an unfinished calibration *)

world == <<quiet, base_auto_calibrate_time>>
job == <<calibrating_flag, crossed>>
time == <<second, served>>
vars == <<job, adcCalibrateCnt, request, temp, baseAutoCalibrateCnt, world,
          pc, field, time>>

\* The counters as they start: the second zone's a minute ahead.
FirstCnt == [z \in Zone |-> IF z = "A" THEN 0 ELSE MINUTE]

Init ==
  /\ calibrating_flag = NONE /\ crossed = FALSE
  /\ adcCalibrateCnt = 0
  /\ request = FALSE
  /\ temp = {}
  /\ baseAutoCalibrateCnt = FirstCnt
  /\ base_auto_calibrate_time \in Minutes
  /\ quiet \in SUBSET Zone
  /\ pc = "idle"
  /\ field \in Zone
  /\ second = "TIM4"
  /\ served = TRUE

-----------------------------------------------------------------------------
(* Starting one: updateZeroVal, updateBaseVal                              *)

Start(kind, z) == calibrating_flag' = [kind |-> kind, zone |-> z, done |-> FALSE]

\* Control_CGI_Handler, ZeroCalibrationScreen, DatumCalibrationScreen: nobody
\* looks whether a calibration is under way.
OperatorStarts(kind, z) ==
  /\ Operators
  /\ pc = "idle"
  /\ Start(kind, z)
  /\ crossed' = (crossed \/ calibrating_flag # NONE)
  /\ UNCHANGED <<adcCalibrateCnt, request, temp, baseAutoCalibrateCnt, world,
                 pc, field, time>>

Due(z) == baseAutoCalibrateCnt[z] + 1 >= base_auto_calibrate_time * MINUTE

\* The loop of TIM3 comes to zone B after it has dealt with zone A.
Starts(z) ==
  /\ Due(z) /\ z \in quiet
  /\ calibrating_flag = NONE
  /\ z = "B" /\ "A" \in Zone => ~ (Due("A") /\ "A" \in quiet)

Busy(z) ==
  \/ calibrating_flag # NONE
  \/ z = "B" /\ "A" \in Zone /\ Starts("A")

\* Mutant: a zone that finds a calibration under way waits a whole interval.
StandBack_Whole(z) == 0

StandBack(z) == baseAutoCalibrateCnt[z] + 1 - TIME

NextAutoCnt(z) ==
  IF ~ Due(z) THEN baseAutoCalibrateCnt[z] + 1
  ELSE IF Busy(z) THEN StandBack(z)
  ELSE IF z \in quiet THEN 0
  ELSE (base_auto_calibrate_time - 1) * MINUTE

\* TIM3, once a second.  With the interval 0, zone A's counter is set twice
\* and zone B's never.
TIM3_IRQHandler ==
  /\ second = "TIM3"
  /\ second' = "TIM4"
  /\ baseAutoCalibrateCnt' =
       IF base_auto_calibrate_time > 0
       THEN [z \in Zone |-> NextAutoCnt(z)]
       ELSE [z \in Zone |-> IF z = "A" THEN MINUTE ELSE baseAutoCalibrateCnt[z]]
  /\ IF base_auto_calibrate_time > 0 /\ \E z \in Zone : Starts(z)
     THEN \E z \in Zone : Starts(z) /\ Start("base", z) /\ crossed' = FALSE
     ELSE UNCHANGED job
  /\ UNCHANGED <<adcCalibrateCnt, request, temp, world, pc, field, served>>

-----------------------------------------------------------------------------
(* TIM4                                                                    *)

\* Mutant: the mask that the code means, 0x80, where it says 80.
Counting_Masked == calibrating_flag # NONE /\ ~ calibrating_flag.done

\* calibrating_flag & 80 keeps bits 6 and 4 and is never 0x80.
Counting == calibrating_flag # NONE

\* TIM4: another sample, or the end.  BOUND: a round of watch_task (a quarter
\* of a second) ends between two ticks.  Of the requests of a second, those
\* that come in the round are cleared unseen, and those after it stand.
TIM4_IRQHandler ==
  /\ second = "TIM4" /\ served
  /\ second' = "TIM3" /\ served' = FALSE
  /\ \/ /\ Counting /\ adcCalibrateCnt >= TIME
        /\ calibrating_flag' = [calibrating_flag EXCEPT !.done = TRUE]
        /\ adcCalibrateCnt' = 0
        /\ UNCHANGED request
     \/ /\ Counting /\ adcCalibrateCnt < TIME
        /\ adcCalibrateCnt' = adcCalibrateCnt + 1
        /\ request' = TRUE
        /\ UNCHANGED calibrating_flag
     \/ ~ Counting /\ UNCHANGED <<calibrating_flag, adcCalibrateCnt, request>>
  /\ UNCHANGED <<crossed, temp, baseAutoCalibrateCnt, world, pc, field>>

-----------------------------------------------------------------------------
(* watch_task: calibrating()                                               *)

watchKeeps == <<adcCalibrateCnt, baseAutoCalibrateCnt, world, second>>

Begin ==
  /\ pc = "idle" /\ ~ served
  /\ \/ ~ request /\ served' = TRUE /\ UNCHANGED <<pc, field>>
     \/ /\ request /\ UNCHANGED served
        /\ \/ calibrating_flag = NONE /\ pc' = "clear" /\ UNCHANGED field
           \/ /\ calibrating_flag # NONE
              /\ field' = calibrating_flag.zone
              /\ pc' = IF calibrating_flag.done THEN "zero" ELSE "sample"
  /\ UNCHANGED <<watchKeeps, job, request, temp>>

Sample ==
  /\ pc = "sample"
  /\ temp' = temp \cup {field}
  /\ pc' = "clear"
  /\ UNCHANGED <<watchKeeps, job, request, field, served>>

\* zero_val, if the flag says so, and again, base_val: the mean is stored
\* (WriteAdcZeroToEEProm, WriteAdcBaseToEEProm) and the flag read once more.
StoreMean ==
  /\ \/ pc = "zero" /\ pc' = "base"
     \/ pc = "base" /\ pc' = "done"
  /\ UNCHANGED <<watchKeeps, job, request, temp, field, served>>

\* Mutant: the sum kept for the next calibration.
Emptied_Kept == temp

Emptied == {}

Finish ==
  /\ pc = "done"
  /\ temp' = Emptied
  /\ calibrating_flag' = NONE
  /\ crossed' = FALSE
  /\ pc' = "clear"
  /\ UNCHANGED <<watchKeeps, request, field, served>>

\* CLEAR_VAR_BIT(timerHandlerFlag, 2), after calibrating().
Clear ==
  /\ pc = "clear"
  /\ request' = FALSE
  /\ served' = TRUE
  /\ pc' = "idle"
  /\ UNCHANGED <<watchKeeps, job, temp, field>>

Watch == Begin \/ Sample \/ StoreMean \/ Finish \/ Clear

-----------------------------------------------------------------------------
(* The rest                                                                *)

\* The fence, the operators' settings.
World ==
  /\ pc = "idle"
  /\ \/ quiet' \in SUBSET Zone /\ UNCHANGED base_auto_calibrate_time
     \/ base_auto_calibrate_time' \in Minutes /\ UNCHANGED quiet
  /\ UNCHANGED <<job, adcCalibrateCnt, request, temp, baseAutoCalibrateCnt,
                 pc, field, time>>

\* A reset, in the middle of a calibration or not.
Reset ==
  /\ calibrating_flag' = NONE /\ crossed' = FALSE
  /\ adcCalibrateCnt' = 0
  /\ request' = FALSE
  /\ temp' = {}
  /\ baseAutoCalibrateCnt' = FirstCnt
  /\ pc' = "idle"
  /\ second' = "TIM4" /\ served' = TRUE
  /\ UNCHANGED <<world, field>>

Next ==
  \/ \E kind \in {"zero", "base"} : \E z \in Zone : OperatorStarts(kind, z)
  \/ TIM3_IRQHandler
  \/ TIM4_IRQHandler
  \/ Watch
  \/ World
  \/ Reset

\* The timers run, and watch_task sleeps 100 ms between its rounds.
Fairness ==
  /\ WF_vars(TIM3_IRQHandler)
  /\ WF_vars(TIM4_IRQHandler)
  /\ WF_vars(Watch)

Spec == Init /\ [][Next]_vars /\ Fairness

-----------------------------------------------------------------------------
(* Properties                                                              *)

LongestCnt == (CHOOSE t \in Minutes : \A u \in Minutes : u <= t) * MINUTE

TypeOK ==
  /\ calibrating_flag \in Job \cup {NONE}
  /\ adcCalibrateCnt \in 0..TIME
  /\ {request, crossed, served} \subseteq BOOLEAN
  /\ temp \in SUBSET Zone
  /\ baseAutoCalibrateCnt \in [Zone -> 0..LongestCnt]
  /\ base_auto_calibrate_time \in Minutes
  /\ quiet \in SUBSET Zone
  /\ pc \in {"idle", "sample", "zero", "base", "done", "clear"}
  /\ field \in Zone
  /\ second \in {"TIM3", "TIM4"}

\* What is stored for a zone was sampled on it alone, unless the calibration
\* was begun over another: no start looks whether one is under way, and they
\* share the sum.  It was sampled at all, too: the sum is divided by a count.
OwnSamplesOnly ==
  pc \in {"zero", "base"} /\ ~ crossed => temp = {calibrating_flag.zone}

\* While watch_task is storing a mean nobody can change what it is storing:
\* the flag it reads again and again still names the calibration it ended.
EndKeepsJob ==
  pc \in {"zero", "base", "done"} =>
    calibrating_flag \in Job /\ calibrating_flag.done /\ calibrating_flag.zone = field

LeftAlone == <>[][~ \E kind \in {"zero", "base"} : \E z \in Zone : OperatorStarts(kind, z)]_vars

\* Every calibration ends, and with it the time in which no reading of the
\* fence is taken (updateCrtSmp), unless operators begin another over each of
\* them: the end is marked by an interrupt, and only a further request, which
\* the misspelt mask of TIM4 lets through, makes watch_task see it.
CalibrationEnds == LeftAlone => (calibrating_flag # NONE ~> calibrating_flag = NONE)

\* A zone that stays armed and quiet is calibrated by its timer again and
\* again, whatever its counter was when the interval was set, and although the
\* other zone's calibrations make it stand back (TIM3).
AutoCalibrationRecurs ==
  \A z \in Zone : \A t \in Minutes \ {0} :
    LeftAlone /\ <>[][~ Reset]_vars /\ <>[](base_auto_calibrate_time = t /\ z \in quiet)
      => []<>(calibrating_flag = [kind |-> "base", zone |-> z, done |-> TRUE])
=============================================================================
