---------------------------- MODULE SwitchInput ----------------------------
(***************************************************************************)
(* How the external switches reach the alarm words (alarm.c): the EXTI     *)
(* handlers and setSWValue both run updateSWAlarmState, which reads the    *)
(* input and then changes ALARM_STATE, and the latched copy, by a load and *)
(* a store.  watch_task changes other bits of the same words the same way. *)
(*                                                                         *)
(* A context is named by how urgent it is: 0 is the interrupt level (its   *)
(* handlers do not nest), 3 is watch_task, 5 and 6 are the tasks that call *)
(* setSWValue (web, LCD).  A context runs when none more urgent is busy,   *)
(* so a less urgent one can be cut between a load and its store.           *)
(***************************************************************************)
EXTENDS Integers, Sequences

CONSTANTS
  Switch,       (* switches looked at, out of "SW1" and "SW2"                *)
  OwnLine,      (* those whose EXTI line is the pin they are read from       *)
  Setter,       (* tasks that call setSWValue                                *)
  SixWire,      (* W4_W6: whether the host samples the fifth and sixth wire  *)
  FenceAlarms,  (* whether watch_task confirms and withdraws alarms          *)
  Bouncing      (* whether an input may move while its handler runs          *)

ISR == 0
WATCH == 3
LCD == 6        (* main_task, which edits SW_Type in place                   *)
Context == {ISR, WATCH} \cup Setter

ASSUME SwitchAssumption ==
  /\ Switch \subseteq {"SW1", "SW2"} /\ Switch # {}
  /\ OwnLine \subseteq Switch
  /\ Setter \subseteq {5, 6}
  /\ {SixWire, FenceAlarms, Bouncing} \subseteq BOOLEAN

FENCE == "FENCE"                       \* a bit that only watch_task changes
Bit == Switch \cup {FENCE}

VARIABLES
  input,              (* the level of each pin: TRUE is an alarm             *)
  fence,              (* whether the checks find an alarm of the fence       *)
  pending,            (* switches whose EXTI line is pending                 *)
  SW_Type,            (* whether a switch is in use (type # 0)               *)
  ALARM_STATE,        (* the alarm word, reduced to Bit                      *)
  ALARM_STATE_DELAY,  (* its latched copy (latching is on)                   *)
  ADC_CTRL2,          (* PA8: selects which zone's outer wires are sampled   *)
  todo, pc,           (* per context: bits still to update, next access      *)
  want, copy,         (* per context: value to be written, the word loaded   *)
  stray               (* history: switches whose last update was overtaken   *)

worldVars == <<input, fence, SW_Type, ADC_CTRL2>>
words == <<ALARM_STATE, ALARM_STATE_DELAY>>
vars == <<worldVars, pending, words, todo, pc, want, copy, stray>>

TypeOK ==
  /\ input \in [Switch -> BOOLEAN]
  /\ fence \in BOOLEAN
  /\ pending \in SUBSET Switch
  /\ SW_Type \in [Switch -> BOOLEAN]
  /\ ALARM_STATE \in SUBSET Bit
  /\ ALARM_STATE_DELAY \in SUBSET Bit
  /\ ADC_CTRL2 \in BOOLEAN
  /\ todo \in [Context -> {<<b>> : b \in Bit} \cup {<<>>, <<"SW2", "SW1">>}]
  /\ pc \in [Context -> {"idle", "read", "load", "store", "latch", "latched", "clear"}]
  /\ want \in [Context -> BOOLEAN]
  /\ copy \in [Context -> SUBSET Bit]
  /\ stray \in SUBSET Switch
  /\ \A c \in Context : pc[c] = "idle" <=> todo[c] = <<>>

\* ALARM_Init has read the switches.
Init ==
  /\ input \in [Switch -> BOOLEAN]
  /\ fence \in BOOLEAN
  /\ SW_Type \in [Switch -> BOOLEAN]
  /\ ALARM_STATE = {s \in Switch : input[s] /\ SW_Type[s]}
  /\ ALARM_STATE_DELAY = ALARM_STATE
  /\ pending = {}
  /\ ADC_CTRL2 = FALSE
  /\ todo = [c \in Context |-> <<>>]
  /\ pc = [c \in Context |-> "idle"]
  /\ want = [c \in Context |-> FALSE]
  /\ copy = [c \in Context |-> {}]
  /\ stray = {}

-----------------------------------------------------------------------------
\* A pending interrupt is taken before a task's next access.
Runs(c) ==
  /\ \A d \in Context : d < c => pc[d] = "idle"
  /\ c = ISR \/ pending = {}

At(c, where) == Runs(c) /\ pc[c] = where

Go(c, where) == pc' = [pc EXCEPT ![c] = where]

\* What a context does after its last access to the words for one bit.
Finish(c) ==
  /\ todo' = [todo EXCEPT ![c] = IF c = ISR THEN @ ELSE Tail(@)]
  /\ Go(c, IF c = ISR THEN "clear" ELSE IF Len(todo[c]) > 1 THEN "read" ELSE "idle")
  /\ copy' = [copy EXCEPT ![c] = {}]
  /\ want' = [want EXCEPT ![c] = FALSE]

\* Mutant: a switch taken for an alarm whether it is in use or not.
Reading_AnyType(s) == input[s]

Reading(s) == SW_Type[s] /\ input[s]

\* updateSWAlarmState: the input read.
Read(c) ==
  /\ At(c, "read")
  /\ want' = [want EXCEPT ![c] = Reading(Head(todo[c]))]
  /\ Go(c, "load")
  /\ UNCHANGED <<worldVars, pending, words, todo, copy, stray>>

\* ALARM_STATE |= bit, or ALARM_STATE &= ~bit.
Load(c) ==
  /\ At(c, "load")
  /\ copy' = [copy EXCEPT ![c] = ALARM_STATE]
  /\ Go(c, "store")
  /\ UNCHANGED <<worldVars, pending, words, todo, want, stray>>

Store(c) ==
  /\ At(c, "store")
  /\ \/ /\ want[c]
        /\ ALARM_STATE' = copy[c] \cup {Head(todo[c])}
        /\ Go(c, "latch")
        /\ UNCHANGED <<todo, want, copy>>
     \/ /\ ~ want[c]
        /\ ALARM_STATE' = copy[c] \ {Head(todo[c])}
        /\ Finish(c)
  /\ UNCHANGED <<worldVars, pending, ALARM_STATE_DELAY, stray>>

\* ALARM_STATE_DELAY |= bit.
LatchLoad(c) ==
  /\ At(c, "latch")
  /\ copy' = [copy EXCEPT ![c] = ALARM_STATE_DELAY]
  /\ Go(c, "latched")
  /\ UNCHANGED <<worldVars, pending, words, todo, want, stray>>

LatchStore(c) ==
  /\ At(c, "latched")
  /\ ALARM_STATE_DELAY' = copy[c] \cup {Head(todo[c])}
  /\ Finish(c)
  /\ UNCHANGED <<worldVars, pending, ALARM_STATE, stray>>

-----------------------------------------------------------------------------
(* EXTI9_5_IRQHandler and EXTI15_10_IRQHandler                             *)

Begin(c, bits, where) ==
  /\ todo' = [todo EXCEPT ![c] = bits]
  /\ Go(c, where)

\* c has read what an update of s is about to change: the word, or the input.
Outdates(c, s) ==
  \/ pc[c] = "store"
  \/ pc[c] = "load" /\ Head(todo[c]) = s

\* What an update of the switches S, beginning now, leaves overtaken.
Overtaken(S) == (stray \ S) \cup {s \in S : \E c \in Context : Outdates(c, s)}

Interrupt(s) ==
  /\ pc[ISR] = "idle"
  /\ s \in pending
  /\ Begin(ISR, <<s>>, "read")
  /\ stray' = Overtaken({s})
  /\ UNCHANGED <<worldVars, pending, words, want, copy>>

\* The pending bit is cleared last, with whatever edge came meanwhile.
ClearITPendingBit ==
  /\ pc[ISR] = "clear"
  /\ pending' = pending \ {Head(todo[ISR])}
  /\ Begin(ISR, <<>>, "idle")
  /\ UNCHANGED <<worldVars, words, want, copy, stray>>

-----------------------------------------------------------------------------
(* watch_task                                                              *)

\* Mutant: PA8 left alone by the sampling, as on a four-wire host.
Outer_Never(z) == ADC_CTRL2

\* Sampling the outer wires of a zone drives PA8, whose edges EXTI line 8
\* takes for those of SW1.
Outer(z) == IF SixWire THEN z = "B" ELSE ADC_CTRL2

Sample(z) ==
  /\ At(WATCH, "idle")
  /\ ADC_CTRL2' = Outer(z)
  /\ pending' = IF ADC_CTRL2' # ADC_CTRL2
                THEN pending \cup ((Switch \cap {"SW1"}) \ OwnLine) ELSE pending
  /\ UNCHANGED <<input, fence, SW_Type, words, todo, pc, want, copy, stray>>

\* Mutant: the check looks at the latched word for what it confirmed before.
Due_Latched(on) == on = fence /\ (on => FENCE \notin ALARM_STATE_DELAY)

\* A check confirms what it finds and the word does not say; it withdraws what
\* it does not find, of a disarmed zone whatever the word says.
Due(on) == on = fence /\ (on => FENCE \notin ALARM_STATE)

Confirm(on) ==
  /\ FenceAlarms
  /\ Due(on)
  /\ At(WATCH, "idle")
  /\ Begin(WATCH, <<FENCE>>, "load")
  /\ want' = [want EXCEPT ![WATCH] = on]
  /\ UNCHANGED <<worldVars, pending, words, copy, stray>>

-----------------------------------------------------------------------------
(* setSWValue, and the LCD menu that edits SW_Type before it calls it      *)

Both == IF Switch = {"SW1", "SW2"} THEN <<"SW2", "SW1">> ELSE <<CHOOSE s \in Switch : TRUE>>

SetSWValue(t, used) ==
  /\ At(t, "idle")
  /\ SW_Type' = [s \in Switch |-> s \in used]
  /\ Begin(t, Both, "read")
  /\ stray' = Overtaken(Switch)
  /\ UNCHANGED <<input, fence, ADC_CTRL2, pending, words, want, copy>>

EditType(s) ==
  /\ LCD \in Setter
  /\ At(LCD, "idle")
  /\ \E used \in BOOLEAN : SW_Type' = [SW_Type EXCEPT ![s] = used]
  /\ stray' = stray \cup {s}
  /\ UNCHANGED <<input, fence, ADC_CTRL2, pending, words, todo, pc, want, copy>>

-----------------------------------------------------------------------------
\* The handler of s is under way and past its reading.
HasRead(s) == pc[ISR] \notin {"idle", "read"} /\ Head(todo[ISR]) = s

\* A switch opens or closes: an edge on its pin.
Edge(s) ==
  /\ Bouncing \/ s \notin pending
  /\ input' = [input EXCEPT ![s] = ~ @]
  /\ pending' = pending \cup ({s} \cap OwnLine)
  /\ stray' = IF s \in pending' /\ ~ HasRead(s) THEN stray ELSE stray \cup {s}
  /\ UNCHANGED <<fence, SW_Type, ADC_CTRL2, words, todo, pc, want, copy>>

\* What the checks find comes or goes, or a zone is armed or disarmed.
Fence ==
  /\ FenceAlarms
  /\ fence' = ~ fence
  /\ UNCHANGED <<input, SW_Type, ADC_CTRL2, pending, words, todo, pc, want, copy, stray>>

Access(c) == Read(c) \/ Load(c) \/ Store(c) \/ LatchLoad(c) \/ LatchStore(c)

Next ==
  \/ \E c \in Context : Access(c)
  \/ \E s \in Switch : Interrupt(s)
  \/ ClearITPendingBit
  \/ \E z \in {"A", "B"} : Sample(z)
  \/ \E on \in BOOLEAN : Confirm(on)
  \/ \E t \in Setter : \E used \in SUBSET Switch : SetSWValue(t, used)
  \/ \E s \in Switch : EditType(s)
  \/ \E s \in Switch : Edge(s)
  \/ Fence

(***************************************************************************)
(* A pending interrupt is taken and its handler ends; watch_task samples   *)
(* and checks each zone twice a second; a context that is cut off goes on  *)
(* once the more urgent ones are done, which they are again and again.     *)
(***************************************************************************)
Fairness ==
  /\ \A s \in Switch : SF_vars(Interrupt(s))
  /\ WF_vars(ClearITPendingBit)
  /\ \A z \in {"A", "B"} : SF_vars(Sample(z))
  /\ \A on \in BOOLEAN : SF_vars(Confirm(on))
  /\ \A c \in Context : SF_vars(Access(c))

Spec == Init /\ [][Next]_vars /\ Fairness

-----------------------------------------------------------------------------
(* Safety                                                                  *)

\* What is true of the input of a switch when nobody is about to update it.
Quiet(s) ==
  /\ s \notin pending
  /\ \A c \in Context : \A i \in DOMAIN todo[c] : todo[c][i] # s

\* The alarm word tells a switch as it reads, however interrupts, watch_task and
\* setSWValue cut into each other, unless its last update was overtaken: it
\* began while a less urgent context was between reading the word, or that
\* input, and storing; an edge came that no handler has still to read; or the
\* LCD edited its type since.
SwitchInStep ==
  \A s \in Switch \ stray :
    Quiet(s) => (s \in ALARM_STATE <=> SW_Type[s] /\ input[s])

\* alarm.c:231 "sets the alarm state ... until the alarm is cleared": only
\* watch_task, which confirmed a fence alarm, withdraws it.
FenceAlarmKept ==
  [][(FENCE \in ALARM_STATE \ ALARM_STATE') => (pc[WATCH] = "store" /\ ~ want[WATCH])]_vars

-----------------------------------------------------------------------------
(* Liveness                                                                *)

Settled(s, level, used) ==
  /\ input[s] = level
  /\ SW_Type[s] = used
  /\ \A t \in Setter : pc[t] = "idle"

\* Once it has settled, s is an alarm exactly if it is in use and reads so.
Followed(s) ==
  \A level, used \in BOOLEAN :
    <>[]Settled(s, level, used) => <>[](s \in ALARM_STATE <=> level /\ used)

\* A switch read from another pin than its line's is followed (alarm.h:130-131:
\* "0 normal, 1 alarm"): every sampling of a six-wire host makes its handler run.
SwitchFollowsInput == \A s \in Switch \ OwnLine : Followed(s)

\* One with its own line is not: nothing reads it again after an edge that came
\* too late for its handler, or whose update an older word undid.
OwnLineFollowed == \A s \in OwnLine : Followed(s)

\* An alarm of the fence that a store of an older word undoes, or a withdrawal
\* it undoes, is made good: once the tasks leave the word alone, watch_task has
\* the last word, however interrupts go on cutting in.
UndoneAlarmReturns ==
  FenceAlarms => \A on \in BOOLEAN :
    <>[](fence = on /\ \A t \in Setter : pc[t] = "idle")
      => <>[](FENCE \in ALARM_STATE <=> on)
=============================================================================
