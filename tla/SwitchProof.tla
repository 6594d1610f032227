---------------------------- MODULE SwitchProof ----------------------------
(***************************************************************************)
(* The alarm word tells a switch as it reads unless its last update was    *)
(* overtaken, for every set of switches, wiring and set of tasks.  The     *)
(* invariant: a word that was loaded is still the word, and a value read   *)
(* still the reading, for every switch that is not stray; and what a more  *)
(* urgent context changes under a less urgent one is stray.                *)
(***************************************************************************)
EXTENDS SwitchInput, TLAPS

-----------------------------------------------------------------------------
(* Types                                                                   *)

\* The queues of bits that occur: no switch, one bit, or both switches.
Queue == {<<b>> : b \in Bit} \cup {<<>>, Both}

\* An input is read only for a switch.
Typed ==
  /\ TypeOK
  /\ todo \in [Context -> Queue]
  /\ \A c \in Context : pc[c] = "read" => Head(todo[c]) \in Switch

LEMMA BothSwitches ==
  /\ Both # <<>> /\ Head(Both) \in Switch
  /\ \/ Both = <<"SW2", "SW1">> /\ Switch = {"SW1", "SW2"} /\ Tail(Both) = <<"SW1">> /\ Len(Both) = 2
     \/ \E s \in Switch : Both = <<s>>
<1>1. CASE Switch = {"SW1", "SW2"}
  <2>1. Both = <<"SW2", "SW1">>
    BY <1>1 DEF Both
  <2> QED
    BY <1>1, <2>1
<1>2. CASE Switch # {"SW1", "SW2"}
  <2> DEFINE s == CHOOSE t \in Switch : TRUE
  <2>1. s \in Switch
    BY SwitchAssumption
  <2>2. Both = <<s>>
    BY <1>2 DEF Both
  <2> HIDE DEF s
  <2> QED
    BY <2>1, <2>2
<1> QED
  BY <1>1, <1>2

\* One bit is left after another only when both switches are updated.
LEMMA Queues ==
  ASSUME NEW q \in Queue, q # <<>>
  PROVE  /\ Head(q) \in Bit /\ Len(q) \in Nat
         /\ Len(q) > 1 => Tail(q) \in Queue \ {<<>>} /\ Head(Tail(q)) \in Switch
         /\ ~ (Len(q) > 1) => Tail(q) = <<>>
<1>1. CASE \E b \in Bit : q = <<b>>
  BY <1>1
<1>2. CASE q = <<"SW2", "SW1">> /\ Switch = {"SW1", "SW2"}
  <2>1. Head(q) = "SW2" /\ Tail(q) = <<"SW1">> /\ Len(q) = 2
    BY <1>2
  <2>2. "SW1" \in Switch /\ "SW2" \in Switch
    BY <1>2
  <2>3. Tail(q) \in Queue
    BY <2>1, <2>2 DEF Queue, Bit
  <2>4. Tail(q) # <<>> /\ Head(Tail(q)) = "SW1"
    <3>1. <<"SW1">> # <<>> /\ Head(<<"SW1">>) = "SW1"
      OBVIOUS
    <3>2. Tail(q) = <<"SW1">>
      BY <2>1
    <3> QED
      BY <3>1, <3>2, Zenon
  <2>5. Head(q) \in Bit /\ Len(q) = 2
    BY <2>1, <2>2 DEF Bit
  <2> QED
    BY <2>2, <2>3, <2>4, <2>5
<1> QED
  BY <1>1, <1>2, BothSwitches DEF Queue, Bit

LEMMA QueueTyped == Queue \subseteq {<<b>> : b \in Bit} \cup {<<>>, <<"SW2", "SW1">>}
BY BothSwitches DEF Queue, Bit

LEMMA InitTyped == Init => Typed
<1> SUFFICES ASSUME Init
             PROVE  Typed
  OBVIOUS
<1>1. ALARM_STATE \in SUBSET Bit /\ ALARM_STATE_DELAY \in SUBSET Bit
  BY DEF Init, Bit
<1> QED
  BY <1>1 DEF Init, Typed, TypeOK, Queue

\* The end of an update: the next switch, or nothing left to do.
LEMMA FinishTyped ==
  ASSUME Typed, NEW c \in Context, pc[c] # "idle", Finish(c)
  PROVE  /\ todo' \in [Context -> Queue]
         /\ pc' \in [Context -> {"idle", "read", "load", "store", "latch", "latched", "clear"}]
         /\ want' \in [Context -> BOOLEAN]
         /\ copy' \in [Context -> SUBSET Bit]
         /\ \A d \in Context : pc'[d] = "idle" <=> todo'[d] = <<>>
         /\ \A d \in Context : pc'[d] = "read" => Head(todo'[d]) \in Switch
<1>1. todo[c] \in Queue /\ todo[c] # <<>>
  BY DEF Typed, TypeOK
<1>2. want' \in [Context -> BOOLEAN] /\ copy' \in [Context -> SUBSET Bit]
  BY DEF Finish, Typed, TypeOK
<1>3. CASE c = ISR
  BY <1>1, <1>3 DEF Finish, Go, Typed, TypeOK
<1>4. CASE c # ISR
  BY <1>1, <1>4, Queues DEF Finish, Go, Typed, TypeOK, Queue
<1> QED
  BY <1>2, <1>3, <1>4

LEMMA AccessTyped ==
  ASSUME Typed, NEW c \in Context, Access(c)
  PROVE  Typed'
<1>1. UNCHANGED <<input, fence, SW_Type, ADC_CTRL2, pending, stray>>
  BY DEF Access, Read, Load, Store, LatchLoad, LatchStore, worldVars
<1>2. /\ pc[c] # "idle" /\ todo[c] \in Queue /\ todo[c] # <<>> /\ copy[c] \in SUBSET Bit
      /\ Head(todo[c]) \in Bit
  BY Queues DEF Access, Read, Load, Store, LatchLoad, LatchStore, At, Typed, TypeOK
<1>3. CASE Read(c)
  <2>1. Reading(Head(todo[c])) \in BOOLEAN
    BY <1>3 DEF Read, At, Reading, Typed, TypeOK
  <2> QED
    BY <1>1, <1>2, <1>3, <2>1 DEF Read, At, Go, words, Typed, TypeOK
<1>4. CASE Load(c) \/ LatchLoad(c)
  BY <1>1, <1>2, <1>4 DEF Load, LatchLoad, At, Go, words, Typed, TypeOK
<1>5. CASE Store(c)
  <2>1. ALARM_STATE' \in SUBSET Bit /\ ALARM_STATE_DELAY' = ALARM_STATE_DELAY
    BY <1>2, <1>5 DEF Store
  <2>2. CASE Finish(c)
    BY <1>1, <1>2, <2>1, <2>2, FinishTyped, QueueTyped DEF Typed, TypeOK
  <2>3. CASE Go(c, "latch") /\ UNCHANGED <<todo, want, copy>>
    BY <1>1, <1>2, <2>1, <2>3 DEF Go, Typed, TypeOK
  <2> QED
    BY <1>5, <2>2, <2>3 DEF Store
<1>6. CASE LatchStore(c)
  <2>1. ALARM_STATE_DELAY' \in SUBSET Bit /\ ALARM_STATE' = ALARM_STATE /\ Finish(c)
    BY <1>2, <1>6 DEF LatchStore
  <2> QED
    BY <1>1, <1>2, <2>1, FinishTyped, QueueTyped DEF Typed, TypeOK
<1> QED
  BY <1>3, <1>4, <1>5, <1>6 DEF Access

\* An idle context takes up a queue.
LEMMA BeginTyped ==
  ASSUME Typed, NEW c \in Context, NEW q \in Queue \ {<<>>},
         NEW where \in {"read", "load"}, Begin(c, q, where),
         where = "read" => Head(q) \in Switch, UNCHANGED copy,
         want' \in [Context -> BOOLEAN]
  PROVE  /\ todo' \in [Context -> Queue]
         /\ pc' \in [Context -> {"idle", "read", "load", "store", "latch", "latched", "clear"}]
         /\ copy' \in [Context -> SUBSET Bit]
         /\ \A d \in Context : pc'[d] = "idle" <=> todo'[d] = <<>>
         /\ \A d \in Context : pc'[d] = "read" => Head(todo'[d]) \in Switch
BY DEF Begin, Go, Typed, TypeOK

LEMMA NextTyped == Typed /\ [Next]_vars => Typed'
<1> SUFFICES ASSUME Typed, [Next]_vars
             PROVE  Typed'
  OBVIOUS
<1>1. ASSUME NEW c \in Context, Access(c)
      PROVE  Typed'
  BY <1>1, AccessTyped
<1>2. ASSUME NEW s \in Switch, Interrupt(s)
      PROVE  Typed'
  <2>1. <<s>> \in Queue \ {<<>>} /\ Head(<<s>>) \in Switch
    BY DEF Queue, Bit
  <2>2. want' \in [Context -> BOOLEAN] /\ Begin(ISR, <<s>>, "read") /\ UNCHANGED copy
    BY <1>2 DEF Interrupt, Typed, TypeOK
  <2> QED
    BY <1>2, <2>1, <2>2, BeginTyped, QueueTyped DEF Interrupt, Overtaken, worldVars, words, Context, Typed, TypeOK
<1>3. CASE ClearITPendingBit
  BY <1>3 DEF ClearITPendingBit, Begin, Go, worldVars, words, Context, Typed, TypeOK, Queue
<1>4. ASSUME NEW z \in {"A", "B"}, Sample(z)
      PROVE  Typed'
  <2>1. ADC_CTRL2' \in BOOLEAN
    <3>1. CASE SixWire
      BY <1>4, <3>1 DEF Sample, Outer
    <3>2. CASE ~ SixWire
      BY <1>4, <3>2 DEF Sample, Outer, Typed, TypeOK
    <3> QED
      BY <3>1, <3>2
  <2>2. pending' \in SUBSET Switch
    BY <1>4 DEF Sample, Typed, TypeOK
  <2> QED
    BY <1>4, <2>1, <2>2 DEF Sample, words, Typed, TypeOK
<1>5. ASSUME NEW on \in BOOLEAN, Confirm(on)
      PROVE  Typed'
  <2>1. <<FENCE>> \in Queue \ {<<>>}
    BY DEF Queue, Bit
  <2>2. want' \in [Context -> BOOLEAN] /\ Begin(WATCH, <<FENCE>>, "load") /\ UNCHANGED copy
    BY <1>5 DEF Confirm, Typed, TypeOK
  <2> QED
    BY <1>5, <2>1, <2>2, BeginTyped, QueueTyped DEF Confirm, worldVars, words, Context, Typed, TypeOK
<1>6. ASSUME NEW t \in Setter, NEW used \in SUBSET Switch, SetSWValue(t, used)
      PROVE  Typed'
  <2>1. SW_Type' \in [Switch -> BOOLEAN]
    BY <1>6 DEF SetSWValue
  <2>2. Both \in Queue \ {<<>>} /\ Head(Both) \in Switch /\ t \in Context
    BY BothSwitches DEF Queue, Context
  <2>3. want' \in [Context -> BOOLEAN] /\ Begin(t, Both, "read") /\ UNCHANGED copy
    BY <1>6 DEF SetSWValue, Typed, TypeOK
  <2> QED
    BY <1>6, <2>1, <2>2, <2>3, BeginTyped, QueueTyped DEF SetSWValue, Overtaken, words, Typed, TypeOK
<1>7. ASSUME NEW s \in Switch, EditType(s)
      PROVE  Typed'
  BY <1>7 DEF EditType, words, Typed, TypeOK
<1>8. ASSUME NEW s \in Switch, Edge(s)
      PROVE  Typed'
  BY <1>8 DEF Edge, words, Typed, TypeOK
<1>9. CASE Fence
  BY <1>9 DEF Fence, words, Typed, TypeOK
<1>10. CASE UNCHANGED vars
  BY <1>10 DEF vars, worldVars, words, Typed, TypeOK
<1> QED
  BY <1>1, <1>2, <1>3, <1>4, <1>5, <1>6, <1>7, <1>8, <1>9, <1>10 DEF Next

\* TypeOK: a context has bits to update exactly while it is busy, and the
\* input is only ever read of a switch (updateSWAlarmState).
THEOREM SwitchTypes == Spec => []TypeOK
<1>1. Typed => TypeOK
  BY DEF Typed
<1> QED
  BY InitTyped, NextTyped, <1>1, PTL DEF Spec
-----------------------------------------------------------------------------
(* The invariant                                                           *)

Elems(q) == {q[i] : i \in DOMAIN q}

\* c has still to finish with b.
Has(c, b) == b \in Elems(todo[c])

\* c has stored what it read of b.
Past(c, b) == pc[c] \in {"latch", "latched", "clear"} /\ Head(todo[c]) = b

\* A word that was loaded is still the word.
Copies ==
  \A c \in Context : \A s \in Switch \ stray :
    pc[c] = "store" /\ Head(todo[c]) # s => (s \in copy[c] <=> s \in ALARM_STATE)

\* A value that was read is still the reading, unless an interrupt is due.
Wants ==
  \A c \in Context : \A s \in Switch \ stray :
    /\ pc[c] \in {"load", "store"}
    /\ Head(todo[c]) = s
    /\ c # ISR => s \notin pending
    => (want[c] <=> Reading(s))

\* What a more urgent context is to change under a less urgent one is stray.
Overtakes ==
  \A c, d \in Context : \A s \in Switch :
    d < c /\ Outdates(c, s) /\ Has(d, s) => s \in stray

\* No handler is due to read s, and no context that took s up has to store.
Still(s) ==
  /\ s \in pending => Past(ISR, s)
  /\ \A c \in Context : Has(c, s) => Past(c, s)

Told ==
  \A s \in Switch \ stray : Still(s) => (s \in ALARM_STATE <=> Reading(s))

\* A handler updates one switch.
Single == \A b \in Elems(todo[ISR]) : b = Head(todo[ISR])

StepInv == Typed /\ Single /\ Copies /\ Wants /\ Overtakes /\ Told

LEMMA ElemsOfQueues ==
  /\ Elems(<<>>) = {}
  /\ \A b \in Bit : Elems(<<b>>) = {b}
  /\ Elems(Both) = Switch
<1>1. Elems(<<>>) = {} /\ \A b : Elems(<<b>>) = {b}
  BY DEF Elems
<1>2. CASE Switch = {"SW1", "SW2"}
  <2>1. Both = <<"SW2", "SW1">>
    BY <1>2 DEF Both
  <2>2. Elems(<<"SW2", "SW1">>) = {"SW1", "SW2"}
    BY DEF Elems
  <2> QED
    BY <1>1, <1>2, <2>1, <2>2
<1>3. CASE Switch # {"SW1", "SW2"}
  <2>1. PICK s \in Switch : Switch = {s}
    BY <1>3, SwitchAssumption
  <2>2. Both = <<s>>
    BY <1>3, <2>1 DEF Both
  <2> QED
    BY <1>1, <2>1, <2>2
<1> QED
  BY <1>2, <1>3, <1>1

LEMMA ElemsOfTail ==
  ASSUME NEW q \in Queue, q # <<>>
  PROVE  /\ Head(q) \in Elems(q)
         /\ Len(q) > 1 => Elems(Tail(q)) = Elems(q) \ {Head(q)}
         /\ ~ (Len(q) > 1) => Tail(q) = <<>> /\ Elems(q) = {Head(q)}
<1>1. ASSUME NEW b, q = <<b>>
      PROVE  Head(q) = b /\ Len(q) = 1 /\ Tail(q) = <<>> /\ Elems(q) = {b}
  BY <1>1 DEF Elems
<1>2. CASE q = <<"SW2", "SW1">>
  <2>1. Head(q) = "SW2" /\ Len(q) = 2 /\ Tail(q) = <<"SW1">>
    BY <1>2
  <2>2. Elems(q) = {"SW2", "SW1"} /\ Elems(<<"SW1">>) = {"SW1"}
    BY <1>2 DEF Elems
  <2>3. Elems(Tail(q)) = Elems(q) \ {Head(q)}
    BY <2>1, <2>2, "SW2" # "SW1"
  <2> QED
    BY <2>1, <2>2, <2>3
<1>3. (\E b : q = <<b>>) \/ q = <<"SW2", "SW1">>
  <2>1. (\E b : Both = <<b>>) \/ Both = <<"SW2", "SW1">>
    BY BothSwitches
  <2> QED
    BY <2>1 DEF Queue
<1>4. CASE \E b : q = <<b>>
  BY <1>1, <1>4
<1> QED
  BY <1>2, <1>3, <1>4

\* A context that runs finds the more urgent ones idle, and no interrupt due
\* if it is a task.
LEMMA RunsAlone ==
  ASSUME Typed, NEW c \in Context, Runs(c)
  PROVE  /\ \A d \in Context : d < c => pc[d] = "idle" /\ \A b : ~ Has(d, b)
         /\ c # ISR => pc[ISR] = "idle" /\ pending = {} /\ \A b : ~ Has(ISR, b)
<1>1. \A d \in Context : pc[d] = "idle" => \A b : ~ Has(d, b)
  BY ElemsOfQueues DEF Has, Typed, TypeOK
<1>2. ISR \in Context /\ (c # ISR => ISR < c)
  BY SwitchAssumption DEF Context, ISR, WATCH
<1> QED
  BY <1>1, <1>2 DEF Runs

\* The urgencies are comparable.
LEMMA Urgency ==
  /\ \A c, d \in Context : c # d => c < d \/ d < c
  /\ \A c, d \in Context : c < d => ~ (d < c) /\ c # d
  /\ ISR \in Context /\ WATCH \in Context /\ Setter \subseteq Context
  /\ \A c \in Context : c # ISR => ISR < c
  /\ ISR # WATCH /\ ISR \notin Setter
  /\ FENCE \notin Switch
BY SwitchAssumption DEF Context, ISR, WATCH, FENCE

\* What the end of an update does.
LEMMA Finishes ==
  ASSUME Typed, NEW c \in Context, pc[c] # "idle", Finish(c)
  PROVE  /\ \A d \in Context : d # c =>
              /\ pc'[d] = pc[d] /\ todo'[d] = todo[d] /\ want'[d] = want[d]
              /\ copy'[d] = copy[d]
         /\ c = ISR => pc'[c] = "clear" /\ todo'[c] = todo[c]
         /\ c # ISR => /\ pc'[c] \in {"idle", "read"}
                       /\ \A b : b \in Elems(todo'[c]) <=>
                                   b \in Elems(todo[c]) /\ b # Head(todo[c])
<1>1. todo[c] \in Queue /\ todo[c] # <<>>
  BY DEF Typed, TypeOK
<1>2. \A d \in Context : d # c =>
        /\ pc'[d] = pc[d] /\ todo'[d] = todo[d] /\ want'[d] = want[d]
        /\ copy'[d] = copy[d]
  BY DEF Finish, Go, Typed, TypeOK
<1>3. CASE c = ISR
  BY <1>2, <1>3 DEF Finish, Go, Typed, TypeOK
<1>4. CASE c # ISR
  <2>1. todo'[c] = Tail(todo[c]) /\ pc'[c] = IF Len(todo[c]) > 1 THEN "read" ELSE "idle"
    BY <1>4 DEF Finish, Go, Typed, TypeOK
  <2>2. Len(todo[c]) > 1 => Elems(todo'[c]) = Elems(todo[c]) \ {Head(todo[c])}
    BY <1>1, <2>1, ElemsOfTail
  <2>3. ~ (Len(todo[c]) > 1) => Elems(todo'[c]) = {} /\ Elems(todo[c]) = {Head(todo[c])}
    BY <1>1, <2>1, ElemsOfTail, ElemsOfQueues
  <2>4. pc'[c] \in {"idle", "read"}
    BY <2>1
  <2>5. \A b : b \in Elems(todo'[c]) <=> b \in Elems(todo[c]) /\ b # Head(todo[c])
    BY <2>2, <2>3
  <2> QED
    BY <1>2, <1>4, <2>4, <2>5
<1> QED
  BY <1>3, <1>4

StepsKept == Copies' /\ Wants' /\ Overtakes' /\ Told'

\* Reading the input.
LEMMA ReadSteps ==
  ASSUME StepInv, NEW c \in Context, Read(c)
  PROVE  StepsKept
<1> USE DEF StepInv
<1>1. /\ pc[c] = "read" /\ pc'[c] = "load" /\ Runs(c)
      /\ \A d \in Context : d # c => pc'[d] = pc[d] /\ want'[d] = want[d]
      /\ want'[c] = Reading(Head(todo[c]))
      /\ UNCHANGED <<input, SW_Type, pending, ALARM_STATE, todo, copy, stray>>
  BY DEF Read, At, Go, worldVars, words, Typed, TypeOK
<1>2. \A s : Reading(s)' = Reading(s)
  BY <1>1 DEF Reading
<1>3. Copies'
  BY <1>1 DEF Copies
<1>4. Wants'
  BY <1>1, <1>2 DEF Wants
<1>5. Overtakes'
  <2> SUFFICES ASSUME NEW e \in Context, NEW d \in Context, NEW s \in Switch,
                      d < e, Outdates(e, s)', Has(d, s)'
               PROVE  s \in stray
    BY <1>1 DEF Overtakes
  <2>1. Has(d, s)
    BY <1>1 DEF Has
  <2>2. e # c
    BY <1>1, <2>1, RunsAlone
  <2> QED
    BY <1>1, <2>1, <2>2 DEF Overtakes, Outdates
<1>6. Told'
  <2>1. \A e \in Context : \A b : Past(e, b)' <=> Past(e, b)
    BY <1>1 DEF Past
  <2>2. \A e \in Context : \A b : Has(e, b)' <=> Has(e, b)
    BY <1>1 DEF Has
  <2>3. \A s : Still(s)' <=> Still(s)
    BY <1>1, <2>1, <2>2, Urgency DEF Still
  <2> QED
    BY <1>1, <1>2, <2>3 DEF Told
<1> QED
  BY <1>3, <1>4, <1>5, <1>6 DEF StepsKept

\* Loading the word.
LEMMA LoadSteps ==
  ASSUME StepInv, NEW c \in Context, Load(c)
  PROVE  StepsKept
<1> USE DEF StepInv
<1>1. /\ pc[c] = "load" /\ pc'[c] = "store" /\ Runs(c)
      /\ \A d \in Context : d # c => pc'[d] = pc[d] /\ copy'[d] = copy[d]
      /\ copy'[c] = ALARM_STATE
      /\ UNCHANGED <<input, SW_Type, pending, ALARM_STATE, todo, want, stray>>
  BY DEF Load, At, Go, worldVars, words, Typed, TypeOK
<1>2. \A s : Reading(s)' = Reading(s)
  BY <1>1 DEF Reading
<1>3. Copies'
  BY <1>1 DEF Copies
<1>4. Wants'
  BY <1>1, <1>2 DEF Wants
<1>5. Overtakes'
  <2> SUFFICES ASSUME NEW e \in Context, NEW d \in Context, NEW s \in Switch,
                      d < e, Outdates(e, s)', Has(d, s)'
               PROVE  s \in stray
    BY <1>1 DEF Overtakes
  <2>1. Has(d, s)
    BY <1>1 DEF Has
  <2>2. e # c
    BY <1>1, <2>1, RunsAlone
  <2> QED
    BY <1>1, <2>1, <2>2 DEF Overtakes, Outdates
<1>6. Told'
  <2>1. \A e \in Context : \A b : Past(e, b)' <=> Past(e, b)
    BY <1>1 DEF Past
  <2>2. \A e \in Context : \A b : Has(e, b)' <=> Has(e, b)
    BY <1>1 DEF Has
  <2>3. \A s : Still(s)' <=> Still(s)
    BY <1>1, <2>1, <2>2, Urgency DEF Still
  <2> QED
    BY <1>1, <1>2, <2>3 DEF Told
<1> QED
  BY <1>3, <1>4, <1>5, <1>6 DEF StepsKept

\* What the end of an update of one bit leaves of the invariant, when the word
\* tells that bit as it reads: the word has the others from the copy.
LEMMA EndSteps ==
  ASSUME StepInv, NEW c \in Context, pc[c] \in {"store", "latched"}, Runs(c), Finish(c),
         UNCHANGED <<input, SW_Type, pending, stray>>,
         \A s \in Switch \ stray :
           s # Head(todo[c]) => (s \in ALARM_STATE' <=> s \in ALARM_STATE),
         \A s \in Switch \ stray :
           /\ s = Head(todo[c])
           /\ c # ISR => s \notin pending
           /\ \A d \in Context : d # c => (Has(d, s) => Past(d, s))
           => (s \in ALARM_STATE' <=> Reading(s)),
         \A d \in Context : \A s \in Switch \ stray :
           d # c /\ pc[d] = "store" => (s \in ALARM_STATE' <=> s \in ALARM_STATE)
  PROVE  StepsKept
<1> USE DEF StepInv
<1> DEFINE h == Head(todo[c])
<1>1. /\ \A d \in Context : d # c =>
           /\ pc'[d] = pc[d] /\ todo'[d] = todo[d] /\ want'[d] = want[d]
           /\ copy'[d] = copy[d]
      /\ c = ISR => pc'[c] = "clear" /\ todo'[c] = todo[c]
      /\ c # ISR => /\ pc'[c] \in {"idle", "read"}
                    /\ \A b : b \in Elems(todo'[c]) <=> b \in Elems(todo[c]) /\ b # h
  BY Finishes
<1>2. \A s : Reading(s)' = Reading(s)
  BY DEF Reading
<1>3. Copies'
  BY <1>1 DEF Copies
<1>4. Wants'
  BY <1>1, <1>2 DEF Wants
<1>5. \A d \in Context : \A b : Has(d, b)' => Has(d, b)
  BY <1>1 DEF Has
<1>6. Overtakes'
  <2> SUFFICES ASSUME NEW e \in Context, NEW d \in Context, NEW s \in Switch,
                      d < e, Outdates(e, s)', Has(d, s)'
               PROVE  s \in stray
    BY DEF Overtakes
  <2>1. Has(d, s) /\ e # c
    BY <1>1, <1>5 DEF Outdates
  <2> QED
    BY <1>1, <2>1 DEF Overtakes, Outdates
<1>7. Told'
  <2> SUFFICES ASSUME NEW s \in Switch \ stray, Still(s)'
               PROVE  s \in ALARM_STATE' <=> Reading(s)
    BY <1>2 DEF Told
  <2>1. \A d \in Context : d # c => (Has(d, s) => Past(d, s))
    BY <1>1 DEF Still, Has, Past
  <2>2. s \in pending => Past(ISR, s)'
    BY DEF Still
  <2>3. CASE s = h
    <3>1. c # ISR => s \notin pending
      BY RunsAlone
    <3> QED
      BY <2>1, <2>3, <3>1
  <2>4. CASE s # h
    <3>1. s \in pending => Past(ISR, s)
      <4>1. CASE c = ISR
        BY <1>1, <2>2, <2>4, <4>1 DEF Past
      <4>2. CASE c # ISR
        BY <4>2, RunsAlone
      <4> QED
        BY <4>1, <4>2
    <3>2. ~ Past(c, s) /\ ~ Past(c, s)'
      BY <1>1, <2>4 DEF Past
    <3>3. ~ Has(c, s)
      <4>1. ~ Has(c, s)'
        BY <3>2 DEF Still
      <4> QED
        BY <1>1, <2>4, <4>1 DEF Has
    <3>4. Still(s)
      BY <2>1, <3>1, <3>3 DEF Still
    <3> QED
      BY <2>4, <3>4 DEF Told
  <2> QED
    BY <2>3, <2>4
<1> QED
  BY <1>3, <1>4, <1>6, <1>7 DEF StepsKept

\* What a store does to the word: the bits of the copy, and the one it is for.
LEMMA StoreWrites ==
  ASSUME StepInv, NEW c \in Context, Store(c)
  PROVE  /\ \A s \in Switch \ stray :
              s # Head(todo[c]) => (s \in ALARM_STATE' <=> s \in ALARM_STATE)
         /\ \A s \in Switch \ stray :
              s = Head(todo[c]) /\ (c # ISR => s \notin pending)
                => (s \in ALARM_STATE' <=> Reading(s))
         /\ \A d \in Context : \A s \in Switch \ stray :
              d # c /\ pc[d] = "store" => (s \in ALARM_STATE' <=> s \in ALARM_STATE)
<1> USE DEF StepInv
<1> DEFINE h == Head(todo[c])
<1>1. pc[c] = "store" /\ Runs(c) /\ todo[c] \in Queue /\ todo[c] # <<>>
  BY DEF Store, At, Typed, TypeOK
<1>2. ALARM_STATE' = IF want[c] THEN copy[c] \cup {h} ELSE copy[c] \ {h}
  BY DEF Store
<1>3. ASSUME NEW s \in Switch \ stray, s # h
      PROVE  s \in ALARM_STATE' <=> s \in ALARM_STATE
  BY <1>1, <1>2, <1>3 DEF Copies
<1>4. ASSUME NEW s \in Switch \ stray, s = h, c # ISR => s \notin pending
      PROVE  s \in ALARM_STATE' <=> Reading(s)
  BY <1>1, <1>2, <1>4 DEF Wants
<1>5. ASSUME NEW d \in Context, NEW s \in Switch \ stray, d # c, pc[d] = "store"
      PROVE  s # h
  <2>1. c < d
    BY <1>1, <1>5, Urgency, RunsAlone
  <2>2. Has(c, h)
    BY <1>1, ElemsOfTail DEF Has
  <2> QED
    BY <1>5, <2>1, <2>2 DEF Overtakes, Outdates
<1> QED
  BY <1>3, <1>4, <1>5

\* Storing the word, and with it the end of a bit that is no alarm.
LEMMA StoreSteps ==
  ASSUME StepInv, NEW c \in Context, Store(c)
  PROVE  StepsKept
<1> DEFINE h == Head(todo[c])
<1>1. /\ pc[c] = "store" /\ Runs(c) /\ Typed
      /\ UNCHANGED <<input, SW_Type, pending, stray>>
  BY DEF Store, At, worldVars, StepInv
<1>2. CASE Finish(c)
  BY <1>1, <1>2, StoreWrites, EndSteps
<1>3. CASE Go(c, "latch") /\ UNCHANGED <<todo, want, copy>>
  <2> USE DEF StepInv
  <2>1. pc'[c] = "latch" /\ \A d \in Context : d # c => pc'[d] = pc[d]
    BY <1>3 DEF Go, Typed, TypeOK
  <2>2. \A s : Reading(s)' = Reading(s)
    BY <1>1 DEF Reading
  <2>3. \A d \in Context : \A b : Has(d, b)' <=> Has(d, b)
    BY <1>3 DEF Has
  <2>4. Copies'
    BY <1>1, <1>3, <2>1, StoreWrites DEF Copies
  <2>5. Wants'
    BY <1>1, <1>3, <2>1, <2>2 DEF Wants
  <2>6. Overtakes'
    BY <1>1, <1>3, <2>1, <2>3 DEF Overtakes, Outdates
  <2>7. Told'
    <3> SUFFICES ASSUME NEW s \in Switch \ stray, Still(s)'
                 PROVE  s \in ALARM_STATE' <=> Reading(s)
      BY <1>1, <2>2 DEF Told
    <3>1. CASE s = h
      <4>1. c # ISR => s \notin pending
        BY <1>1, RunsAlone
      <4> QED
        BY <3>1, <4>1, StoreWrites
    <3>2. CASE s # h
      <4>1. \A d \in Context : Past(d, s)' => Past(d, s)
        BY <1>3, <2>1, <3>2 DEF Past
      <4>2. Still(s)
        BY <1>1, <2>3, <4>1, Urgency DEF Still
      <4>3. s \in ALARM_STATE <=> Reading(s)
        BY <4>2 DEF Told
      <4> QED
        BY <3>2, <4>3, StoreWrites
    <3> QED
      BY <3>1, <3>2
  <2> QED
    BY <2>4, <2>5, <2>6, <2>7 DEF StepsKept
<1> QED
  BY <1>2, <1>3 DEF Store

\* Latching.
LEMMA LatchSteps ==
  ASSUME StepInv, NEW c \in Context, LatchLoad(c) \/ LatchStore(c)
  PROVE  StepsKept
<1> USE DEF StepInv
<1>1. CASE LatchLoad(c)
  <2>1. /\ pc[c] = "latch" /\ pc'[c] = "latched"
        /\ \A d \in Context : d # c => pc'[d] = pc[d] /\ copy'[d] = copy[d]
        /\ UNCHANGED <<input, SW_Type, pending, ALARM_STATE, todo, want, stray>>
    BY <1>1 DEF LatchLoad, At, Go, worldVars, words, Typed, TypeOK
  <2>2. \A s : Reading(s)' = Reading(s)
    BY <2>1 DEF Reading
  <2>3. \A d \in Context : \A b : (Has(d, b)' <=> Has(d, b)) /\ (Past(d, b)' <=> Past(d, b))
    BY <2>1 DEF Has, Past
  <2>4. \A s : Still(s)' <=> Still(s)
    BY <2>1, <2>3, Urgency DEF Still
  <2>5. Copies' /\ Wants'
    BY <2>1, <2>2 DEF Copies, Wants
  <2>6. Overtakes'
    BY <2>1, <2>3 DEF Overtakes, Outdates
  <2>7. Told'
    BY <2>1, <2>2, <2>4 DEF Told
  <2> QED
    BY <2>5, <2>6, <2>7 DEF StepsKept
<1>2. CASE LatchStore(c)
  <2>1. /\ pc[c] = "latched" /\ Runs(c) /\ Finish(c) /\ ALARM_STATE' = ALARM_STATE
        /\ UNCHANGED <<input, SW_Type, pending, stray>>
    BY <1>2 DEF LatchStore, At, worldVars
  <2>2. ASSUME NEW s \in Switch \ stray, s = Head(todo[c]), c # ISR => s \notin pending,
               \A d \in Context : d # c => (Has(d, s) => Past(d, s))
        PROVE  s \in ALARM_STATE <=> Reading(s)
    <3>1. Past(c, s)
      BY <2>1, <2>2 DEF Past
    <3>2. Still(s)
      BY <2>2, <3>1 DEF Still
    <3> QED
      BY <3>2 DEF Told
  <2> QED
    BY <2>1, <2>2, EndSteps
<1> QED
  BY <1>1, <1>2

\* A context that begins: what it does to the queues, and what it makes stray.
LEMMA BeginSteps ==
  ASSUME StepInv, NEW c \in Context, pc[c] = "idle",
         NEW q \in Queue \ {<<>>}, NEW where \in {"read", "load"}, Begin(c, q, where),
         where = "load" => Head(q) \notin Switch,
         NEW S \in SUBSET Switch, S = Elems(q) \cap Switch, stray' = Overtaken(S),
         UNCHANGED <<input, pending, ALARM_STATE, copy>>,
         \A d \in Context : d # c => want'[d] = want[d],
         \A s \in Switch \ S : SW_Type'[s] = SW_Type[s],
         SW_Type' # SW_Type => pc[ISR] = "idle" /\ c # ISR
  PROVE  StepsKept
<1> USE DEF StepInv
<1>1. /\ pc'[c] = where /\ todo'[c] = q
      /\ \A d \in Context : d # c => pc'[d] = pc[d] /\ todo'[d] = todo[d]
  BY DEF Begin, Go, Typed, TypeOK
<1>2. \A s \in Switch \ S : Reading(s)' <=> Reading(s)
  BY DEF Reading
<1>3. \A s \in Switch : s \in stray' <=>
        \/ s \in stray /\ s \notin S
        \/ s \in S /\ \E d \in Context : Outdates(d, s)
  BY DEF Overtaken
<1>4. ASSUME NEW d \in Context, NEW s \in Switch, Outdates(d, s)'
      PROVE  d # c /\ Outdates(d, s)
  <2>1. d # c
    BY <1>1, <1>4 DEF Outdates
  <2> QED
    BY <1>1, <1>4, <2>1 DEF Outdates
<1>5. Copies'
  <2> SUFFICES ASSUME NEW d \in Context, NEW s \in Switch \ stray',
                      pc'[d] = "store", Head(todo'[d]) # s
               PROVE  s \in copy[d] <=> s \in ALARM_STATE
    BY DEF Copies
  <2>1. d # c
    BY <1>1
  <2>2. Outdates(d, s) /\ pc[d] = "store" /\ Head(todo[d]) # s
    BY <1>1, <2>1 DEF Outdates
  <2>3. s \notin stray
    BY <1>3, <2>2
  <2> QED
    BY <2>2, <2>3 DEF Copies
<1>6. Wants'
  <2> SUFFICES ASSUME NEW d \in Context, NEW s \in Switch \ stray',
                      pc'[d] \in {"load", "store"}, Head(todo'[d]) = s,
                      d # ISR => s \notin pending
               PROVE  want'[d] <=> Reading(s)'
    BY DEF Wants
  <2>1. d # c
    BY <1>1
  <2>2. Outdates(d, s) /\ pc[d] \in {"load", "store"} /\ Head(todo[d]) = s
    BY <1>1, <2>1 DEF Outdates
  <2>3. s \notin stray /\ s \notin S
    BY <1>3, <2>2
  <2> QED
    BY <1>2, <2>1, <2>2, <2>3 DEF Wants
<1>7. Overtakes'
  <2> SUFFICES ASSUME NEW e \in Context, NEW d \in Context, NEW s \in Switch,
                      d < e, Outdates(e, s)', Has(d, s)'
               PROVE  s \in stray'
    BY DEF Overtakes
  <2>1. Outdates(e, s)
    BY <1>4
  <2>2. CASE s \in S
    BY <1>3, <2>1, <2>2
  <2>3. CASE s \notin S
    <3>1. d # c
      BY <1>1, <2>3 DEF Has
    <3>2. Has(d, s)
      BY <1>1, <3>1 DEF Has
    <3> QED
      BY <1>3, <2>1, <2>3, <3>2 DEF Overtakes
  <2> QED
    BY <2>2, <2>3
<1>8. Told'
  <2> SUFFICES ASSUME NEW s \in Switch \ stray', Still(s)'
               PROVE  s \in ALARM_STATE <=> Reading(s)'
    BY DEF Told
  <2>1. ~ Past(c, s)' /\ ~ Past(c, s)
    BY <1>1 DEF Past
  <2>2. s \notin S
    BY <1>1, <2>1 DEF Still, Has
  <2>3. \A d \in Context : (Past(d, s)' <=> Past(d, s))
    BY <1>1, <2>1 DEF Past
  <2>4. \A d \in Context : Has(d, s) => Past(d, s)
    <3>1. ~ Has(c, s)
      BY ElemsOfQueues DEF Has, Typed, TypeOK
    <3> QED
      BY <1>1, <2>3, <3>1 DEF Still, Has
  <2>5. Still(s)
    BY <2>3, <2>4, Urgency DEF Still
  <2>6. s \notin stray
    BY <1>3, <2>2
  <2> QED
    BY <1>2, <2>2, <2>5, <2>6 DEF Told
<1> QED
  BY <1>5, <1>6, <1>7, <1>8 DEF StepsKept

\* The three beginnings.
LEMMA InterruptSteps ==
  ASSUME StepInv, NEW s \in Switch, Interrupt(s)
  PROVE  StepsKept
<1>1. <<s>> \in Queue \ {<<>>} /\ Elems(<<s>>) \cap Switch = {s} /\ {s} \in SUBSET Switch
  BY ElemsOfQueues DEF Queue, Bit
<1>2. ISR \in Context /\ Typed
  BY Urgency DEF StepInv
<1>3. /\ pc[ISR] = "idle" /\ Begin(ISR, <<s>>, "read") /\ stray' = Overtaken({s})
      /\ UNCHANGED <<input, SW_Type, pending, ALARM_STATE, want, copy>>
  BY DEF Interrupt, worldVars, words
<1> QED
  BY <1>1, <1>2, <1>3, BeginSteps

LEMMA ConfirmSteps ==
  ASSUME StepInv, NEW on \in BOOLEAN, Confirm(on)
  PROVE  StepsKept
<1>1. <<FENCE>> \in Queue \ {<<>>} /\ Elems(<<FENCE>>) \cap Switch = {} /\ Head(<<FENCE>>) \notin Switch
  BY ElemsOfQueues, Urgency DEF Queue, Bit
<1>2. WATCH \in Context /\ Typed
  BY Urgency DEF StepInv
<1>3. /\ pc[WATCH] = "idle" /\ Begin(WATCH, <<FENCE>>, "load") /\ stray' = Overtaken({})
      /\ UNCHANGED <<input, SW_Type, pending, ALARM_STATE, copy>>
  BY DEF Confirm, At, worldVars, words, Overtaken
<1>4. \A d \in Context : d # WATCH => want'[d] = want[d]
  BY <1>2 DEF Confirm, Typed, TypeOK
<1> QED
  BY <1>1, <1>2, <1>3, <1>4, BeginSteps

LEMMA SetSWValueSteps ==
  ASSUME StepInv, NEW t \in Setter, NEW used \in SUBSET Switch, SetSWValue(t, used)
  PROVE  StepsKept
<1>1. Both \in Queue \ {<<>>} /\ Elems(Both) \cap Switch = Switch
  BY ElemsOfQueues, BothSwitches DEF Queue
<1>2. t \in Context /\ t # ISR /\ Typed
  BY Urgency DEF StepInv
<1>3. /\ pc[t] = "idle" /\ Runs(t) /\ Begin(t, Both, "read") /\ stray' = Overtaken(Switch)
      /\ UNCHANGED <<input, pending, ALARM_STATE, want, copy>>
  BY DEF SetSWValue, At, words
<1>4. pc[ISR] = "idle"
  BY <1>2, <1>3, RunsAlone
<1> QED
  BY <1>1, <1>2, <1>3, <1>4, BeginSteps

\* The end of a handler: the pending bit goes with what it stood for.
LEMMA ClearSteps ==
  ASSUME StepInv, ClearITPendingBit
  PROVE  StepsKept
<1> USE DEF StepInv
<1> DEFINE h == Head(todo[ISR])
<1>1. /\ pc[ISR] = "clear" /\ pc'[ISR] = "idle" /\ todo'[ISR] = <<>>
      /\ \A d \in Context : d # ISR => pc'[d] = pc[d] /\ todo'[d] = todo[d]
      /\ pending' = pending \ {h}
      /\ UNCHANGED <<input, SW_Type, ALARM_STATE, want, copy, stray>>
  BY Urgency DEF ClearITPendingBit, Begin, Go, worldVars, words, Typed, TypeOK
<1>2. \A s : Reading(s)' = Reading(s)
  BY <1>1 DEF Reading
<1>3. Has(ISR, h) /\ \A b : ~ Has(ISR, b)'
  <2>1. todo[ISR] \in Queue /\ todo[ISR] # <<>>
    BY <1>1, Urgency DEF Typed, TypeOK
  <2> QED
    BY <1>1, <2>1, ElemsOfTail, ElemsOfQueues DEF Has
<1>4. \A d \in Context : \A b : d # ISR =>
        (Has(d, b)' <=> Has(d, b)) /\ (Past(d, b)' <=> Past(d, b))
  BY <1>1 DEF Has, Past
<1>5. Copies'
  BY <1>1 DEF Copies
<1>6. Wants'
  <2> SUFFICES ASSUME NEW d \in Context, NEW s \in Switch \ stray,
                      pc'[d] \in {"load", "store"}, Head(todo'[d]) = s,
                      d # ISR => s \notin pending'
               PROVE  want[d] <=> Reading(s)
    BY <1>1, <1>2 DEF Wants
  <2>1. d # ISR /\ pc[d] \in {"load", "store"} /\ Head(todo[d]) = s /\ ISR < d
    BY <1>1, Urgency
  <2>2. Outdates(d, s)
    BY <2>1 DEF Outdates
  <2>3. s # h
    BY <1>3, <2>1, <2>2, Urgency DEF Overtakes
  <2> QED
    BY <1>1, <2>1, <2>3 DEF Wants
<1>7. Overtakes'
  BY <1>1, <1>3, <1>4 DEF Overtakes, Outdates
<1>8. Told'
  <2> SUFFICES ASSUME NEW s \in Switch \ stray, Still(s)'
               PROVE  s \in ALARM_STATE <=> Reading(s)
    BY <1>1, <1>2 DEF Told
  <2>1. ~ Past(ISR, s)'
    BY <1>1 DEF Past
  <2>2. s \in pending => Past(ISR, s)
    BY <1>1, <2>1 DEF Still, Past
  <2>3. Has(ISR, s) => Past(ISR, s)
    BY <1>1 DEF Has, Past, Single
  <2>4. Still(s)
    BY <1>4, <2>2, <2>3 DEF Still
  <2> QED
    BY <2>4 DEF Told
<1> QED
  BY <1>5, <1>6, <1>7, <1>8 DEF StepsKept

LEMMA SampleSteps ==
  ASSUME StepInv, NEW z \in {"A", "B"}, Sample(z)
  PROVE  StepsKept
<1> USE DEF StepInv
<1>1. /\ pending \subseteq pending' /\ Runs(WATCH)
      /\ UNCHANGED <<input, SW_Type, ALARM_STATE, todo, pc, want, copy, stray>>
  BY DEF Sample, At, words
<1>2. \A s : Reading(s)' = Reading(s)
  BY <1>1 DEF Reading
<1>3. \A d \in Context : \A b : (Has(d, b)' <=> Has(d, b)) /\ (Past(d, b)' <=> Past(d, b))
  BY <1>1 DEF Has, Past
<1>4. \A s : Still(s)' => Still(s)
  BY <1>1, <1>3, Urgency DEF Still
<1>5. Copies' /\ Wants'
  BY <1>1, <1>2 DEF Copies, Wants
<1>6. Overtakes'
  BY <1>1, <1>3 DEF Overtakes, Outdates
<1>7. Told'
  BY <1>1, <1>2, <1>4 DEF Told
<1> QED
  BY <1>5, <1>6, <1>7 DEF StepsKept

\* An input that moves, or a type that is edited, is stray unless a handler is
\* still to read it.
LEMMA WorldSteps ==
  ASSUME StepInv, NEW s \in Switch, pending \subseteq pending', stray \subseteq stray',
         UNCHANGED <<ALARM_STATE, todo, pc, want, copy>>,
         \A r \in Switch \ {s} : (Reading(r)' <=> Reading(r)),
         s \in stray' \/ (s \in pending' /\ ~ HasRead(s))
  PROVE  StepsKept
<1> USE DEF StepInv
<1>1. \A d \in Context : \A b : (Has(d, b)' <=> Has(d, b)) /\ (Past(d, b)' <=> Past(d, b))
  BY DEF Has, Past
<1>2. \A r : Still(r)' => Still(r)
  BY <1>1, Urgency DEF Still
<1>3. Copies'
  BY DEF Copies
<1>4. Wants'
  <2> SUFFICES ASSUME NEW d \in Context, NEW r \in Switch \ stray',
                      pc[d] \in {"load", "store"}, Head(todo[d]) = r,
                      d # ISR => r \notin pending'
               PROVE  want[d] <=> Reading(r)'
    BY DEF Wants
  <2>1. r # s
    BY DEF HasRead
  <2> QED
    BY <2>1 DEF Wants
<1>5. Overtakes'
  BY <1>1 DEF Overtakes, Outdates
<1>6. Told'
  <2> SUFFICES ASSUME NEW r \in Switch \ stray', Still(r)'
               PROVE  r \in ALARM_STATE <=> Reading(r)'
    BY DEF Told
  <2>1. r # s
    BY <1>1, Urgency DEF Still, Past, HasRead
  <2> QED
    BY <1>2, <2>1 DEF Told
<1> QED
  BY <1>3, <1>4, <1>5, <1>6 DEF StepsKept

LEMMA EditSteps ==
  ASSUME StepInv, NEW s \in Switch, EditType(s)
  PROVE  StepsKept
<1>1. /\ stray' = stray \cup {s}
      /\ UNCHANGED <<input, pending, ALARM_STATE, todo, pc, want, copy>>
      /\ \A r \in Switch \ {s} : SW_Type'[r] = SW_Type[r]
  BY DEF EditType, words, StepInv, Typed, TypeOK
<1>2. \A r \in Switch \ {s} : (Reading(r)' <=> Reading(r))
  BY <1>1 DEF Reading
<1> QED
  BY <1>1, <1>2, WorldSteps

LEMMA EdgeSteps ==
  ASSUME StepInv, NEW s \in Switch, Edge(s)
  PROVE  StepsKept
<1>1. /\ pending \subseteq pending' /\ stray \subseteq stray'
      /\ s \in stray' \/ (s \in pending' /\ ~ HasRead(s))
      /\ UNCHANGED <<SW_Type, ALARM_STATE, todo, pc, want, copy>>
      /\ \A r \in Switch \ {s} : input'[r] = input[r]
  BY DEF Edge, words, StepInv, Typed, TypeOK
<1>2. \A r \in Switch \ {s} : (Reading(r)' <=> Reading(r))
  BY <1>1 DEF Reading
<1> QED
  BY <1>1, <1>2, WorldSteps

LEMMA UnchangedSteps ==
  ASSUME StepInv, UNCHANGED <<input, SW_Type, pending, ALARM_STATE, todo, pc, want, copy, stray>>
  PROVE  StepsKept
BY DEF StepInv, StepsKept, Copies, Wants, Overtakes, Told, Outdates, Has, Still, Past, Reading

\* Only the interrupt level writes its queue, one switch at a time.
LEMMA SingleKept ==
  ASSUME Typed, Single, [Next]_vars
  PROVE  Single'
<1>1. ASSUME NEW c \in Context, Access(c)
      PROVE  Single'
  <2>1. pc[c] # "idle" /\ (UNCHANGED todo \/ Finish(c))
    BY <1>1 DEF Access, Read, Load, Store, LatchLoad, LatchStore, At
  <2>2. todo'[ISR] = todo[ISR]
    BY <2>1, Finishes, Urgency
  <2> QED
    BY <2>2 DEF Single
<1>2. ASSUME NEW s \in Switch, Interrupt(s)
      PROVE  Single'
  <2>1. todo'[ISR] = <<s>>
    BY <1>2, Urgency DEF Interrupt, Begin, Typed, TypeOK
  <2>2. Elems(<<s>>) = {s} /\ Head(<<s>>) = s
    BY ElemsOfQueues DEF Bit
  <2> QED
    BY <2>1, <2>2 DEF Single
<1>3. CASE ClearITPendingBit
  <2>1. todo'[ISR] = <<>>
    BY <1>3, Urgency DEF ClearITPendingBit, Begin, Typed, TypeOK
  <2> QED
    BY <2>1, ElemsOfQueues DEF Single
<1>4. ASSUME NEW on \in BOOLEAN, Confirm(on)
      PROVE  Single'
  <2>1. todo'[ISR] = todo[ISR]
    BY <1>4, Urgency DEF Confirm, Begin, Typed, TypeOK
  <2> QED
    BY <2>1 DEF Single
<1>5. ASSUME NEW t \in Setter, NEW used \in SUBSET Switch, SetSWValue(t, used)
      PROVE  Single'
  <2>1. todo'[ISR] = todo[ISR]
    BY <1>5, Urgency DEF SetSWValue, Begin, Typed, TypeOK
  <2> QED
    BY <2>1 DEF Single
<1>6. CASE UNCHANGED todo
  BY <1>6 DEF Single
<1> QED
  BY <1>1, <1>2, <1>3, <1>4, <1>5, <1>6 DEF Next, Sample, EditType, Edge, Fence, vars

LEMMA StepInvKept == StepInv /\ [Next]_vars => StepInv'
<1> SUFFICES ASSUME StepInv, [Next]_vars
             PROVE  StepInv'
  OBVIOUS
<1>1. ASSUME NEW c \in Context, Access(c)
      PROVE  StepsKept
  BY <1>1, ReadSteps, LoadSteps, StoreSteps, LatchSteps DEF Access
<1>2. ASSUME Fence \/ UNCHANGED vars
      PROVE  StepsKept
  BY <1>2, UnchangedSteps DEF Fence, vars, worldVars, words
<1>3. StepsKept
  BY <1>1, <1>2, InterruptSteps, ConfirmSteps, SetSWValueSteps, ClearSteps, SampleSteps,
     EditSteps, EdgeSteps DEF Next
<1>4. Typed' /\ Single'
  BY NextTyped, SingleKept DEF StepInv
<1> QED
  BY <1>3, <1>4 DEF StepInv, StepsKept

\* A switch is told as it reads unless its last update was overtaken, for both
\* wirings, and whoever calls setSWValue: SwitchInStep.
THEOREM SwitchToldAsRead == Spec => []SwitchInStep
<1>1. Init => StepInv
  <2> SUFFICES ASSUME Init
               PROVE  Single /\ Copies /\ Wants /\ Overtakes /\ Told
    BY InitTyped DEF StepInv
  <2>1. \A c \in Context : pc[c] = "idle" /\ todo[c] = <<>>
    BY DEF Init
  <2>2. \A c \in Context : \A b : ~ Has(c, b)
    BY <2>1, ElemsOfQueues DEF Has
  <2>3. Single
    BY <2>2, Urgency DEF Single, Has
  <2>4. Copies /\ Wants /\ Overtakes
    BY <2>1, <2>2 DEF Copies, Wants, Overtakes
  <2>5. \A s \in Switch : s \in ALARM_STATE <=> Reading(s)
    BY DEF Init, Reading
  <2> QED
    BY <2>3, <2>4, <2>5 DEF Told
<1>2. StepInv => SwitchInStep
  <2> SUFFICES ASSUME StepInv, NEW s \in Switch \ stray, Quiet(s)
               PROVE  s \in ALARM_STATE <=> SW_Type[s] /\ input[s]
    BY DEF SwitchInStep
  <2>1. \A c \in Context : ~ Has(c, s)
    BY DEF Quiet, Has, Elems
  <2>2. Still(s)
    BY <2>1 DEF Still, Quiet
  <2> QED
    BY <2>2 DEF StepInv, Told, Reading
<1> QED
  BY <1>1, <1>2, StepInvKept, PTL DEF Spec
=============================================================================
