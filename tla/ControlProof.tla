---------------------------- MODULE ControlProof ----------------------------
(***************************************************************************)
(* What the operators' tasks do to each other, whichever tasks there are   *)
(* and however many requests they serve.                                   *)
(*                                                                         *)
(* The bus is never used without its mutex: a task that stands before an   *)
(* access to the bus owns it.  So it is in every handler as it begins,     *)
(* because each such access comes after another one or after the pend.     *)
(*                                                                         *)
(* What is set is stored, and the lamp tells it: a handler that has        *)
(* changed a flag still has its lamp and its save before it, and what it   *)
(* is about to set or to store is right unless it has been overtaken.      *)
(*                                                                         *)
(* And nobody waits in vain: who has the bus never waits itself, because a *)
(* handler that has taken it does nothing else until it gives it back,     *)
(* but for the one that the sensor has left without an acknowledgement.    *)
(***************************************************************************)
EXTENDS Control, SequenceTheorems, TLAPS

OnFlag == {"on", "off", "lampOn", "lampOther", "copy", "again"}
OnBus == {"write", "erase", "sense"}
Held == OnBus \cup {"post"}

\* An access as the handlers are made of; those to a flag name one.
Item == {x \in [do : Accesses, flag : Flag \cup {""}] : x.do \in OnFlag => x.flag \in Flag}

\* What is left of a handler: accesses to the bus follow upon the pend.
Program ==
  {p \in Seq(Item) : \A i \in 2..Len(p) :
     p[i].do \in Held => p[i - 1].do \in OnBus \cup {"pend"}}

\* A handler, or a part of one, that takes the bus itself if it needs it.
Whole == {p \in Program : p # <<>> => p[1].do \notin Held}

LEMMA WholeSingle ==
  ASSUME NEW x \in Item, x.do \notin Held
  PROVE  <<x>> \in Whole
<1>1. <<x>> \in Seq(Item) /\ Len(<<x>>) = 1 /\ <<x>>[1] = x
  OBVIOUS
<1> QED
  BY <1>1 DEF Whole, Program

LEMMA WholeEmpty == <<>> \in Whole
<1>1. <<>> \in Seq(Item) /\ Len(<<>>) = 0
  OBVIOUS
<1> QED
  BY <1>1 DEF Whole, Program

\* Parts put together.
LEMMA WholeConcat ==
  ASSUME NEW p \in Program, NEW q \in Whole
  PROVE  /\ p \o q \in Program
         /\ p \in Whole => p \o q \in Whole
<1>1. p \in Seq(Item) /\ q \in Seq(Item)
  BY DEF Whole, Program
<1>2. /\ p \o q \in Seq(Item)
      /\ Len(p) \in Nat /\ Len(q) \in Nat
      /\ Len(p \o q) = Len(p) + Len(q)
      /\ \A i \in 1 .. Len(p) + Len(q) :
           (p \o q)[i] = IF i <= Len(p) THEN p[i] ELSE q[i - Len(p)]
  BY <1>1, ConcatProperties, LenProperties
<1>3. ASSUME NEW i \in 2 .. Len(p \o q), (p \o q)[i].do \in Held
      PROVE  (p \o q)[i - 1].do \in OnBus \cup {"pend"}
  <2>1. CASE i <= Len(p)
    BY <1>2, <1>3, <2>1 DEF Program
  <2>2. CASE i = Len(p) + 1
    <3>1. (p \o q)[i] = q[1] /\ q # <<>>
      BY <1>1, <1>2, <2>2, EmptySeq
    <3> QED
      BY <1>3, <3>1 DEF Whole
  <2>3. CASE i > Len(p) + 1
    <3>1. (p \o q)[i] = q[i - Len(p)] /\ (p \o q)[i - 1] = q[i - Len(p) - 1]
      BY <1>2, <2>3
    <3>2. i - Len(p) \in 2 .. Len(q)
      BY <1>2, <2>3
    <3> QED
      BY <1>3, <3>1, <3>2 DEF Whole, Program
  <2> QED
    BY <1>2, <2>1, <2>2, <2>3
<1>4. p \o q \in Program
  BY <1>2, <1>3 DEF Program
<1>5. ASSUME p \in Whole, p \o q # <<>>
      PROVE  (p \o q)[1].do \notin Held
  <2>1. CASE p = <<>>
    BY <1>1, <1>5, <2>1, ConcatEmptySeq DEF Whole
  <2>2. CASE p # <<>>
    <3>1. Len(p) >= 1
      BY <1>1, <2>2, EmptySeq
    <3> QED
      BY <1>2, <1>5, <2>2, <3>1 DEF Whole
  <2> QED
    BY <2>1, <2>2
<1> QED
  BY <1>4, <1>5 DEF Whole

\* What is left after the first access.
LEMMA ProgramTail ==
  ASSUME NEW p \in Program, p # <<>>
  PROVE  /\ Head(p) \in Item
         /\ Head(p) = p[1]
         /\ Tail(p) \in Program
         /\ p[1].do \notin OnBus \cup {"pend"} => Tail(p) \in Whole
<1>1. p \in Seq(Item)
  BY DEF Program
<1>2. /\ Head(p) \in Item /\ Tail(p) \in Seq(Item)
      /\ Head(p) = p[1]
      /\ Len(p) \in Nat /\ Len(p) >= 1
      /\ Len(Tail(p)) = Len(p) - 1
      /\ \A i \in 1 .. Len(Tail(p)) : Tail(p)[i] = p[i + 1]
  BY <1>1, HeadTailProperties, EmptySeq
<1>3. ASSUME NEW i \in 2 .. Len(Tail(p)), Tail(p)[i].do \in Held
      PROVE  Tail(p)[i - 1].do \in OnBus \cup {"pend"}
  <2>1. Tail(p)[i] = p[i + 1] /\ Tail(p)[i - 1] = p[i] /\ i + 1 \in 2 .. Len(p)
    BY <1>2
  <2> QED
    BY <1>3, <2>1 DEF Program
<1>4. ASSUME Tail(p) # <<>>, Tail(p)[1].do \in Held
      PROVE  p[1].do \in OnBus \cup {"pend"}
  <2>1. Len(Tail(p)) >= 1
    BY <1>2, <1>4, EmptySeq
  <2>2. Tail(p)[1] = p[2] /\ 2 \in 2 .. Len(p)
    BY <1>2, <2>1
  <2> QED
    BY <1>4, <2>2 DEF Program
<1> QED
  BY <1>2, <1>3, <1>4 DEF Whole, Program

LEMMA Items ==
  ASSUME NEW what \in Accesses, NEW f \in Flag \cup {""}, what \in OnFlag => f \in Flag
  PROVE  Do(what, f) \in Item /\ Do(what, f).do = what
BY DEF Do, Item

LEMMA TransferWhole ==
  ASSUME NEW what \in OnBus
  PROVE  Transfer(what) \in Whole
<1> DEFINE x == Do("pend", "")
           y == Do(what, "")
           z == Do("post", "")
           p == <<x, y, z>>
<1>1. x \in Item /\ y \in Item /\ z \in Item
  <2>1. "pend" \in Accesses /\ what \in Accesses /\ "post" \in Accesses
    BY DEF Accesses, OnBus
  <2>2. "pend" \notin OnFlag /\ what \notin OnFlag /\ "post" \notin OnFlag
    BY DEF OnFlag, OnBus
  <2> QED
    BY <2>1, <2>2, Items
<1>2. x.do = "pend" /\ y.do = what /\ z.do = "post"
  BY DEF Do
<1> HIDE DEF x, y, z
<1>3. Len(p) = 3 /\ p[1] = x /\ p[2] = y /\ p[3] = z
  OBVIOUS
<1>4. p \in Seq(Item)
  BY <1>1
<1>5. \A i \in 2..3 : i - 1 = 1 \/ i - 1 = 2
  OBVIOUS
<1>6. \A i \in 2..3 : p[i - 1].do \in OnBus \cup {"pend"}
  BY <1>2, <1>3, <1>5
<1> HIDE DEF p
<1>7. p \in Program
  BY <1>3, <1>4, <1>6 DEF Program
<1>8. p[1].do \notin Held
  BY <1>2, <1>3 DEF Held, OnBus
<1>9. p \in Whole
  BY <1>7, <1>8 DEF Whole
<1> QED
  BY <1>9 DEF Transfer, p, x, y, z

LEMMA SingleWhole ==
  ASSUME NEW what \in Accesses \ Held, NEW f \in Flag \cup {""}, what \in OnFlag => f \in Flag
  PROVE  <<Do(what, f)>> \in Whole
BY Items, WholeSingle

LEMMA SaveWhole == WriteControlParaToEEProm \in Whole
<1>1. <<Do("byte", "")>> \in Whole /\ Transfer("write") \in Whole
  BY SingleWhole, TransferWhole DEF Accesses, Held, OnBus, OnFlag
<1> QED
  BY <1>1, WholeConcat DEF Whole, WriteControlParaToEEProm

LEMMA StartStopWhole ==
  ASSUME NEW f \in Flag
  PROVE  Start(f) \in Whole /\ Stop(f) \in Whole
<1>1. <<Do("on", f)>> \in Whole /\ <<Do("off", f)>> \in Whole
  BY SingleWhole DEF Accesses, Held, OnBus, OnFlag
<1>2. Lamp("lampOn", f) \in Whole /\ Lamp("lampOther", f) \in Whole
  BY SingleWhole, WholeEmpty DEF Lamp, Accesses, Held, OnBus, OnFlag
<1>3. /\ <<Do("on", f)>> \o Lamp("lampOn", f) \in Whole
      /\ <<Do("off", f)>> \o Lamp("lampOther", f) \in Whole
  BY <1>1, <1>2, WholeConcat DEF Whole
<1> QED
  BY <1>3, SaveWhole, WholeConcat DEF Whole, Start, Stop

LEMMA EachWhole ==
  ASSUME NEW S \in SUBSET Flag, NEW what \in {"off", "copy"}
  PROVE  Each(what, S) \in Whole
<1>1. \A f \in {"FC", "A", "B"} : DoIf(f, S, what) \in Whole
  BY SingleWhole, WholeEmpty DEF DoIf, Accesses, Held, OnBus, OnFlag
<1>2. DoIf("FC", S, what) \o DoIf("A", S, what) \in Whole
  BY <1>1, WholeConcat DEF Whole
<1> QED
  BY <1>1, <1>2, WholeConcat DEF Whole, Each

\* Every handler takes the bus itself.
LEMMA HandlersWhole ==
  /\ \A f \in Flag : Start(f) \in Whole /\ Stop(f) \in Whole
  /\ {Shutdown, PowerOn, systemDefault, LM75_ReadTemp, SavePage} \subseteq Whole
<1>1. /\ <<Do("down", "")>> \in Whole /\ <<Do("dark", "")>> \in Whole
      /\ <<Do("reset", "")>> \in Whole /\ <<Do("leave", "")>> \in Whole
  BY SingleWhole DEF Accesses, Held, OnBus, OnFlag
<1>2. Each("off", Flag) \in Whole /\ Each("copy", Flag) \in Whole
  BY EachWhole
<1>3. Transfer("erase") \in Whole /\ Transfer("sense") \in Whole
  BY TransferWhole DEF OnBus
<1>4. <<Do("down", "")>> \o Each("off", Flag) \in Whole
  BY <1>1, <1>2, WholeConcat DEF Whole
<1>5. Shutdown \in Whole
  BY <1>1, <1>4, WholeConcat DEF Whole, Shutdown
<1>6. systemDefault \in Whole /\ SavePage \in Whole
  BY <1>1, <1>2, <1>3, WholeConcat DEF Whole, systemDefault, SavePage
<1> QED
  BY <1>1, <1>3, <1>5, <1>6, StartStopWhole DEF PowerOn, LM75_ReadTemp

-----------------------------------------------------------------------------
(* The invariant                                                           *)

\* Who waits for the mutex has its pend before it.
Queued == \A c \in waiting : prog[c] # <<>> /\ Head(prog[c]).do = "pend"

Progs == prog \in [Task -> Program]

IInv == TypeOK /\ Progs /\ BusGuarded /\ Queued

LEMMA Tasks == Task \subseteq {3, 5, 6, 7} /\ LCD \in Task /\ NOBODY \notin Task
BY ControlAssumption DEF Task, LCD, WEB, TCP, WATCH, NOBODY

\* Types alone do not need the order of the accesses; programs have them.
LEMMA ProgramsTyped ==
  ASSUME NEW p \in Program
  PROVE  p \in Seq([do : Accesses, flag : Flag \cup {""}])
<1>1. Item \subseteq [do : Accesses, flag : Flag \cup {""}] /\ p \in Seq(Item)
  BY DEF Item, Program
<1> QED
  BY <1>1, SeqMonotonic

\* The first access of a task that runs, and what is left after it.
LEMMA DueItem ==
  ASSUME IInv, NEW c \in Task, NEW what, Step(c, what)
  PROVE  /\ prog[c] # <<>> /\ c \notin waiting
         /\ Due(c) \in Item /\ Due(c).do = what
         /\ what \in OnFlag => Due(c).flag \in Flag
         /\ Tail(prog[c]) \in Program
         /\ what \notin OnBus \cup {"pend"} => Tail(prog[c]) \in Whole
<1>1. prog[c] \in Program /\ prog[c] # <<>> /\ c \notin waiting /\ Due(c).do = what
  BY DEF IInv, Progs, Step, Runs, Ready
<1> QED
  BY <1>1, ProgramTail DEF Due, Item

LEMMA WholeHead ==
  ASSUME NEW p \in Whole, p # <<>>
  PROVE  Head(p).do \notin Held
<1>1. p \in Program
  BY DEF Whole
<1> QED
  BY <1>1, ProgramTail DEF Whole

\* A task that takes up a new program, or goes on with one that begins
\* outside the bus, while the mutex stays as it is.
LEMMA TakesUp ==
  ASSUME IInv, NEW c \in Task, c \notin waiting, NEW p \in Whole,
         prog' = [prog EXCEPT ![c] = p], UNCHANGED bus
  PROVE  Progs' /\ BusGuarded' /\ Queued'
<1>1. p \in Program
  BY DEF Whole
<1>2. Progs'
  BY <1>1 DEF IInv, Progs
<1>3. BusGuarded'
  <2> SUFFICES ASSUME NEW d \in Task, prog'[d] # <<>>, Head(prog'[d]).do \in Held
               PROVE  owner' = d
    BY DEF BusGuarded, Due, Held, OnBus
  <2>1. d # c
    BY WholeHead DEF IInv, Progs
  <2>2. prog'[d] = prog[d]
    BY <2>1 DEF IInv, Progs
  <2> QED
    BY <2>2 DEF IInv, BusGuarded, Due, bus, Held, OnBus
<1>4. Queued'
  BY DEF IInv, Progs, Queued, TypeOK, bus
<1> QED
  BY <1>2, <1>3, <1>4

\* A task that makes its transfer goes on as the owner.
LEMMA GoesOn ==
  ASSUME IInv, NEW c \in Task, NEW what \in OnBus, Step(c, what), Go(c), UNCHANGED bus
  PROVE  Progs' /\ BusGuarded' /\ Queued'
<1>1. /\ prog[c] # <<>> /\ c \notin waiting /\ Due(c).do = what
      /\ Tail(prog[c]) \in Program
  BY DueItem
<1>2. owner = c
  BY <1>1 DEF IInv, BusGuarded, OnBus
<1>3. Progs'
  BY <1>1 DEF IInv, Progs, Go
<1>4. BusGuarded'
  BY <1>2 DEF IInv, Progs, BusGuarded, Go, Due, bus
<1>5. Queued'
  BY <1>1 DEF IInv, Progs, Queued, Go, bus, TypeOK
<1> QED
  BY <1>3, <1>4, <1>5

Ordered == Progs /\ BusGuarded /\ Queued

LEMMA PendKeeps ==
  ASSUME IInv, NEW c \in Task, OSMutexPend(c), UNCHANGED asked
  PROVE  Ordered' /\ TypeOK'
<1> USE DEF IInv, Progs
<1>1. Step(c, "pend")
  BY DEF OSMutexPend
<1>2. /\ prog[c] # <<>> /\ c \notin waiting /\ Due(c).do = "pend"
      /\ Tail(prog[c]) \in Program
  BY <1>1, DueItem
<1>3. CASE owner = NOBODY
  <2>1. owner' = c /\ Go(c) /\ UNCHANGED waiting
    BY <1>3 DEF OSMutexPend
  <2>2. Progs'
    BY <1>2, <2>1 DEF Go
  <2>3. \A d \in Task : prog[d] # <<>> => Due(d).do \notin Held
    BY <1>3, Tasks DEF BusGuarded, Held, OnBus
  <2>4. BusGuarded'
    BY <2>1, <2>3 DEF BusGuarded, Go, Due, Held, OnBus
  <2>5. Queued'
    BY <1>2, <2>1 DEF Queued, Go, TypeOK
  <2>6. TypeOK'
    BY <2>1, <2>2, ProgramsTyped DEF TypeOK, OSMutexPend, host, page, past
  <2> QED
    BY <2>2, <2>4, <2>5, <2>6 DEF Ordered
<1>4. CASE owner # NOBODY
  <2>1. waiting' = waiting \cup {c} /\ UNCHANGED <<owner, prog>>
    BY <1>4 DEF OSMutexPend
  <2>2. Queued'
    BY <1>2, <2>1 DEF Queued, Due
  <2>3. TypeOK'
    BY <2>1 DEF TypeOK, OSMutexPend, host, page, past
  <2> QED
    BY <2>1, <2>2, <2>3 DEF Ordered, BusGuarded, Due
<1> QED
  BY <1>3, <1>4

LEMMA MostUrgentIn ==
  ASSUME NEW S \in SUBSET Task, S # {}
  PROVE  MostUrgent(S) \in S
<1>1. \E d \in S : \A e \in S : d <= e
  <2>1. S \subseteq {3, 5, 6, 7}
    BY Tasks
  <2>2. CASE 3 \in S
    BY <2>1, <2>2
  <2>3. CASE 3 \notin S /\ 5 \in S
    BY <2>1, <2>3
  <2>4. CASE 3 \notin S /\ 5 \notin S /\ 6 \in S
    BY <2>1, <2>4
  <2>5. CASE S = {7}
    BY <2>5
  <2> QED
    BY <2>1, <2>2, <2>3, <2>4, <2>5
<1> QED
  BY <1>1 DEF MostUrgent

\* The mutex goes to a task that waits for it, which then is on the bus.
LEMMA PostKeeps ==
  ASSUME IInv, NEW c \in Task, OSMutexPost(c), UNCHANGED asked
  PROVE  Ordered' /\ TypeOK'
<1> USE DEF IInv, Progs
<1>1. Step(c, "post")
  BY DEF OSMutexPost
<1>2. /\ prog[c] # <<>> /\ c \notin waiting /\ Due(c).do = "post"
      /\ Tail(prog[c]) \in Whole
  BY <1>1, DueItem DEF OnBus
<1>3. Tail(prog[c]) \in Program
      /\ (Tail(prog[c]) # <<>> => Head(Tail(prog[c])).do \notin Held)
  BY <1>2, WholeHead DEF Whole
<1>4. \A d \in Task : d # c /\ prog[d] # <<>> => Due(d).do \notin Held
  BY <1>2 DEF BusGuarded, Held, OnBus
<1>5. CASE waiting = {}
  <2>1. owner' = NOBODY /\ Go(c) /\ UNCHANGED waiting
    BY <1>5 DEF OSMutexPost
  <2>2. Progs'
    BY <1>3, <2>1 DEF Go
  <2>3. BusGuarded'
    BY <1>3, <1>4, <2>1 DEF BusGuarded, Go, Due, Held, OnBus
  <2>4. Queued'
    BY <1>5, <2>1 DEF Queued
  <2>5. TypeOK'
    BY <2>1, <2>2, ProgramsTyped DEF TypeOK, OSMutexPost, host, page, past
  <2> QED
    BY <2>2, <2>3, <2>4, <2>5 DEF Ordered
<1>6. CASE waiting # {}
  <2> DEFINE o == MostUrgent(waiting)
  <2>1. o \in waiting /\ o \in Task /\ o # c
    BY <1>2, <1>6, MostUrgentIn DEF TypeOK
  <2>2. prog[o] # <<>> /\ Tail(prog[o]) \in Program
    BY <2>1, ProgramTail DEF Queued
  <2>3. /\ owner' = o /\ waiting' = waiting \ {o}
        /\ prog' = [prog EXCEPT ![c] = Tail(@), ![o] = Tail(@)]
    BY <1>6 DEF OSMutexPost
  <2> HIDE DEF o
  <2>4. /\ prog' \in [Task -> Program]
        /\ prog'[c] = Tail(prog[c])
        /\ \A d \in Task \ {c, o} : prog'[d] = prog[d]
    BY <1>3, <2>1, <2>2, <2>3
  <2>5. BusGuarded'
    BY <1>3, <1>4, <2>3, <2>4 DEF BusGuarded, Due, Held, OnBus
  <2>6. Queued'
    BY <1>2, <2>3, <2>4 DEF Queued, TypeOK
  <2>7. TypeOK'
    BY <2>1, <2>3, <2>4, ProgramsTyped DEF TypeOK, OSMutexPost, host, page, past
  <2> QED
    BY <2>4, <2>5, <2>6, <2>7 DEF Ordered
<1> QED
  BY <1>5, <1>6

LEMMA ProgsTyped ==
  ASSUME Progs'
  PROVE  prog' \in [Task -> Seq([do : Accesses, flag : Flag \cup {""}])]
BY ProgramsTyped DEF Progs

\* The step of a task that makes an access outside the bus and goes on.
LEMMA Advances ==
  ASSUME IInv, NEW c \in Task, NEW what \in Accesses \ (OnBus \cup {"pend"}),
         Step(c, what), Go(c), UNCHANGED bus
  PROVE  Ordered'
<1>1. c \notin waiting /\ Tail(prog[c]) \in Whole
  BY DueItem
<1>2. prog' = [prog EXCEPT ![c] = Tail(prog[c])]
  BY DEF Go, IInv, Progs
<1> QED
  BY <1>1, <1>2, TakesUp DEF Ordered

\* What a test yields is a Boolean.
LEMMA MemberIsTruth ==
  ASSUME NEW x, NEW y, NEW S, x = (y \in S)
  PROVE  x \in BOOLEAN
BY SMT

LEMMA DifferIsTruth ==
  ASSUME NEW x, NEW y, NEW z, x = (y # z)
  PROVE  x \in BOOLEAN
BY Zenon

LEMMA AccessKeeps ==
  ASSUME IInv, NEW c \in Task, Access(c), UNCHANGED asked
  PROVE  IInv'
<1> SUFFICES Ordered' /\ TypeOK'
  BY DEF Ordered, IInv
<1> USE ProgsTyped DEF bus, host, page, past
<1>1. CASE SetFlag(c)
  <2>1. PICK what \in {"on", "off"} : Step(c, what)
    BY <1>1 DEF SetFlag
  <2>2. Due(c).flag \in Flag
    BY <2>1, DueItem DEF OnFlag
  <2>3. Ordered'
    BY <1>1, <2>1, Advances DEF SetFlag, Accesses, OnBus
  <2>4. on' \in SUBSET Flag /\ touched' \in SUBSET Flag /\ cut' \in SUBSET Task
    BY <1>1, <2>2 DEF SetFlag, Overtake, TypeOK, IInv
  <2> QED
    BY <1>1, <2>3, <2>4 DEF SetFlag, TypeOK, IInv, Ordered
  
<1>2. CASE SetLamp(c)
  <2>1. PICK what \in {"lampOn", "lampOther", "dark"} : Step(c, what)
    BY <1>2 DEF SetLamp
  <2>2. Ordered'
    BY <1>2, <2>1, Advances DEF SetLamp, Accesses, OnBus
  <2>3. lamp' \in BOOLEAN /\ dim' \in BOOLEAN
    <3>1. lamp' = TRUE \/ lamp' = FALSE \/ lamp' = (Zones \cap (on \ {Due(c).flag}) # {})
      BY <1>2 DEF SetLamp
    <3>2. dim' = (c \in cut)
      BY <1>2 DEF SetLamp
    <3>3. dim' \in BOOLEAN
      BY <3>2, MemberIsTruth
    <3>4. CASE lamp' = (Zones \cap (on \ {Due(c).flag}) # {})
      BY <3>3, <3>4, DifferIsTruth
    <3>5. CASE lamp' = TRUE \/ lamp' = FALSE
      BY <3>3, <3>5
    <3> QED
      BY <3>1, <3>4, <3>5
  <2> QED
    BY <1>2, <2>2, <2>3 DEF SetLamp, TypeOK, IInv, Ordered
<1>3. CASE GoDown(c)
  <2>1. Ordered'
    BY <1>3, Advances DEF GoDown, Accesses, OnBus
  <2> QED
    BY <1>3, <2>1 DEF GoDown, TypeOK, IInv, Ordered
<1>4. CASE Assemble(c)
  <2>1. Ordered'
    BY <1>4, Advances DEF Assemble, Accesses, OnBus
  <2> QED
    BY <1>4, <2>1 DEF Assemble, TypeOK, IInv, Ordered
<1>5. CASE OSMutexPend(c)
  BY <1>5, PendKeeps
<1>6. CASE Write(c)
  <2>1. PICK what \in {"write", "erase"} : Step(c, what)
    BY <1>6 DEF Write
  <2>2. Ordered'
    BY <1>6, <2>1, GoesOn DEF Write, Ordered, OnBus
  <2>3. lost' = (c \in cut)
    BY <1>6 DEF Write
  <2>4. lost' \in BOOLEAN
    BY <2>3, MemberIsTruth
  <2>5. stored' \in SUBSET Flag \/ stored' = FACTORY
    BY <1>6 DEF Write, TypeOK, IInv
  <2> QED
    BY <1>6, <2>2, <2>4, <2>5 DEF Write, TypeOK, IInv, Ordered
<1>7. CASE Sense(c)
  <2>1. Ordered'
    <3>1. CASE Go(c)
      BY <1>7, <3>1, GoesOn DEF Sense, Ordered, OnBus
    <3>2. CASE prog' = [prog EXCEPT ![c] = <<>>]
      BY <1>7, <3>2, DueItem, WholeEmpty, TakesUp DEF Sense, Ordered
    <3> QED
      BY <1>7, <3>1, <3>2 DEF Sense
  <2> QED
    BY <1>7, <2>1 DEF Sense, TypeOK, IInv, Ordered
<1>8. CASE OSMutexPost(c)
  BY <1>8, PostKeeps
<1>9. CASE Copy(c)
  <2> DEFINE f == Due(c).flag
  <2>1. /\ Step(c, "copy")
        /\ UNCHANGED <<lamp, remote_shutdown, stored, byte, bus, row, tmp, toggled,
                       before, lost, dim, inDark, unanswered>>
        /\ \/ Go(c) /\ UNCHANGED <<on, cut, touched>>
           \/ /\ on' = IF f \in tmp THEN on \cup {f} ELSE on \ {f}
              /\ Overtake(c, f)
              /\ prog' = [prog EXCEPT ![c] = <<Do("again", f)>> \o Tail(@)]
    BY <1>9 DEF Copy
  <2>2. c \notin waiting /\ Tail(prog[c]) \in Whole /\ f \in Flag
    <3>1. "copy" \in OnFlag /\ "copy" \notin OnBus \cup {"pend"}
      BY DEF OnFlag, OnBus
    <3>2. Step(c, "copy")
      BY <2>1
    <3> QED
      BY <3>1, <3>2, DueItem
  <2> HIDE DEF f
  <2>3. CASE Go(c) /\ UNCHANGED <<on, cut, touched>>
    <3>1. Ordered'
      BY <2>1, <2>3, Advances DEF Accesses, OnBus
    <3> QED
      BY <2>1, <2>3, <3>1 DEF TypeOK, IInv, Ordered
  <2>4. CASE /\ on' = IF f \in tmp THEN on \cup {f} ELSE on \ {f}
             /\ Overtake(c, f)
             /\ prog' = [prog EXCEPT ![c] = <<Do("again", f)>> \o Tail(@)]
    <3>1. <<Do("again", f)>> \o Tail(prog[c]) \in Whole
      BY <2>2, SingleWhole, WholeConcat DEF Whole, Accesses, Held, OnBus, OnFlag
    <3>2. Ordered'
      BY <2>1, <2>2, <2>4, <3>1, TakesUp DEF Ordered, IInv, Progs
    <3>3. on' \in SUBSET Flag /\ touched' \in SUBSET Flag /\ cut' \in SUBSET Task
      BY <2>2, <2>4 DEF Overtake, TypeOK, IInv
    <3> QED
      BY <2>1, <3>2, <3>3 DEF TypeOK, IInv, Ordered
  <2> QED
    BY <2>1, <2>3, <2>4
<1>10. CASE Again(c)
  <2> DEFINE f == Due(c).flag
  <2>1. c \notin waiting /\ Tail(prog[c]) \in Whole /\ f \in Flag
    <3>1. "again" \in OnFlag /\ "again" \notin OnBus \cup {"pend"}
      BY DEF OnFlag, OnBus
    <3>2. Step(c, "again")
      BY <1>10 DEF Again
    <3> QED
      BY <3>1, <3>2, DueItem
  <2>2. (IF f \in on THEN Start(f) ELSE Stop(f)) \o Tail(prog[c]) \in Whole
    BY <2>1, StartStopWhole, WholeConcat DEF Whole
  <2>3. Ordered'
    BY <1>10, <2>1, <2>2, TakesUp DEF Again, Ordered, IInv, Progs
  <2> QED
    BY <1>10, <2>3 DEF Again, TypeOK, IInv, Ordered
<1>11. CASE Leave(c)
  <2>1. Ordered'
    BY <1>11, Advances DEF Leave, Accesses, OnBus
  <2> QED
    BY <1>11, <2>1 DEF Leave, ShowPage, TypeOK, IInv, Ordered
<1> QED
  BY <1>1, <1>2, <1>3, <1>4, <1>5, <1>6, <1>7, <1>8, <1>9, <1>10, <1>11 DEF Access

-----------------------------------------------------------------------------
(* Starts, operators, and the theorems                                     *)

LEMMA RestoredFlags ==
  ASSUME NEW saved, saved \in SUBSET Flag \/ saved = FACTORY
  PROVE  Restored(saved) \in SUBSET Flag
BY DEF Restored, Visible

\* A start finds no task at work.
LEMMA Fresh ==
  ASSUME prog = [c \in Task |-> <<>>], waiting = {}
  PROVE  Ordered
BY WholeEmpty DEF Ordered, Progs, BusGuarded, Queued, Whole

LEMMA InitOK == Init => IInv
<1> SUFFICES ASSUME NEW saved \in (SUBSET Flag) \cup {FACTORY}, Started(saved)
             PROVE  Ordered /\ TypeOK
  BY DEF Init, IInv, Ordered
<1>1. Ordered
  BY Fresh DEF Started
<1>2. prog \in [Task -> Seq([do : Accesses, flag : Flag \cup {""}])]
  BY DEF Started
<1>3. on \in SUBSET Flag /\ (stored \in SUBSET Flag \/ stored = FACTORY)
  <2>1. saved \in SUBSET Flag \/ saved = FACTORY
    OBVIOUS
  <2>2. on \in SUBSET Flag
    BY <2>1, RestoredFlags DEF Started
  <2> QED
    BY <2>1, <2>2 DEF Started
<1>4. lamp \in BOOLEAN
  BY DEF Started
<1>5. asked \in 0..Requests
  BY ControlAssumption DEF Started
<1> QED
  BY <1>1, <1>2, <1>3, <1>4, <1>5 DEF Started, TypeOK

LEMMA RestartKeeps ==
  ASSUME IInv, Restart
  PROVE  IInv'
<1> SUFFICES Ordered' /\ TypeOK'
  BY DEF Ordered, IInv
<1>1. Ordered'
  BY WholeEmpty DEF Restart, Ordered, Progs, BusGuarded, Queued, Whole
<1>2. on' \in SUBSET Flag /\ (stored' \in SUBSET Flag \/ stored' = FACTORY)
  BY RestoredFlags DEF Restart, IInv, TypeOK
<1>3. lamp' \in BOOLEAN
  BY DEF Restart
<1>4. asked' \in 0..Requests
  BY ControlAssumption DEF Restart
<1> QED
  BY <1>1, <1>2, <1>3, <1>4, ProgsTyped DEF Restart, TypeOK, Ordered

\* A task with nothing to do takes up a handler.
LEMMA AskKeeps ==
  ASSUME IInv, NEW c \in Task, NEW p \in Whole, Ask(c, p),
         Counted \/ UNCHANGED asked
  PROVE  IInv'
<1>1. c \notin waiting
  BY DEF Ask, Idle, IInv, Queued
<1>2. Ordered'
  BY <1>1, TakesUp DEF Ask, Ordered, IInv, Progs
<1>3. asked' \in 0..Requests
  <2>1. asked \in 0..Requests /\ Requests \in Nat
    BY ControlAssumption DEF IInv, TypeOK
  <2> QED
    BY <2>1 DEF Counted
<1>4. TypeOK'
  BY <1>2, <1>3, ProgsTyped DEF Ask, TypeOK, IInv, Ordered, host, bus, page
<1> QED
  BY <1>2, <1>4 DEF IInv, Ordered

LEMMA NextKeeps == IInv /\ [Next]_vars => IInv'
<1> SUFFICES ASSUME IInv, [Next]_vars
             PROVE  IInv'
  OBVIOUS
<1>1. ASSUME NEW c \in Task, Act(c)
      PROVE  IInv'
  BY <1>1, AccessKeeps, RestartKeeps DEF Act, Reset
<1>2. CASE WebAsks
  <2>1. PICK p \in {Start(f) : f \in Flag} \cup {Stop(f) : f \in Flag}
                     \cup {Shutdown, PowerOn, systemDefault} : Ask(WEB, p)
    BY <1>2 DEF WebAsks
  <2>2. p \in Whole
    BY HandlersWhole
  <2>3. WEB \in Task
    BY <1>2 DEF WebAsks, Task
  <2> QED
    BY <1>2, <2>1, <2>2, <2>3, AskKeeps DEF WebAsks
<1>3. CASE TcpAsks
  <2>1. PICK p \in {Start(f) : f \in Zones} \cup {Stop(f) : f \in Zones}
                     \cup {Shutdown, PowerOn} : Ask(TCP, p)
    BY <1>3 DEF TcpAsks
  <2>2. p \in Whole
    BY HandlersWhole DEF Zones
  <2>3. TCP \in Task
    BY <1>3 DEF TcpAsks, Task
  <2> QED
    BY <1>3, <2>1, <2>2, <2>3, AskKeeps DEF TcpAsks
<1>4. CASE Measure
  <2>1. LM75_ReadTemp \in Whole
    BY HandlersWhole
  <2>2. Sensing \subseteq Task
    BY DEF Task
  <2> QED
    BY <1>4, <2>1, <2>2, AskKeeps DEF Measure
<1>5. CASE EnterSave
  <2>1. SavePage \in Whole /\ LCD \in Task
    BY HandlersWhole, Tasks
  <2> QED
    BY <1>5, <2>1, AskKeeps DEF EnterSave
<1>6. CASE Restart
  BY <1>6, RestartKeeps
<1>7. ASSUME Key, row' \in Rows \cup {0}, tmp' \in SUBSET Flag,
             toggled' \in SUBSET Flag, touched' \in SUBSET Flag, asked' \in 0..Requests
      PROVE  IInv'
  <2>1. UNCHANGED <<prog, owner, waiting>>
    BY <1>7 DEF Key, bus
  <2>2. Progs' /\ BusGuarded' /\ Queued'
    BY <2>1 DEF IInv, Progs, BusGuarded, Queued, Due
  <2>3. TypeOK'
    BY <1>7 DEF Key, TypeOK, IInv, host, bus, past
  <2> QED
    BY <2>2, <2>3 DEF IInv
<1>8. \A r \in Rows : RowFlag(r) \in Flag
  BY DEF Rows, RowFlag, Visible
<1>9. /\ on \in SUBSET Flag /\ tmp \in SUBSET Flag /\ toggled \in SUBSET Flag
      /\ touched \in SUBSET Flag /\ row \in Rows \cup {0}
      /\ asked \in 0..Requests /\ Requests \in Nat
  BY ControlAssumption DEF IInv, TypeOK
<1>10. ASSUME NEW r \in Rows, EnterEdit(r)
       PROVE  IInv'
  <2>1. tmp' \in SUBSET Flag
    BY <1>8, <1>9, <1>10 DEF EnterEdit, Copied, Zones
  <2>2. asked' \in 0..Requests
    BY <1>9, <1>10 DEF EnterEdit, Counted
  <2> QED
    BY <1>7, <1>10, <2>1, <2>2 DEF EnterEdit
<1>11. CASE Toggle
  BY <1>7, <1>8, <1>9, <1>11 DEF Toggle
<1>12. CASE Escape
  BY <1>7, <1>9, <1>12 DEF Escape, ShowPage
<1>13. CASE UNCHANGED vars
  <2>1. Progs' /\ BusGuarded' /\ Queued'
    BY <1>13 DEF IInv, Progs, BusGuarded, Queued, Due, vars, bus
  <2>2. TypeOK'
    BY <1>13 DEF TypeOK, IInv, vars, host, bus, page, past
  <2> QED
    BY <2>1, <2>2 DEF IInv
<1> QED
  BY <1>1, <1>2, <1>3, <1>4, <1>5, <1>6, <1>10, <1>11, <1>12, <1>13 DEF Next

\* Every variable of the host keeps its type, for any flags, tasks and number
\* of requests.
THEOREM ControlTypes == Spec => []TypeOK
<1>1. IInv => TypeOK
  BY DEF IInv
<1> QED
  BY InitOK, NextKeeps, <1>1, PTL DEF Spec

\* A task makes its accesses to the bus only as the holder of iicMutexSem: no
\* handler, however cut up, gets between two others' pend and post.
THEOREM BusIsGuarded == Spec => []BusGuarded
<1>1. IInv => BusGuarded
  BY DEF IInv
<1> QED
  BY InitOK, NextKeeps, <1>1, PTL DEF Spec

-----------------------------------------------------------------------------
(* What a handler still has to do                                          *)

\* The order of the accesses of a handler that changes settings: the flag,
\* its lamp, then the save; on the page, one flag after the other.
Follows(x, y) ==
  \/ /\ x.do = "on"
     /\ IF x.flag \in Zones THEN y.do = "lampOn" /\ y.flag = x.flag ELSE y.do = "byte"
  \/ /\ x.do = "off"
     /\ IF x.flag \in Zones THEN y.do = "lampOther" /\ y.flag = x.flag ELSE y.do = "byte"
  \/ x.do \in {"lampOn", "lampOther"} /\ y.do = "byte"
  \/ x.do = "byte" /\ y.do = "pend"
  \/ x.do = "pend" /\ y.do = "write"
  \/ x.do = "write" /\ y.do = "post"
  \/ x.do \in {"post", "copy", "again"} /\ y.do \in {"copy", "leave"}

Chain == {p \in Seq(Item) : \A i \in 1 .. Len(p) - 1 : Follows(p[i], p[i + 1])}

\* Accesses of the kinds A only, the last one of the kinds Z.
Over(A) == {p \in Seq(Item) : \A i \in 1 .. Len(p) : p[i].do \in A}
Ending(Z) == {p \in Seq(Item) : p # <<>> => p[Len(p)].do \in Z}

Page == {"copy", "again", "leave"}
Setting == Chain \cap Ending({"post", "leave"})
Reading == Over({"pend", "sense", "post"})
Resetting == Over({"pend", "erase", "post", "reset"}) \cap Ending({"reset"})
Darkening ==
  {p \in Over({"down", "off", "dark"}) \cap Ending({"dark"}) :
     \A i \in 1 .. Len(p) - 1 : p[i].do # "dark"}
Remote == (Setting \cup Reading \cup Resetting \cup Darkening) \cap Over(Accesses \ Page)

LEMMA TailIndices ==
  ASSUME NEW p \in Seq(Item), p # <<>>
  PROVE  /\ Head(p) \in Item /\ Head(p) = p[1]
         /\ Tail(p) \in Seq(Item)
         /\ Len(p) \in Nat /\ Len(p) >= 1
         /\ Len(Tail(p)) = Len(p) - 1
         /\ Tail(p) = <<>> => Len(p) = 1
         /\ Tail(p) # <<>> => Len(p) > 1 /\ Head(Tail(p)) = p[2]
         /\ \A i \in 1 .. Len(p) - 1 : Tail(p)[i] = p[i + 1]
<1>1. /\ Head(p) \in Item /\ Tail(p) \in Seq(Item)
      /\ Head(p) = p[1]
      /\ Len(p) \in Nat /\ Len(p) >= 1
      /\ Len(Tail(p)) = Len(p) - 1
      /\ \A i \in 1 .. Len(Tail(p)) : Tail(p)[i] = p[i + 1]
  BY HeadTailProperties, EmptySeq
<1>2. Tail(p) = <<>> => Len(p) = 1
  <2>1. Tail(p) = <<>> => Len(Tail(p)) = 0
    BY EmptySeq
  <2> QED
    BY <1>1, <2>1
<1>3. ASSUME Tail(p) # <<>>
      PROVE  Len(p) > 1 /\ Head(Tail(p)) = p[2]
  <2>1. Len(Tail(p)) >= 1
    BY <1>1, <1>3, EmptySeq
  <2>2. Head(Tail(p)) = Tail(p)[1]
    BY <1>1, <1>3
  <2> QED
    BY <1>1, <2>1, <2>2
<1> QED
  BY <1>1, <1>2, <1>3

LEMMA ChainTail ==
  ASSUME NEW p \in Chain, p # <<>>
  PROVE  /\ Tail(p) \in Chain
         /\ Tail(p) # <<>> => Follows(Head(p), Head(Tail(p)))
<1>1. p \in Seq(Item)
  BY DEF Chain
<1>2. ASSUME NEW i \in 1 .. Len(Tail(p)) - 1
      PROVE  Follows(Tail(p)[i], Tail(p)[i + 1])
  <2>1. /\ Tail(p)[i] = p[i + 1] /\ Tail(p)[i + 1] = p[i + 1 + 1]
        /\ i + 1 \in 1 .. Len(p) - 1
    BY <1>1, TailIndices
  <2> QED
    BY <2>1 DEF Chain
<1>3. Tail(p) # <<>> => Follows(Head(p), Head(Tail(p)))
  <2> SUFFICES ASSUME Tail(p) # <<>>
               PROVE  Follows(Head(p), Head(Tail(p)))
    OBVIOUS
  <2>1. 1 \in 1 .. Len(p) - 1 /\ Head(p) = p[1] /\ Head(Tail(p)) = p[1 + 1]
    BY <1>1, TailIndices
  <2> QED
    BY <2>1 DEF Chain
<1> QED
  BY <1>1, <1>2, <1>3, TailIndices DEF Chain

LEMMA OverTail ==
  ASSUME NEW A, NEW p \in Over(A), p # <<>>
  PROVE  Tail(p) \in Over(A) /\ Head(p).do \in A
<1>1. p \in Seq(Item)
  BY DEF Over
<1>2. ASSUME NEW i \in 1 .. Len(Tail(p))
      PROVE  Tail(p)[i].do \in A
  <2>1. Tail(p)[i] = p[i + 1] /\ i + 1 \in 1 .. Len(p)
    BY <1>1, TailIndices
  <2> QED
    BY <2>1 DEF Over
<1>3. 1 \in 1 .. Len(p) /\ Head(p) = p[1]
  BY <1>1, TailIndices
<1> QED
  BY <1>1, <1>2, <1>3, TailIndices DEF Over

LEMMA EndingTail ==
  ASSUME NEW Z, NEW p \in Ending(Z), p # <<>>
  PROVE  Tail(p) \in Ending(Z) /\ (Tail(p) = <<>> => Head(p).do \in Z)
<1>1. p \in Seq(Item)
  BY DEF Ending
<1>2. Tail(p) # <<>> => Tail(p)[Len(Tail(p))] = p[Len(p)]
  BY <1>1, TailIndices
<1> QED
  BY <1>1, <1>2, TailIndices DEF Ending

LEMMA SettingTail ==
  ASSUME NEW p \in Setting, p # <<>>
  PROVE  /\ Tail(p) \in Setting
         /\ Head(p).do \notin {"post", "leave"} => Tail(p) # <<>>
         /\ Tail(p) # <<>> => Follows(Head(p), Head(Tail(p)))
BY ChainTail, EndingTail DEF Setting

LEMMA DarkeningTail ==
  ASSUME NEW p \in Darkening, p # <<>>
  PROVE  /\ Tail(p) \in Darkening
         /\ Head(p).do = "dark" <=> Tail(p) = <<>>
         /\ Head(p).do \in {"down", "off", "dark"}
<1>1. p \in Seq(Item)
  BY DEF Darkening, Over
<1>2. Tail(p) \in Over({"down", "off", "dark"}) \cap Ending({"dark"})
  BY OverTail, EndingTail DEF Darkening
<1>3. ASSUME NEW i \in 1 .. Len(Tail(p)) - 1
      PROVE  Tail(p)[i].do # "dark"
  <2>1. Tail(p)[i] = p[i + 1] /\ i + 1 \in 1 .. Len(p) - 1
    BY <1>1, TailIndices
  <2> QED
    BY <2>1 DEF Darkening
<1>4. Tail(p) # <<>> => Head(p).do # "dark"
  <2>1. Tail(p) # <<>> => 1 \in 1 .. Len(p) - 1 /\ Head(p) = p[1]
    BY <1>1, TailIndices
  <2> QED
    BY <2>1 DEF Darkening
<1>5. Tail(p) = <<>> => Head(p).do = "dark"
  <2>1. p \in Ending({"dark"})
    BY DEF Darkening
  <2>2. Tail(p) = <<>> => Head(p).do \in {"dark"}
    BY <2>1, EndingTail
  <2> QED
    BY <2>2
<1>6. Head(p).do \in {"down", "off", "dark"}
  BY OverTail DEF Darkening
<1> QED
  BY <1>2, <1>3, <1>4, <1>5, <1>6 DEF Darkening

LEMMA RemoteTail ==
  ASSUME NEW p \in Remote, p # <<>>
  PROVE  Tail(p) \in Remote /\ Head(p).do \notin Page
<1>1. p \in Over(Accesses \ Page)
  BY DEF Remote
<1>2. Tail(p) \in Over(Accesses \ Page) /\ Head(p).do \notin Page
  <2> DEFINE A == Accesses \ Page
  <2>1. p \in Over(A)
    BY <1>1
  <2> HIDE DEF A
  <2>2. Tail(p) \in Over(A) /\ Head(p).do \in A
    BY <2>1, OverTail
  <2> QED
    BY <2>2 DEF A
<1>3. CASE p \in Setting
  BY <1>2, <1>3, SettingTail DEF Remote
<1>4. CASE p \in Reading
  BY <1>2, <1>4, OverTail DEF Remote, Reading
<1>5. CASE p \in Resetting
  BY <1>2, <1>5, OverTail, EndingTail DEF Remote, Resetting
<1>6. CASE p \in Darkening
  BY <1>2, <1>6, DarkeningTail DEF Remote
<1> QED
  BY <1>3, <1>4, <1>5, <1>6 DEF Remote

LEMMA EmptyParts ==
  /\ <<>> \in Setting /\ <<>> \in Remote /\ <<>> \in Chain
  /\ \A A : <<>> \in Over(A)
  /\ \A Z : <<>> \in Ending(Z)
<1>1. <<>> \in Seq(Item) /\ Len(<<>>) = 0
  OBVIOUS
<1>2. \A A : <<>> \in Over(A)
  BY <1>1 DEF Over
<1>3. <<>> \in Setting /\ <<>> \in Chain
  BY <1>1 DEF Setting, Chain, Ending
<1> QED
  BY <1>1, <1>2, <1>3 DEF Remote, Ending

LEMMA Single1 ==
  ASSUME NEW x \in Item
  PROVE  /\ <<x>> \in Chain /\ <<x>> # <<>> /\ Head(<<x>>) = x
         /\ Len(<<x>>) = 1 /\ <<x>>[1] = x
         /\ \A A : x.do \in A => <<x>> \in Over(A)
         /\ \A Z : x.do \in Z => <<x>> \in Ending(Z)
<1>1. <<x>> \in Seq(Item) /\ Len(<<x>>) = 1 /\ <<x>>[1] = x /\ <<x>> # <<>>
  OBVIOUS
<1>2. <<x>> \in Chain
  BY <1>1 DEF Chain
<1>3. \A A : x.do \in A => <<x>> \in Over(A)
  BY <1>1 DEF Over
<1> QED
  BY <1>1, <1>2, <1>3 DEF Ending

\* Two parts, the second of them not empty, one after the other.
LEMMA Joined ==
  ASSUME NEW p \in Seq(Item), NEW q \in Seq(Item), p # <<>>
  PROVE  /\ p \o q \in Seq(Item) /\ p \o q # <<>> /\ Head(p \o q) = Head(p)
         /\ \A A : p \in Over(A) /\ q \in Over(A) => p \o q \in Over(A)
         /\ \A Z : q # <<>> /\ q \in Ending(Z) => p \o q \in Ending(Z)
         /\ p \in Chain /\ q \in Chain /\ (q # <<>> => Follows(p[Len(p)], Head(q)))
              => p \o q \in Chain
<1>1. /\ p \o q \in Seq(Item)
      /\ Len(p) \in Nat /\ Len(q) \in Nat /\ Len(p) >= 1
      /\ Len(p \o q) = Len(p) + Len(q)
      /\ \A i \in 1 .. Len(p) + Len(q) :
           (p \o q)[i] = IF i <= Len(p) THEN p[i] ELSE q[i - Len(p)]
  BY ConcatProperties, LenProperties, EmptySeq
<1>2. p \o q # <<>> /\ Head(p \o q) = Head(p)
  <2>1. p \o q # <<>>
    BY <1>1, EmptySeq
  <2>2. Head(p \o q) = (p \o q)[1] /\ Head(p) = p[1]
    BY <1>1, <2>1, TailIndices
  <2> QED
    BY <1>1, <2>1, <2>2
<1>3. ASSUME NEW A, p \in Over(A), q \in Over(A)
      PROVE  p \o q \in Over(A)
  <2> SUFFICES ASSUME NEW i \in 1 .. Len(p \o q)
               PROVE  (p \o q)[i].do \in A
    BY <1>1 DEF Over
  <2>1. CASE i <= Len(p)
    BY <1>1, <1>3, <2>1 DEF Over
  <2>2. CASE i > Len(p)
    <3>1. i - Len(p) \in 1 .. Len(q) /\ (p \o q)[i] = q[i - Len(p)]
      BY <1>1, <2>2
    <3> QED
      BY <1>3, <3>1 DEF Over
  <2> QED
    BY <1>1, <2>1, <2>2
<1>4. ASSUME NEW Z, q # <<>>, q \in Ending(Z)
      PROVE  p \o q \in Ending(Z)
  <2>1. Len(q) >= 1
    BY <1>4, EmptySeq
  <2>2. (p \o q)[Len(p \o q)] = q[Len(q)]
    BY <1>1, <2>1
  <2> QED
    BY <1>1, <1>4, <2>2 DEF Ending
<1>5. ASSUME p \in Chain, q \in Chain, q # <<>> => Follows(p[Len(p)], Head(q)),
             NEW i \in 1 .. Len(p \o q) - 1
      PROVE  Follows((p \o q)[i], (p \o q)[i + 1])
  <2>1. CASE i < Len(p)
    <3>1. (p \o q)[i] = p[i] /\ (p \o q)[i + 1] = p[i + 1] /\ i \in 1 .. Len(p) - 1
      BY <1>1, <2>1
    <3> QED
      BY <1>5, <3>1 DEF Chain
  <2>2. CASE i = Len(p)
    <3>1. q # <<>>
      BY <1>1, <2>2, EmptySeq
    <3>2. (p \o q)[i] = p[Len(p)] /\ (p \o q)[i + 1] = q[1] /\ Head(q) = q[1]
      BY <1>1, <2>2, <3>1, TailIndices
    <3> QED
      BY <1>5, <3>1, <3>2
  <2>3. CASE i > Len(p)
    <3>1. /\ (p \o q)[i] = q[i - Len(p)] /\ (p \o q)[i + 1] = q[i - Len(p) + 1]
          /\ i - Len(p) \in 1 .. Len(q) - 1
      BY <1>1, <2>3
    <3> QED
      BY <1>5, <3>1 DEF Chain
  <2> QED
    BY <1>1, <2>1, <2>2, <2>3
<1>6. p \in Chain /\ q \in Chain /\ (q # <<>> => Follows(p[Len(p)], Head(q)))
        => p \o q \in Chain
  BY <1>1, <1>5 DEF Chain
<1> QED
  BY <1>1, <1>2, <1>3, <1>4, <1>6

\* The part of a handler that changes one setting and saves it.
Saved == {p \in Chain \cap Over(Accesses \ Page) : p # <<>> /\ p[Len(p)].do = "post"}

LEMMA SavedPrefix ==
  ASSUME NEW x \in Item, x.do \notin Page, NEW q \in Saved, Follows(x, Head(q))
  PROVE  <<x>> \o q \in Saved /\ Head(<<x>> \o q) = x
<1>1. /\ <<x>> \in Seq(Item) /\ q \in Seq(Item) /\ <<x>> # <<>> /\ q # <<>>
      /\ <<x>> \in Chain /\ q \in Chain /\ Head(<<x>>) = x
      /\ Len(<<x>>) = 1 /\ <<x>>[1] = x
      /\ <<x>> \in Over(Accesses \ Page) /\ q \in Over(Accesses \ Page)
  <2>1. x.do \in Accesses \ Page
    BY DEF Item
  <2> QED
    BY <2>1, Single1 DEF Saved, Chain
<1>2. q \in Ending({"post"})
  BY <1>1 DEF Saved, Ending
<1>3. /\ <<x>> \o q \in Chain \cap Over(Accesses \ Page) \cap Ending({"post"})
      /\ <<x>> \o q # <<>> /\ Head(<<x>> \o q) = x
  <2>1. q # <<>> => Follows(<<x>>[Len(<<x>>)], Head(q))
    BY <1>1
  <2> QED
    BY <1>1, <1>2, <2>1, Joined
<1> QED
  BY <1>3 DEF Saved, Ending

LEMMA SaveIsSaved ==
  WriteControlParaToEEProm \in Saved /\ Head(WriteControlParaToEEProm).do = "byte"
<1> DEFINE b == Do("byte", "")
           x == Do("pend", "")
           y == Do("write", "")
           z == Do("post", "")
<1>1. b \in Item /\ x \in Item /\ y \in Item /\ z \in Item
  <2>1. {"byte", "pend", "write", "post"} \subseteq Accesses \ OnFlag
    BY DEF Accesses, OnFlag
  <2>2. \A what \in Accesses \ OnFlag : Do(what, "") \in Item
    BY Items
  <2> QED
    BY <2>1, <2>2
<1>2. b.do = "byte" /\ x.do = "pend" /\ y.do = "write" /\ z.do = "post"
  BY DEF Do
<1> HIDE DEF b, x, y, z
<1>3. /\ <<x, y, z>> \in Seq(Item) /\ Len(<<x, y, z>>) = 3 /\ <<x, y, z>> # <<>>
      /\ <<x, y, z>>[1] = x /\ <<x, y, z>>[2] = y /\ <<x, y, z>>[3] = z
      /\ Head(<<x, y, z>>) = x
  BY <1>1
<1>4. Follows(x, y) /\ Follows(y, z) /\ Follows(b, x)
  BY <1>2 DEF Follows
<1> DEFINE t == <<x, y, z>>
<1> HIDE DEF t
<1>5. t \in Saved /\ Head(t) = x
  <2>1. /\ t \in Seq(Item) /\ Len(t) = 3 /\ t # <<>> /\ Head(t) = x
        /\ t[1] = x /\ t[2] = y /\ t[3] = z
    BY <1>3 DEF t
  <2>2. \A i \in 1 .. Len(t) - 1 : Follows(t[i], t[i + 1])
    <3> SUFFICES ASSUME NEW i \in 1 .. Len(t) - 1
                 PROVE  Follows(t[i], t[i + 1])
      OBVIOUS
    <3>1. i = 1 \/ i = 2
      BY <2>1
    <3> QED
      BY <1>4, <2>1, <3>1
  <2>3. \A i \in 1 .. Len(t) : t[i].do \in Accesses \ Page
    <3> SUFFICES ASSUME NEW i \in 1 .. Len(t)
                 PROVE  t[i].do \in Accesses \ Page
      OBVIOUS
    <3>1. i = 1 \/ i = 2 \/ i = 3
      BY <2>1
    <3> QED
      BY <1>2, <2>1, <3>1 DEF Accesses, Page
  <2> QED
    BY <1>2, <2>1, <2>2, <2>3 DEF Saved, Chain, Over
<1>6. <<b>> \o t \in Saved /\ Head(<<b>> \o t) = b
  BY <1>1, <1>2, <1>4, <1>5, SavedPrefix DEF Page
<1> QED
  BY <1>2, <1>6 DEF WriteControlParaToEEProm, Transfer, b, x, y, z, t

\* The flag, its lamp, the save.
LEMMA ChangeSaved ==
  ASSUME NEW f \in Flag, NEW a, NEW l,
         (a = "on" /\ l = "lampOn") \/ (a = "off" /\ l = "lampOther")
  PROVE  \A p : p = <<Do(a, f)>> \o Lamp(l, f) \o WriteControlParaToEEProm =>
                p \in Saved /\ Head(p) = Do(a, f)
<1> DEFINE w == WriteControlParaToEEProm
<1>1. Do(a, f) \in Item /\ Do(l, f) \in Item
  BY Items DEF Accesses
<1>2. /\ Do(a, f).do = a /\ Do(a, f).flag = f /\ Do(l, f).do = l /\ Do(l, f).flag = f
      /\ w \in Saved /\ Head(w).do = "byte"
  BY SaveIsSaved DEF Do
<1> DEFINE x == Do(a, f)
           y == Do(l, f)
<1> HIDE DEF x, y, w
<1>3. x.do \notin Page /\ y.do \notin Page
  BY <1>1, <1>2 DEF Page, x, y
<1>4. CASE f \in Zones
  <2>1. Follows(x, y) /\ Follows(y, Head(w))
    BY <1>1, <1>2, <1>4 DEF Follows, x, y
  <2>2. <<y>> \o w \in Saved /\ Head(<<y>> \o w) = y
    BY <1>1, <1>2, <1>3, <2>1, SavedPrefix DEF x, y
  <2>3. <<x>> \o (<<y>> \o w) \in Saved /\ Head(<<x>> \o (<<y>> \o w)) = x
    BY <1>1, <1>3, <2>1, <2>2, SavedPrefix DEF x, y
  <2>4. <<x>> \in Seq(Item) /\ <<y>> \in Seq(Item) /\ w \in Seq(Item)
    BY <1>1, <1>2 DEF Saved, Chain, x, y
  <2>5. <<x>> \o <<y>> \o w = <<x>> \o (<<y>> \o w)
    BY <2>4, ConcatAssociative
  <2> QED
    BY <1>4, <2>3, <2>5 DEF Lamp, w, x, y
<1>5. CASE f \notin Zones
  <2>1. Follows(x, Head(w))
    BY <1>1, <1>2, <1>5 DEF Follows, x
  <2>2. <<x>> \o w \in Saved /\ Head(<<x>> \o w) = x
    BY <1>1, <1>2, <1>3, <2>1, SavedPrefix DEF x
  <2>3. <<x>> \o <<>> = <<x>>
    BY <1>1, ConcatEmptySeq DEF x
  <2> QED
    BY <1>5, <2>2, <2>3 DEF Lamp, w, x, y
<1> QED
  BY <1>4, <1>5 DEF w, x

\* A start or a stop of one zone, or of the tamper watch.
LEMMA StartStopSaved ==
  ASSUME NEW f \in Flag
  PROVE  /\ Start(f) \in Saved /\ Head(Start(f)) = Do("on", f)
         /\ Stop(f) \in Saved /\ Head(Stop(f)) = Do("off", f)
<1>1. /\ Start(f) = <<Do("on", f)>> \o Lamp("lampOn", f) \o WriteControlParaToEEProm
      /\ Stop(f) = <<Do("off", f)>> \o Lamp("lampOther", f) \o WriteControlParaToEEProm
  BY DEF Start, Stop
<1>2. \A a, l, p : /\ (a = "on" /\ l = "lampOn") \/ (a = "off" /\ l = "lampOther")
                  /\ p = <<Do(a, f)>> \o Lamp(l, f) \o WriteControlParaToEEProm
                  => p \in Saved /\ Head(p) = Do(a, f)
  BY ChangeSaved
<1>3. Start(f) \in Saved /\ Head(Start(f)) = Do("on", f)
  BY <1>1, <1>2, Zenon
<1>4. Stop(f) \in Saved /\ Head(Stop(f)) = Do("off", f)
  BY <1>1, <1>2, Zenon
<1> QED
  BY <1>3, <1>4

LEMMA SavedIsSetting ==
  ASSUME NEW p \in Saved
  PROVE  p \in Setting /\ p \in Remote /\ p \in Seq(Item) /\ p # <<>>
<1>1. p \in Setting /\ p \in Over(Accesses \ Page)
  BY DEF Saved, Setting, Ending, Chain
<1> QED
  BY <1>1 DEF Remote, Saved, Chain

\* The page goes on after the flag it has changed.
LEMMA SavedThenPage ==
  ASSUME NEW p \in Saved, NEW q \in Setting, q # <<>> => Head(q).do \in {"copy", "leave"}
  PROVE  p \o q \in Setting /\ p \o q # <<>> /\ Head(p \o q) = Head(p)
<1>1. p \in Chain /\ q \in Chain /\ p \in Seq(Item) /\ q \in Seq(Item) /\ p # <<>>
  BY SavedIsSetting DEF Saved, Setting, Chain
<1>2. q # <<>> => Follows(p[Len(p)], Head(q))
  BY DEF Saved, Follows
<1>3. p \o q \in Chain /\ p \o q # <<>> /\ Head(p \o q) = Head(p)
  BY <1>1, <1>2, Joined
<1>4. p \o q \in Ending({"post", "leave"})
  <2>1. CASE q = <<>>
    <3>1. p \o q = p
      BY <1>1, <2>1, ConcatEmptySeq
    <3> QED
      BY <3>1, SavedIsSetting DEF Setting
  <2>2. CASE q # <<>>
    BY <1>1, <2>2, Joined DEF Setting
  <2> QED
    BY <2>1, <2>2
<1> QED
  BY <1>3, <1>4 DEF Setting

LEMMA AgainSetting ==
  ASSUME NEW f \in Flag, NEW q \in Setting, q # <<>>, Head(q).do \in {"copy", "leave"}
  PROVE  /\ <<Do("again", f)>> \o q \in Setting
         /\ <<Do("again", f)>> \o q # <<>>
         /\ Head(<<Do("again", f)>> \o q) = Do("again", f)
<1> DEFINE x == Do("again", f)
<1>1. x \in Item /\ x.do = "again"
  BY Items DEF Accesses, OnFlag
<1> HIDE DEF x
<1>2. /\ <<x>> \in Seq(Item) /\ <<x>> \in Chain /\ <<x>> # <<>> /\ Head(<<x>>) = x
      /\ Len(<<x>>) = 1 /\ <<x>>[1] = x
      /\ q \in Seq(Item) /\ q \in Chain /\ q \in Ending({"post", "leave"})
  BY <1>1, Single1 DEF Setting, Chain
<1>3. q # <<>> => Follows(<<x>>[Len(<<x>>)], Head(q))
  BY <1>1, <1>2 DEF Follows
<1>4. /\ <<x>> \o q \in Chain \cap Ending({"post", "leave"})
      /\ <<x>> \o q # <<>> /\ Head(<<x>> \o q) = x
  BY <1>2, <1>3, Joined
<1> QED
  BY <1>4 DEF Setting, x

\* The flag f is still to be put out.
Offs(p, f) == \E i \in 1 .. Len(p) : p[i].do = "off" /\ p[i].flag = f

LEMMA OverConcat ==
  ASSUME NEW A, NEW p \in Over(A), NEW q \in Over(A)
  PROVE  /\ p \o q \in Over(A)
         /\ \A f : Offs(p, f) \/ Offs(q, f) => Offs(p \o q, f)
<1>1. /\ p \in Seq(Item) /\ q \in Seq(Item) /\ p \o q \in Seq(Item)
      /\ Len(p) \in Nat /\ Len(q) \in Nat
      /\ Len(p \o q) = Len(p) + Len(q)
      /\ \A i \in 1 .. Len(p) + Len(q) :
           (p \o q)[i] = IF i <= Len(p) THEN p[i] ELSE q[i - Len(p)]
  <2>1. p \in Seq(Item) /\ q \in Seq(Item)
    BY DEF Over
  <2> QED
    BY <2>1, ConcatProperties, LenProperties
<1>2. p \o q \in Over(A)
  <2>1. CASE p = <<>>
    BY <1>1, <2>1, ConcatEmptySeq
  <2>2. CASE p # <<>>
    BY <1>1, <2>2, Joined
  <2> QED
    BY <2>1, <2>2
<1>3. ASSUME NEW f, Offs(p, f)
      PROVE  Offs(p \o q, f)
  <2>1. PICK i \in 1 .. Len(p) : p[i].do = "off" /\ p[i].flag = f
    BY <1>3 DEF Offs
  <2>2. i \in 1 .. Len(p \o q) /\ (p \o q)[i] = p[i]
    BY <1>1
  <2> QED
    BY <2>1, <2>2 DEF Offs
<1>4. ASSUME NEW f, Offs(q, f)
      PROVE  Offs(p \o q, f)
  <2>1. PICK i \in 1 .. Len(q) : q[i].do = "off" /\ q[i].flag = f
    BY <1>4 DEF Offs
  <2>2. i + Len(p) \in 1 .. Len(p \o q) /\ (p \o q)[i + Len(p)] = q[i]
    BY <1>1
  <2> QED
    BY <2>1, <2>2 DEF Offs
<1> QED
  BY <1>2, <1>3, <1>4

\* One access for every flag of a set.
LEMMA EachOver ==
  ASSUME NEW S \in SUBSET Flag, NEW what \in {"off", "copy"}
  PROVE  /\ Each(what, S) \in Over({what})
         /\ what = "off" => \A f \in S : Offs(Each(what, S), f)
<1>1. ASSUME NEW f \in {"FC", "A", "B"}
      PROVE  /\ DoIf(f, S, what) \in Over({what})
             /\ what = "off" /\ f \in S => Offs(DoIf(f, S, what), f)
  <2>1. CASE f \notin S
    BY <2>1, EmptyParts DEF DoIf
  <2>2. CASE f \in S
    <3> DEFINE x == Do(what, f)
    <3>1. x \in Item /\ x.do = what /\ x.flag = f
      BY <2>2, Items DEF Accesses, Do
    <3> HIDE DEF x
    <3>2. <<x>> \in Over({what}) /\ Len(<<x>>) = 1 /\ <<x>>[1] = x
      BY <3>1, Single1
    <3>3. what = "off" => Offs(<<x>>, f)
      BY <3>1, <3>2 DEF Offs
    <3> QED
      BY <2>2, <3>2, <3>3 DEF DoIf, x
  <2> QED
    BY <2>1, <2>2
<1> DEFINE a == DoIf("FC", S, what)
           b == DoIf("A", S, what)
           c == DoIf("B", S, what)
<1>2. /\ a \in Over({what}) /\ b \in Over({what}) /\ c \in Over({what})
      /\ what = "off" /\ "FC" \in S => Offs(a, "FC")
      /\ what = "off" /\ "A" \in S => Offs(b, "A")
      /\ what = "off" /\ "B" \in S => Offs(c, "B")
  BY <1>1
<1> HIDE DEF a, b, c
<1>3. /\ a \o b \in Over({what})
      /\ \A f : Offs(a, f) \/ Offs(b, f) => Offs(a \o b, f)
  BY <1>2, OverConcat
<1>4. /\ (a \o b) \o c \in Over({what})
      /\ \A f : Offs(a \o b, f) \/ Offs(c, f) => Offs((a \o b) \o c, f)
  BY <1>2, <1>3, OverConcat
<1>5. S \subseteq {"A", "B", "FC"}
  BY ControlAssumption
<1>6. Each(what, S) = (a \o b) \o c
  BY DEF Each, a, b, c
<1> QED
  BY <1>2, <1>3, <1>4, <1>5, <1>6

\* The page saved: copies, then back to the normal display.
LEMMA SavePageSetting ==
  /\ SavePage \in Setting /\ SavePage # <<>>
  /\ Head(SavePage).do \in {"copy", "leave"}
<1> DEFINE e == Each("copy", Flag)
           x == Do("leave", "")
<1>1. e \in Over({"copy"})
  BY EachOver
<1>2. x \in Item /\ x.do = "leave"
  BY Items DEF Accesses, OnFlag
<1> HIDE DEF e, x
<1>3. /\ <<x>> \in Seq(Item) /\ <<x>> \in Chain /\ <<x>> # <<>> /\ Head(<<x>>) = x
      /\ <<x>> \in Ending({"post", "leave"})
  BY <1>2, Single1
<1>4. e \in Seq(Item)
  BY <1>1 DEF Over
<1>5. CASE e = <<>>
  <2>1. e \o <<x>> = <<x>>
    BY <1>3, <1>5, ConcatEmptySeq
  <2> QED
    BY <1>2, <1>3, <2>1 DEF SavePage, Setting, e, x
<1>6. CASE e # <<>>
  <2>1. Len(e) \in Nat /\ Len(e) >= 1 /\ Head(e) = e[1]
    BY <1>4, <1>6, TailIndices
  <2>2. \A i \in 1 .. Len(e) : e[i].do = "copy"
    BY <1>1 DEF Over
  <2>3. e \in Chain
    BY <1>4, <2>1, <2>2 DEF Chain, Follows
  <2>4. Follows(e[Len(e)], Head(<<x>>)) /\ Head(e).do = "copy"
    BY <1>2, <1>3, <2>1, <2>2 DEF Follows
  <2>5. /\ e \o <<x>> \in Chain \cap Ending({"post", "leave"})
        /\ e \o <<x>> # <<>> /\ Head(e \o <<x>>) = Head(e)
    BY <1>3, <1>4, <1>6, <2>3, <2>4, Joined
  <2> QED
    BY <2>4, <2>5 DEF SavePage, Setting, e, x
<1> QED
  BY <1>5, <1>6

\* A remote shutdown puts out every flag, the lamp at the end.
LEMMA ShutdownDarkening ==
  /\ Shutdown \in Darkening /\ Shutdown \in Remote
  /\ Head(Shutdown).do = "down" /\ \A f \in Flag : Offs(Shutdown, f)
<1> DEFINE x == Do("down", "")
           e == Each("off", Flag)
           z == Do("dark", "")
<1>1. x \in Item /\ z \in Item /\ x.do = "down" /\ z.do = "dark"
  <2>1. "down" \in Accesses \ OnFlag /\ "dark" \in Accesses \ OnFlag
    BY DEF Accesses, OnFlag
  <2>2. \A what \in Accesses \ OnFlag : Do(what, "") \in Item /\ Do(what, "").do = what
    BY Items
  <2>3. Do("down", "") \in Item /\ Do("down", "").do = "down"
    BY <2>1, <2>2
  <2>4. Do("dark", "") \in Item /\ Do("dark", "").do = "dark"
    BY <2>1, <2>2
  <2> QED
    BY <2>3, <2>4
<1>2. e \in Over({"off"}) /\ \A f \in Flag : Offs(e, f)
  BY EachOver
<1> HIDE DEF x, e, z
<1> DEFINE D == {"down", "off", "dark"}
           E == {"down", "off"}
<1>3. e \in Over(D) /\ e \in Over(E) /\ e \in Seq(Item)
  BY <1>2 DEF Over
<1>4. /\ <<x>> \in Seq(Item) /\ <<x>> # <<>> /\ Head(<<x>>) = x /\ <<x>> \in Over(E)
      /\ <<z>> \in Seq(Item) /\ <<z>> # <<>> /\ <<z>> \in Over(D)
      /\ <<z>> \in Ending({"dark"}) /\ Len(<<z>>) = 1
  BY <1>1, Single1
<1> DEFINE b == <<x>> \o e
<1>5. /\ b \in Seq(Item) /\ b # <<>> /\ Head(b) = x
      /\ b \in Over(E) /\ \A f \in Flag : Offs(b, f)
  BY <1>2, <1>3, <1>4, Joined, OverConcat
<1> HIDE DEF b
<1>6. b \in Over(D)
  BY <1>5 DEF Over
<1>7. /\ b \o <<z>> \in Over(D) \cap Ending({"dark"})
      /\ Head(b \o <<z>>) = x /\ \A f \in Flag : Offs(b \o <<z>>, f)
  BY <1>4, <1>5, <1>6, Joined, OverConcat
<1>8. ASSUME NEW i \in 1 .. Len(b \o <<z>>) - 1
      PROVE  (b \o <<z>>)[i].do # "dark"
  <2>1. /\ Len(b) \in Nat /\ Len(b \o <<z>>) = Len(b) + 1
        /\ \A j \in 1 .. Len(b) + 1 :
             (b \o <<z>>)[j] = IF j <= Len(b) THEN b[j] ELSE <<z>>[j - Len(b)]
    BY <1>4, <1>5, ConcatProperties, LenProperties
  <2>2. i \in 1 .. Len(b) /\ (b \o <<z>>)[i] = b[i]
    BY <2>1
  <2>3. b[i].do \in E
    BY <1>5, <2>2 DEF Over
  <2> QED
    BY <2>2, <2>3
<1>9. b \o <<z>> \in Darkening
  BY <1>7, <1>8 DEF Darkening
<1>10. b \o <<z>> \in Over(Accesses \ Page)
  BY <1>7 DEF Over, Accesses, Page
<1>11. Shutdown = b \o <<z>>
  BY DEF Shutdown, b, x, e, z
<1> QED
  BY <1>1, <1>7, <1>9, <1>10, <1>11 DEF Remote

LEMMA OthersRemote ==
  /\ PowerOn \in Resetting /\ PowerOn \in Remote
  /\ systemDefault \in Resetting /\ systemDefault \in Remote
  /\ LM75_ReadTemp \in Reading /\ LM75_ReadTemp \in Remote
<1> DEFINE R == {"pend", "erase", "post", "reset"}
           x == Do("pend", "")
           y == Do("erase", "")
           s == Do("sense", "")
           z == Do("post", "")
           r == Do("reset", "")
<1>1. /\ x \in Item /\ y \in Item /\ z \in Item /\ r \in Item /\ s \in Item
      /\ x.do = "pend" /\ y.do = "erase" /\ z.do = "post" /\ r.do = "reset"
      /\ s.do = "sense"
  <2>1. {"pend", "erase", "post", "reset", "sense"} \subseteq Accesses \ OnFlag
    BY DEF Accesses, OnFlag
  <2>2. /\ \A what \in Accesses \ OnFlag : Do(what, "") \in Item
        /\ \A what : Do(what, "").do = what
    BY Items DEF Do
  <2> QED
    BY <2>1, <2>2
<1> HIDE DEF x, y, s, z, r
<1>2. <<r>> \in Seq(Item) /\ <<r>> # <<>> /\ <<r>> \in Over(R) /\ <<r>> \in Ending({"reset"})
  BY <1>1, Single1
<1>3. ASSUME NEW what \in Item, NEW A, {"pend", what.do, "post"} \subseteq A
      PROVE  <<x, what, z>> \in Over(A) /\ <<x, what, z>> # <<>>
  <2> DEFINE t == <<x, what, z>>
  <2>1. /\ t \in Seq(Item) /\ Len(t) = 3 /\ t[1] = x /\ t[2] = what /\ t[3] = z
        /\ t # <<>>
    BY <1>1
  <2> HIDE DEF t
  <2>2. ASSUME NEW i \in 1 .. Len(t)
        PROVE  t[i].do \in A
    <3>1. i = 1 \/ i = 2 \/ i = 3
      BY <2>1
    <3> QED
      BY <1>1, <1>3, <2>1, <3>1
  <2>3. t \in Over(A) /\ t # <<>>
    BY <2>1, <2>2 DEF Over
  <2> QED
    BY <2>3 DEF t
<1>4. <<x, y, z>> \in Over(R) /\ <<x, y, z>> # <<>>
  <2>1. {"pend", y.do, "post"} \subseteq R
    BY <1>1
  <2> QED
    BY <1>1, <1>3, <2>1
<1>5. <<x, s, z>> \in Over({"pend", "sense", "post"})
  <2>1. {"pend", s.do, "post"} \subseteq {"pend", "sense", "post"}
    BY <1>1
  <2> QED
    BY <1>1, <1>3, <2>1
<1>6. <<x, y, z>> \o <<r>> \in Over(R) \cap Ending({"reset"})
  <2>1. <<x, y, z>> \in Seq(Item)
    BY <1>4 DEF Over
  <2> QED
    BY <1>2, <1>4, <2>1, Joined
<1>7. \A p : p \in Over(R) \/ p \in Over({"pend", "sense", "post"})
               => p \in Over(Accesses \ Page)
  BY DEF Over, Accesses, Page
<1>8. /\ PowerOn = <<r>> /\ systemDefault = <<x, y, z>> \o <<r>>
      /\ LM75_ReadTemp = <<x, s, z>>
  BY DEF PowerOn, systemDefault, LM75_ReadTemp, Transfer, x, y, s, z, r
<1> QED
  BY <1>2, <1>5, <1>6, <1>7, <1>8 DEF Resetting, Reading, Remote

-----------------------------------------------------------------------------
(* What is saved and what the lamp shows                                   *)

Kind(c) == IF c = LCD THEN Setting ELSE Remote

\* The settings that the next start is to find.
Want == IF remote_shutdown THEN before ELSE on

\* A handler that has yet to save, or to reset the host.
Unsaved(p) ==
  p # <<>> /\ \/ p \in Resetting
              \/ p \in Setting /\ Head(p).do \notin {"post", "copy", "leave"}

\* Its control byte is assembled, and not yet stored.
Assembled(p) == p # <<>> /\ p \in Setting /\ Head(p).do \in {"pend", "write"}

LampWork == {"on", "off", "again", "lampOn", "lampOther"}

\* A handler that has yet to set the lamp.
Unlit(p) ==
  p # <<>> /\ \/ p \in Darkening
              \/ p \in Setting /\ Head(p).do \in LampWork /\ Head(p).flag \in Zones

\* The lamp as it is about to be set is what the flags say.
LampSeen(p) ==
  p # <<>> =>
    /\ Head(p).do = "lampOn" => Head(p).flag \in on \cap Zones
    /\ Head(p).do = "lampOther" => Head(p).flag \notin on
    /\ p \in Darkening => \A f \in on : Offs(p, f)

Kinds == \A c \in Task : prog[c] \in Kind(c)

Shut ==
  \A c \in Task : prog[c] # <<>> /\ prog[c] \in Darkening /\ Due(c).do # "down"
                    => remote_shutdown

BytesFresh ==
  \A c \in Task : Assembled(prog[c]) => c \in cut \/ inDark \/ byte[c] = Want

LampsFresh == \A c \in Task : c \in cut \/ LampSeen(prog[c])

SavedOrDue ==
  \/ lost \/ inDark
  \/ \E c \in Task : Unsaved(prog[c])
  \/ stored \cap Visible = Want \cap Visible

LitOrDue ==
  \/ dim
  \/ \E c \in Task : Unlit(prog[c])
  \/ lamp <=> on \cap Zones # {}

\* The page under edit: its copies differ from the flags where the operator
\* or another task has made them, and its own starts and stops change nothing.
EditSeen ==
  /\ row = 0 => prog[LCD] = <<>>
  /\ row # 0 => \A f \in Zones : (f \in on <=> f \in tmp) \/ f \in toggled \cup touched
  /\ prog[LCD] # <<>> /\ Due(LCD).do = "on" => Due(LCD).flag \in on \cup touched
  /\ prog[LCD] # <<>> /\ Due(LCD).do = "off" => Due(LCD).flag \notin on \ touched

Work == Kinds /\ Shut /\ BytesFresh /\ LampsFresh /\ SavedOrDue /\ LitOrDue
SInv == Work /\ EditSeen

LEMMA KindHeads ==
  ASSUME NEW p, p # <<>>
  PROVE  /\ p \in Setting => /\ p \notin Resetting /\ p \notin Darkening
                             /\ Head(p).do \in {"on", "off", "lampOn", "lampOther", "byte",
                                  "pend", "write", "post", "copy", "again", "leave"}
         /\ p \in Resetting => /\ p \notin Darkening
                               /\ Head(p).do \in {"pend", "erase", "post", "reset"}
         /\ p \in Darkening => p \notin Reading /\ Head(p).do \in {"down", "off", "dark"}
         /\ p \in Reading => /\ p \notin Resetting
                             /\ p \in Setting => Head(p).do = "post"
                             /\ Head(p).do \in {"pend", "sense", "post"}
<1>1. ASSUME p \in Setting
      PROVE  /\ p \notin Resetting /\ p \notin Darkening
             /\ Head(p).do \in {"on", "off", "lampOn", "lampOther", "byte",
                                "pend", "write", "post", "copy", "again", "leave"}
  <2>1. p \notin Resetting /\ p \notin Darkening
    BY <1>1 DEF Setting, Resetting, Darkening, Ending
  <2>2. CASE Tail(p) = <<>>
    BY <1>1, <2>1, <2>2, SettingTail
  <2>3. CASE Tail(p) # <<>>
    <3>1. Follows(Head(p), Head(Tail(p)))
      BY <1>1, <2>3, SettingTail
    <3> QED
      BY <2>1, <3>1 DEF Follows
  <2> QED
    BY <2>2, <2>3
<1>2. p \in Resetting => /\ p \notin Darkening
                         /\ Head(p).do \in {"pend", "erase", "post", "reset"}
  <2>1. p \in Resetting => p \notin Darkening
    BY DEF Resetting, Darkening, Ending
  <2>2. p \in Resetting => Head(p).do \in {"pend", "erase", "post", "reset"}
    BY OverTail DEF Resetting
  <2> QED
    BY <2>1, <2>2
<1>3. ASSUME p \in Reading
      PROVE  /\ p \notin Resetting
             /\ p \in Setting => Head(p).do = "post"
             /\ Head(p).do \in {"pend", "sense", "post"}
  <2>1. Head(p).do \in {"pend", "sense", "post"}
    BY <1>3, OverTail DEF Reading
  <2>2. p \notin Resetting
    <3>1. p \in Seq(Item) /\ Len(p) \in 1 .. Len(p)
      BY <1>3, TailIndices DEF Reading, Over
    <3>2. p[Len(p)].do # "reset"
      BY <1>3, <3>1 DEF Reading, Over
    <3> QED
      BY <3>2 DEF Resetting, Ending
  <2>3. ASSUME p \in Setting, Head(p).do # "post"
        PROVE  FALSE
    <3>1. Head(p).do \in {"pend", "sense"}
      BY <2>1, <2>3
    <3>2. Tail(p) # <<>>
      BY <2>3, <3>1, SettingTail
    <3>3. Follows(Head(p), Head(Tail(p)))
      BY <2>3, <3>2, SettingTail
    <3>4. Tail(p) \in Over({"pend", "sense", "post"})
      BY <1>3, OverTail DEF Reading
    <3>5. Head(Tail(p)).do \in {"pend", "sense", "post"}
      BY <3>2, <3>4, OverTail
    <3> QED
      BY <3>1, <3>3, <3>5 DEF Follows
  <2> QED
    BY <2>1, <2>2, <2>3
<1>4. p \in Darkening => Head(p).do \in {"down", "off", "dark"}
  BY DarkeningTail
<1> QED
  BY <1>1, <1>2, <1>3, <1>4

LEMMA KindTail ==
  ASSUME NEW c, NEW p \in Kind(c), p # <<>>
  PROVE  /\ Tail(p) \in Kind(c)
         /\ c # LCD => Head(p).do \notin Page
         /\ p \in Setting \/ p \in Remote
BY SettingTail, RemoteTail DEF Kind

\* How a handler stands after an access, as far as saving goes.
LEMMA TailSaves ==
  ASSUME NEW p, p \in Setting \/ p \in Remote, p # <<>>
  PROVE  /\ Unsaved(p) /\ Head(p).do \notin {"write", "again", "reset"} => Unsaved(Tail(p))
         /\ Assembled(Tail(p)) => Head(p).do = "byte" \/ (Assembled(p) /\ Head(p).do = "pend")
<1>1. CASE p \in Setting
  <2>1. Tail(p) \in Setting
    BY <1>1, SettingTail
  <2>2. CASE Tail(p) = <<>>
    <3>1. Head(p).do \in {"post", "leave"}
      BY <1>1, <2>2, SettingTail
    <3>2. p \notin Resetting
      BY <1>1, KindHeads
    <3>3. ~ Unsaved(p) \/ Head(p).do \in {"write", "again", "reset"}
      BY <3>1, <3>2 DEF Unsaved
    <3> QED
      BY <2>2, <3>3 DEF Assembled
  <2>3. CASE Tail(p) # <<>>
    <3>1. Follows(Head(p), Head(Tail(p)))
      BY <1>1, <2>3, SettingTail
    <3>2. p \notin Resetting
      BY <1>1, KindHeads
    <3>3. Unsaved(p) => Head(p).do \notin {"post", "copy", "leave"}
      BY <3>2 DEF Unsaved
    <3>4. Head(p).do \notin {"post", "copy", "leave", "write", "again"} =>
            Head(Tail(p)).do \in {"lampOn", "lampOther", "byte", "pend", "write"}
      BY <3>1 DEF Follows
    <3>5. Head(Tail(p)).do \in {"pend", "write"} => Head(p).do \in {"byte", "pend"}
      BY <3>1 DEF Follows
    <3> QED
      BY <1>1, <2>1, <2>3, <3>3, <3>4, <3>5 DEF Unsaved, Assembled
  <2> QED
    BY <2>2, <2>3
<1>2. CASE p \in Reading
  <2>1. Tail(p) \in Reading
    BY <1>2, OverTail DEF Reading
  <2>2. ~ Unsaved(p)
    BY <1>2, KindHeads DEF Unsaved
  <2>3. ~ Assembled(Tail(p))
    BY <2>1, KindHeads DEF Assembled
  <2> QED
    BY <2>2, <2>3
<1>3. CASE p \in Resetting
  <2>1. /\ Tail(p) \in Resetting
        /\ Tail(p) = <<>> => Head(p).do \in {"reset"}
    BY <1>3, OverTail, EndingTail DEF Resetting
  <2>2. Head(p).do # "reset" => Unsaved(Tail(p))
    BY <2>1 DEF Unsaved
  <2>3. ~ Assembled(Tail(p))
    BY <2>1, KindHeads DEF Assembled
  <2> QED
    BY <2>2, <2>3
<1>4. CASE p \in Darkening
  <2>1. Tail(p) \in Darkening
    BY <1>4, DarkeningTail
  <2>2. ~ Unsaved(p)
    BY <1>4, KindHeads DEF Unsaved
  <2>3. ~ Assembled(Tail(p))
    BY <2>1, KindHeads DEF Assembled
  <2> QED
    BY <2>2, <2>3
<1> QED
  BY <1>1, <1>2, <1>3, <1>4 DEF Remote

\* The same as far as the lamp goes.
LEMMA TailLights ==
  ASSUME NEW p, p \in Setting \/ p \in Remote, p # <<>>
  PROVE  /\ Unlit(p) /\ Head(p).do \notin {"again", "lampOn", "lampOther", "dark"}
              => Unlit(Tail(p))
         /\ Tail(p) # <<>> /\ Head(Tail(p)).do = "lampOn"
              => /\ Head(p).do = "on" /\ Head(p).flag = Head(Tail(p)).flag
                 /\ Head(p).flag \in Zones
         /\ Tail(p) # <<>> /\ Head(Tail(p)).do = "lampOther"
              => Head(p).do = "off" /\ Head(p).flag = Head(Tail(p)).flag
         /\ Tail(p) # <<>> /\ Tail(p) \in Darkening
              => /\ p \in Darkening
                 /\ \A f : Offs(p, f) /\ ~ (Head(p).do = "off" /\ Head(p).flag = f)
                              => Offs(Tail(p), f)
<1>1. CASE p \in Setting
  <2>1. Tail(p) \in Setting /\ p \notin Darkening
    BY <1>1, SettingTail, KindHeads
  <2>2. CASE Tail(p) = <<>>
    <3>1. Head(p).do \in {"post", "leave"}
      BY <1>1, <2>2, SettingTail
    <3> QED
      BY <2>1, <2>2, <3>1 DEF Unlit, LampWork
  <2>3. CASE Tail(p) # <<>>
    <3>1. Follows(Head(p), Head(Tail(p)))
      BY <1>1, <2>3, SettingTail
    <3>2. Tail(p) \notin Darkening
      BY <2>1, <2>3, KindHeads
    <3>3. ASSUME Unlit(p), Head(p).do \notin {"again", "lampOn", "lampOther", "dark"}
          PROVE  Unlit(Tail(p))
      <4>1. Head(p).do \in {"on", "off"} /\ Head(p).flag \in Zones
        BY <2>1, <3>3 DEF Unlit, LampWork
      <4>2. Head(Tail(p)).do \in LampWork /\ Head(Tail(p)).flag \in Zones
        BY <3>1, <4>1 DEF Follows, LampWork
      <4> QED
        BY <2>1, <2>3, <4>2 DEF Unlit
    <3>4. /\ Head(Tail(p)).do = "lampOn"
              => /\ Head(p).do = "on" /\ Head(p).flag = Head(Tail(p)).flag
                 /\ Head(p).flag \in Zones
          /\ Head(Tail(p)).do = "lampOther"
              => Head(p).do = "off" /\ Head(p).flag = Head(Tail(p)).flag
      BY <3>1 DEF Follows
    <3> QED
      BY <3>2, <3>3, <3>4
  <2> QED
    BY <2>2, <2>3
<1>2. ASSUME NEW A, "lampOn" \notin A, "lampOther" \notin A, "down" \notin A,
             "off" \notin A, "dark" \notin A, p \in Over(A), p \notin Setting
      PROVE  /\ ~ Unlit(p)
             /\ Tail(p) # <<>> => /\ Head(Tail(p)).do \notin {"lampOn", "lampOther"}
                                  /\ Tail(p) \notin Darkening
  <2>1. Tail(p) \in Over(A) /\ Head(p).do \in A
    BY <1>2, OverTail
  <2>2. ~ Unlit(p)
    BY <1>2, <2>1, KindHeads DEF Unlit
  <2>3. Tail(p) # <<>> => Head(Tail(p)).do \in A
    BY <2>1, OverTail
  <2> QED
    BY <1>2, <2>2, <2>3, KindHeads
<1>3. CASE p \in Reading /\ p \notin Setting
  BY <1>2, <1>3 DEF Reading
<1>4. CASE p \in Resetting /\ p \notin Setting
  BY <1>2, <1>4 DEF Resetting
<1>5. CASE p \in Darkening
  <2>1. /\ Tail(p) \in Darkening
        /\ Head(p).do # "dark" => Tail(p) # <<>>
    BY <1>5, DarkeningTail
  <2>2. Tail(p) # <<>> => Head(Tail(p)).do \in {"down", "off", "dark"}
    BY <2>1, KindHeads
  <2>3. ASSUME NEW f, Offs(p, f), ~ (Head(p).do = "off" /\ Head(p).flag = f)
        PROVE  Offs(Tail(p), f)
    <3>1. PICK i \in 1 .. Len(p) : p[i].do = "off" /\ p[i].flag = f
      BY <2>3 DEF Offs
    <3>2. /\ Len(p) \in Nat /\ Len(Tail(p)) = Len(p) - 1 /\ Head(p) = p[1]
          /\ \A j \in 1 .. Len(p) - 1 : Tail(p)[j] = p[j + 1]
      BY <1>5, TailIndices DEF Darkening, Over
    <3>3. i # 1
      BY <2>3, <3>1, <3>2
    <3>4. i - 1 \in 1 .. Len(Tail(p)) /\ Tail(p)[i - 1] = p[i]
      BY <3>1, <3>2, <3>3
    <3> QED
      BY <3>1, <3>4 DEF Offs
  <2> QED
    BY <1>5, <2>1, <2>2, <2>3 DEF Unlit
<1> QED
  BY <1>1, <1>3, <1>4, <1>5 DEF Remote

Quiet == UNCHANGED <<on, lamp, remote_shutdown, stored, byte, before, cut, lost, dim, inDark>>

\* An access that touches nothing of what the handlers read or set.
Idles == {"pend", "post", "sense", "copy", "leave"}

LEMMA MovesOn ==
  ASSUME Work, Quiet,
         \A d \in Task :
           \/ prog'[d] = prog[d]
           \/ /\ prog[d] # <<>> /\ Head(prog[d]).do \in Idles
              /\ \/ prog'[d] = Tail(prog[d])
                 \/ Head(prog[d]).do = "sense" /\ prog'[d] = <<>>
  PROVE  Work'
<1> USE DEF Work
<1>1. \A d \in Task : prog[d] \in Setting \/ prog[d] \in Remote
  BY DEF Kinds, Kind
<1>2. Kinds'
  BY KindTail, EmptyParts DEF Kinds, Kind
<1>3. ASSUME NEW d \in Task, prog'[d] # prog[d]
      PROVE  /\ prog[d] # <<>>
             /\ ~ Unlit(prog[d])
             /\ Unsaved(prog[d]) => Unsaved(prog'[d])
             /\ Assembled(prog'[d]) => Assembled(prog[d])
             /\ prog'[d] # <<>> => /\ prog'[d] \notin Darkening
                                   /\ Head(prog'[d]).do \notin {"lampOn", "lampOther"}
  <2>1. prog[d] # <<>> /\ Head(prog[d]).do \in Idles
    BY <1>3
  <2>2. prog[d] \notin Darkening
    BY <2>1, KindHeads DEF Idles
  <2>3. ~ Unlit(prog[d])
    BY <2>1, <2>2 DEF Unlit, Idles, LampWork
  <2>4. CASE prog'[d] = Tail(prog[d])
    <3>1. /\ Unsaved(prog[d]) => Unsaved(prog'[d])
          /\ Assembled(prog'[d]) => Assembled(prog[d])
      BY <1>1, <2>1, <2>4, TailSaves DEF Idles
    <3>2. prog'[d] # <<>> => /\ prog'[d] \notin Darkening
                             /\ Head(prog'[d]).do \notin {"lampOn", "lampOther"}
      BY <1>1, <2>1, <2>2, <2>4, TailLights DEF Idles
    <3> QED
      BY <2>1, <2>3, <3>1, <3>2
  <2>5. CASE Head(prog[d]).do = "sense" /\ prog'[d] = <<>>
    <3>1. ~ Unsaved(prog[d])
      BY <2>1, <2>5, KindHeads DEF Unsaved
    <3> QED
      BY <2>1, <2>3, <2>5, <3>1 DEF Assembled
  <2> QED
    BY <1>3, <2>4, <2>5
<1>4. Shut'
  BY <1>3 DEF Shut, Due, Quiet
<1>5. BytesFresh'
  BY <1>3 DEF BytesFresh, Quiet, Want
<1>6. LampsFresh'
  BY <1>3 DEF LampsFresh, LampSeen, Quiet
<1>7. SavedOrDue'
  BY <1>3 DEF SavedOrDue, Quiet, Want
<1>8. LitOrDue'
  BY <1>3 DEF LitOrDue, Quiet
<1> QED
  BY <1>2, <1>4, <1>5, <1>6, <1>7, <1>8

\* A flag changes: whoever is at work has been overtaken.
LEMMA OvertakenFresh ==
  ASSUME Work, NEW c \in Task,
         \A d \in Task \ {c} : prog'[d] = prog[d],
         \A d \in Task \ {c} : prog[d] # <<>> => d \in cut'
  PROVE  \A d \in Task \ {c} : /\ Assembled(prog'[d]) => d \in cut'
                               /\ d \in cut' \/ LampSeen(prog[d])'
BY DEF Assembled, LampSeen

LEMMA SetFlagWork ==
  ASSUME IInv, Work, NEW c \in Task, SetFlag(c)
  PROVE  Work'
<1> USE DEF Work
<1> DEFINE p == prog[c]
           f == Due(c).flag
<1>1. /\ p # <<>> /\ p \in Kind(c) /\ (p \in Setting \/ p \in Remote)
      /\ Due(c) = Head(p) /\ Head(p).do \in {"on", "off"}
      /\ prog' = [prog EXCEPT ![c] = Tail(p)] /\ prog \in [Task -> Program]
      /\ on' = IF Head(p).do = "on" THEN on \cup {f} ELSE on \ {f}
      /\ UNCHANGED <<lamp, remote_shutdown, stored, byte, before, lost, dim, inDark>>
      /\ cut' = cut \cup {d \in Task \ {c} : prog[d] # <<>>}
  BY KindTail DEF SetFlag, Step, Runs, Ready, Go, Due, IInv, Progs, Kinds, Overtake
<1>2. /\ prog'[c] = Tail(p)
      /\ \A d \in Task \ {c} : prog'[d] = prog[d]
      /\ \A d \in Task \ {c} : prog[d] # <<>> => d \in cut'
  BY <1>1
<1>3. p \in Setting \/ (p \in Darkening /\ p \notin Setting /\ remote_shutdown /\ Head(p).do = "off")
  <2>1. p \in Setting \/ (p \in Darkening /\ p \notin Setting /\ Head(p).do = "off")
    BY <1>1, KindHeads DEF Remote
  <2> QED
    BY <1>1, <2>1 DEF Shut
<1> HIDE DEF p, f
<1>4. Kinds'
  <2>1. Tail(p) \in Kind(c)
    BY <1>1, KindTail
  <2> QED
    BY <1>2, <2>1 DEF Kinds
<1>5. Shut'
  <2>1. Tail(p) # <<>> /\ Tail(p) \in Darkening => p \in Darkening
    BY <1>1, TailLights
  <2>2. p \in Darkening => remote_shutdown
    BY <1>1, <1>3, KindHeads
  <2> QED
    BY <1>1, <1>2, <2>1, <2>2 DEF Shut, Due
<1>6. BytesFresh'
  <2>1. ~ Assembled(Tail(p))
    BY <1>1, TailSaves
  <2> QED
    BY <1>2, <2>1, OvertakenFresh DEF BytesFresh
<1>7. LampsFresh'
  <2>1. c \in cut \/ LampSeen(p)
    BY DEF LampsFresh, p
  <2>2. ASSUME LampSeen(p), Tail(p) # <<>>
        PROVE  /\ Head(Tail(p)).do = "lampOn" => Head(Tail(p)).flag \in on' \cap Zones
               /\ Head(Tail(p)).do = "lampOther" => Head(Tail(p)).flag \notin on'
               /\ Tail(p) \in Darkening => \A g \in on' : Offs(Tail(p), g)
    <3>1. f = Head(p).flag
      BY <1>1 DEF f
    <3>2. Head(Tail(p)).do = "lampOn" => Head(Tail(p)).flag \in on' \cap Zones
      BY <1>1, <2>2, <3>1, TailLights
    <3>3. Head(Tail(p)).do = "lampOther" => Head(Tail(p)).flag \notin on'
      BY <1>1, <2>2, <3>1, TailLights
    <3>4. ASSUME Tail(p) \in Darkening, NEW g \in on'
          PROVE  Offs(Tail(p), g)
      <4>1. p \in Darkening /\ Head(p).do = "off"
        BY <1>1, <1>3, <2>2, <3>4, TailLights, KindHeads
      <4>2. g \in on /\ g # f
        BY <1>1, <3>4, <4>1
      <4>3. Offs(p, g)
        BY <1>1, <2>2, <4>1, <4>2 DEF LampSeen
      <4> QED
        BY <1>1, <2>2, <3>1, <3>4, <4>2, <4>3, TailLights
    <3> QED
      BY <3>2, <3>3, <3>4
  <2>3. LampSeen(p) => LampSeen(prog[c])'
    BY <1>2, <2>2 DEF LampSeen
  <2>4. c \in cut' \/ LampSeen(prog[c])'
    BY <1>1, <2>1, <2>3
  <2> QED
    BY <1>2, <2>4, OvertakenFresh DEF LampsFresh
<1>8. SavedOrDue'
  <2>1. CASE p \in Setting
    <3>1. Unsaved(p)
      BY <1>1, <2>1 DEF Unsaved
    <3>2. Unsaved(Tail(p))
      BY <1>1, <3>1, TailSaves
    <3> QED
      BY <1>2, <3>2 DEF SavedOrDue
  <2>2. CASE p \in Darkening /\ remote_shutdown
    <3>1. ~ Unsaved(p)
      BY <1>1, <2>2, KindHeads DEF Unsaved
    <3>2. (\E d \in Task : Unsaved(prog[d])) => \E d \in Task : Unsaved(prog'[d])
      BY <1>2, <3>1 DEF p
    <3>3. Want' = Want
      BY <1>1, <2>2 DEF Want
    <3> QED
      BY <1>1, <3>2, <3>3 DEF SavedOrDue
  <2> QED
    BY <1>3, <2>1, <2>2
<1>9. LitOrDue'
  <2>1. Unlit(p) => Unlit(Tail(p))
    BY <1>1, TailLights
  <2>2. (\E d \in Task : Unlit(prog[d])) => \E d \in Task : Unlit(prog'[d])
    BY <1>2, <2>1 DEF p
  <2>3. CASE p \in Setting /\ f \notin Zones
    <3>1. on' \cap Zones = on \cap Zones
      BY <1>1, <2>3
    <3> QED
      BY <1>1, <2>2, <3>1 DEF LitOrDue
  <2>4. CASE p \in Darkening \/ f \in Zones
    <3>1. Unlit(p)
      BY <1>1, <1>3, <2>4 DEF Unlit, LampWork, f
    <3> QED
      BY <1>2, <2>1, <3>1 DEF LitOrDue
  <2> QED
    BY <1>3, <2>3, <2>4
<1> QED
  BY <1>4, <1>5, <1>6, <1>7, <1>8, <1>9

\* One task goes on to q, the flags staying as they are.
LEMMA OwnStep ==
  ASSUME Progs, Work, NEW c \in Task, NEW q \in Kind(c),
         prog' = [prog EXCEPT ![c] = q], on' = on, Want' = Want,
         cut \ {c} \subseteq cut', inDark => inDark', remote_shutdown => remote_shutdown',
         \A d \in Task \ {c} : byte'[d] = byte[d],
         Assembled(q) => c \in cut' \/ inDark' \/ byte'[c] = Want,
         c \in cut' \/ LampSeen(q),
         q # <<>> /\ q \in Darkening /\ Head(q).do # "down" => remote_shutdown'
  PROVE  /\ Kinds' /\ Shut' /\ BytesFresh' /\ LampsFresh'
         /\ (Unsaved(prog[c]) => Unsaved(q)) /\ (\E d \in Task : Unsaved(prog[d]))
              => \E d \in Task : Unsaved(prog'[d])
         /\ (Unlit(prog[c]) => Unlit(q)) /\ (\E d \in Task : Unlit(prog[d]))
              => \E d \in Task : Unlit(prog'[d])
         /\ Unsaved(q) => \E d \in Task : Unsaved(prog'[d])
         /\ Unlit(q) => \E d \in Task : Unlit(prog'[d])
<1> USE DEF Work, Progs
<1>1. prog'[c] = q /\ \A d \in Task \ {c} : prog'[d] = prog[d]
  OBVIOUS
<1>2. Kinds'
  BY <1>1 DEF Kinds
<1>3. Shut'
  BY <1>1 DEF Shut, Due
<1>4. BytesFresh'
  BY <1>1 DEF BytesFresh
<1>5. LampsFresh'
  BY <1>1 DEF LampsFresh, LampSeen
<1> QED
  BY <1>1, <1>2, <1>3, <1>4, <1>5

\* The next access of a task, of the kinds A, and the handler's rest.
LEMMA DueOf ==
  ASSUME IInv, Work, NEW c \in Task, NEW what, Step(c, what)
  PROVE  /\ prog[c] # <<>> /\ prog[c] \in Kind(c)
         /\ prog[c] \in Setting \/ prog[c] \in Remote
         /\ Due(c) = Head(prog[c]) /\ Head(prog[c]).do = what
         /\ Tail(prog[c]) \in Kind(c)
         /\ c # LCD => what \notin Page
         /\ Progs
BY KindTail DEF Step, Runs, Ready, Due, IInv, Work, Kinds

LEMMA SetLampWork ==
  ASSUME IInv, Work, NEW c \in Task, SetLamp(c)
  PROVE  Work'
<1> DEFINE p == prog[c]
<1>1. PICK what \in {"lampOn", "lampOther", "dark"} :
        /\ Step(c, what)
        /\ what = "lampOn" => lamp' = TRUE
        /\ what = "lampOther" => lamp' = (Zones \cap (on \ {Due(c).flag}) # {})
        /\ what = "dark" => lamp' = FALSE
  BY DEF SetLamp
<1>2. /\ p # <<>> /\ (p \in Setting \/ p \in Remote)
      /\ Due(c) = Head(p) /\ Head(p).do = what /\ Tail(p) \in Kind(c) /\ Progs
  BY <1>1, DueOf
<1>3. /\ prog' = [prog EXCEPT ![c] = Tail(p)]
      /\ UNCHANGED <<on, remote_shutdown, stored, byte, before, cut, lost, inDark>>
      /\ dim' = (c \in cut)
  BY <1>2 DEF SetLamp, Go, Progs
<1>4. c \in cut \/ LampSeen(p)
  BY DEF Work, LampsFresh
<1> HIDE DEF p
<1>5. ~ Assembled(Tail(p)) /\ LampSeen(Tail(p))
      /\ (Tail(p) # <<>> => Tail(p) \notin Darkening)
  <2>1. ~ Assembled(Tail(p))
    BY <1>2, TailSaves
  <2>2. Tail(p) # <<>> => Tail(p) \notin Darkening
    BY <1>2, TailLights, DarkeningTail, KindHeads
  <2>3. LampSeen(Tail(p))
    BY <1>2, <2>2, TailLights DEF LampSeen
  <2> QED
    BY <2>1, <2>2, <2>3
<1>6. Unsaved(p) => Unsaved(Tail(p))
  BY <1>2, TailSaves
<1>7. Want' = Want
  BY <1>3 DEF Want
<1>8. /\ Kinds' /\ Shut' /\ BytesFresh' /\ LampsFresh'
      /\ (\E d \in Task : Unsaved(prog[d])) => \E d \in Task : Unsaved(prog'[d])
  BY <1>2, <1>3, <1>5, <1>6, <1>7, OwnStep DEF p
<1>9. SavedOrDue'
  BY <1>3, <1>7, <1>8 DEF SavedOrDue, Work
<1>10. LitOrDue'
  <2>1. CASE c \in cut
    BY <1>3, <2>1 DEF LitOrDue
  <2>2. CASE LampSeen(p)
    <3>1. on' = on
      BY <1>3
    <3>2. CASE what = "lampOn"
      <4>1. lamp' = TRUE /\ on \cap Zones # {}
        BY <1>1, <1>2, <2>2, <3>2 DEF LampSeen
      <4> QED
        BY <3>1, <4>1 DEF LitOrDue
    <3>3. CASE what = "lampOther"
      <4>1. Zones \cap (on \ {Due(c).flag}) = on \cap Zones
        BY <1>2, <2>2, <3>3 DEF LampSeen
      <4>2. lamp' <=> on \cap Zones # {}
        BY <1>1, <3>3, <4>1
      <4> QED
        BY <3>1, <4>2 DEF LitOrDue
    <3>4. CASE what = "dark"
      <4>1. p \in Darkening
        BY <1>2, <3>4, KindHeads DEF Remote
      <4>2. \A f : ~ Offs(p, f)
        <5>1. Tail(p) = <<>>
          BY <1>2, <3>4, <4>1, DarkeningTail
        <5>2. Len(p) = 1 /\ p[1] = Head(p)
          BY <1>2, <4>1, <5>1, TailIndices DEF Darkening, Over
        <5> QED
          BY <1>2, <3>4, <5>2 DEF Offs
      <4>3. on = {}
        BY <1>2, <2>2, <4>1, <4>2 DEF LampSeen
      <4>4. lamp' = FALSE /\ on \cap Zones = {}
        BY <1>1, <3>4, <4>3
      <4> QED
        BY <3>1, <4>4 DEF LitOrDue
    <3> QED
      BY <3>2, <3>3, <3>4
  <2> QED
    BY <1>4, <2>1, <2>2
<1> QED
  BY <1>8, <1>9, <1>10 DEF Work

LEMMA GoDownWork ==
  ASSUME IInv, Work, NEW c \in Task, GoDown(c)
  PROVE  Work'
<1> DEFINE p == prog[c]
<1>1. /\ p # <<>> /\ (p \in Setting \/ p \in Remote)
      /\ Head(p).do = "down" /\ Tail(p) \in Kind(c) /\ Progs
  BY DueOf DEF GoDown
<1>2. /\ prog' = [prog EXCEPT ![c] = Tail(p)]
      /\ remote_shutdown' = TRUE
      /\ before' = IF remote_shutdown THEN before ELSE on
      /\ UNCHANGED <<on, lamp, stored, byte, cut, lost, dim, inDark>>
  BY <1>1 DEF GoDown, Go, Progs
<1>3. c \in cut \/ LampSeen(p)
  BY DEF Work, LampsFresh
<1> HIDE DEF p
<1>4. ~ Assembled(Tail(p)) /\ (LampSeen(p) => LampSeen(Tail(p)))
  <2>1. ~ Assembled(Tail(p))
    BY <1>1, TailSaves
  <2>2. LampSeen(p) => LampSeen(Tail(p))
    BY <1>1, TailLights DEF LampSeen
  <2> QED
    BY <2>1, <2>2
<1>5. (Unsaved(p) => Unsaved(Tail(p))) /\ (Unlit(p) => Unlit(Tail(p)))
  BY <1>1, TailSaves, TailLights
<1>6. Want' = Want
  BY <1>2 DEF Want
<1>7. /\ Kinds' /\ Shut' /\ BytesFresh' /\ LampsFresh'
      /\ (\E d \in Task : Unsaved(prog[d])) => \E d \in Task : Unsaved(prog'[d])
      /\ (\E d \in Task : Unlit(prog[d])) => \E d \in Task : Unlit(prog'[d])
  BY <1>1, <1>2, <1>3, <1>4, <1>5, <1>6, OwnStep DEF p
<1>8. SavedOrDue' /\ LitOrDue'
  BY <1>2, <1>6, <1>7 DEF SavedOrDue, LitOrDue, Work
<1> QED
  BY <1>7, <1>8 DEF Work

LEMMA AssembleWork ==
  ASSUME IInv, Work, NEW c \in Task, Assemble(c)
  PROVE  Work'
<1> DEFINE p == prog[c]
<1>1. /\ p # <<>> /\ (p \in Setting \/ p \in Remote)
      /\ Head(p).do = "byte" /\ Tail(p) \in Kind(c) /\ Progs
  BY DueOf DEF Assemble
<1>2. /\ prog' = [prog EXCEPT ![c] = Tail(p)]
      /\ byte' = [byte EXCEPT ![c] = on] /\ byte \in [Task -> SUBSET Flag]
      /\ cut' = cut \ {c}
      /\ inDark' = (inDark \/ remote_shutdown)
      /\ UNCHANGED <<on, lamp, remote_shutdown, stored, before, lost, dim>>
  BY <1>1 DEF Assemble, Go, Progs, host, IInv, TypeOK
<1> HIDE DEF p
<1>3. LampSeen(Tail(p)) /\ (Tail(p) # <<>> => Tail(p) \notin Darkening)
  <2>1. Tail(p) # <<>> => Tail(p) \notin Darkening
    BY <1>1, TailLights, KindHeads
  <2> QED
    BY <1>1, <2>1, TailLights DEF LampSeen
<1>4. (Unsaved(p) => Unsaved(Tail(p))) /\ (Unlit(p) => Unlit(Tail(p)))
  BY <1>1, TailSaves, TailLights
<1>5. Want' = Want /\ (inDark' \/ byte'[c] = Want)
  BY <1>2 DEF Want
<1>6. /\ Kinds' /\ Shut' /\ BytesFresh' /\ LampsFresh'
      /\ (\E d \in Task : Unsaved(prog[d])) => \E d \in Task : Unsaved(prog'[d])
      /\ (\E d \in Task : Unlit(prog[d])) => \E d \in Task : Unlit(prog'[d])
  BY <1>1, <1>2, <1>3, <1>4, <1>5, OwnStep DEF p
<1>7. SavedOrDue' /\ LitOrDue'
  BY <1>2, <1>5, <1>6 DEF SavedOrDue, LitOrDue, Work
<1> QED
  BY <1>6, <1>7 DEF Work

\* A byte stored by a task that was not overtaken is what is wanted.
LEMMA WriteWork ==
  ASSUME IInv, Work, NEW c \in Task, Write(c)
  PROVE  Work'
<1> DEFINE p == prog[c]
<1>1. PICK what \in {"write", "erase"} : Step(c, what) /\ (what = "write" => stored' = byte[c])
  BY DEF Write
<1>2. /\ p # <<>> /\ (p \in Setting \/ p \in Remote)
      /\ Head(p).do = what /\ Tail(p) \in Kind(c) /\ Progs
  BY <1>1, DueOf
<1>3. /\ prog' = [prog EXCEPT ![c] = Tail(p)]
      /\ byte' = [byte EXCEPT ![c] = {}] /\ byte \in [Task -> SUBSET Flag]
      /\ lost' = (c \in cut)
      /\ UNCHANGED <<on, lamp, remote_shutdown, before, cut, dim, inDark>>
  BY <1>2 DEF Write, Go, Progs, IInv, TypeOK
<1>4. Assembled(p) => c \in cut \/ inDark \/ byte[c] = Want
  BY DEF Work, BytesFresh
<1> HIDE DEF p
<1>5. ~ Assembled(Tail(p)) /\ LampSeen(Tail(p))
      /\ (Tail(p) # <<>> => Tail(p) \notin Darkening)
  <2>1. ~ Assembled(Tail(p))
    BY <1>2, TailSaves
  <2>2. Tail(p) # <<>> => Tail(p) \notin Darkening
    BY <1>2, TailLights, KindHeads
  <2>3. LampSeen(Tail(p))
    BY <1>2, <2>2, TailLights DEF LampSeen
  <2> QED
    BY <2>1, <2>2, <2>3
<1>6. Unlit(p) => Unlit(Tail(p))
  BY <1>2, TailLights
<1>7. Want' = Want
  BY <1>3 DEF Want
<1>8. /\ Kinds' /\ Shut' /\ BytesFresh' /\ LampsFresh'
      /\ (\E d \in Task : Unlit(prog[d])) => \E d \in Task : Unlit(prog'[d])
      /\ Unsaved(Tail(p)) => \E d \in Task : Unsaved(prog'[d])
  BY <1>2, <1>3, <1>5, <1>6, <1>7, OwnStep DEF p
<1>9. LitOrDue'
  BY <1>3, <1>8 DEF LitOrDue, Work
<1>10. SavedOrDue'
  <2>1. CASE what = "write"
    <3>1. p \in Setting
      BY <1>2, <2>1, KindHeads DEF Remote
    <3>2. Assembled(p)
      BY <1>2, <2>1, <3>1 DEF Assembled
    <3>3. lost' \/ inDark' \/ stored' = Want'
      BY <1>1, <1>3, <1>4, <1>7, <2>1, <3>2
    <3> QED
      BY <3>3 DEF SavedOrDue
  <2>2. CASE what = "erase"
    <3>1. p \in Resetting
      BY <1>2, <2>2, KindHeads DEF Remote
    <3>2. Unsaved(Tail(p))
      BY <1>2, <2>2, <3>1, TailSaves DEF Unsaved
    <3> QED
      BY <1>8, <3>2 DEF SavedOrDue
  <2> QED
    BY <2>1, <2>2
<1> QED
  BY <1>8, <1>9, <1>10 DEF Work

LEMMA LcdTask == LCD \in Task /\ Kind(LCD) = Setting
BY Tasks DEF Kind

LEMMA CopyWork ==
  ASSUME IInv, Work, NEW c \in Task, Copy(c)
  PROVE  Work' /\ c = LCD
<1> DEFINE p == prog[c]
           f == Due(c).flag
<1>1. /\ p # <<>> /\ (p \in Setting \/ p \in Remote) /\ p \in Kind(c)
      /\ Due(c) = Head(p) /\ Head(p).do = "copy" /\ Tail(p) \in Kind(c) /\ Progs
      /\ c = LCD
  BY DueOf DEF Copy, Page
<1>2. /\ UNCHANGED <<lamp, remote_shutdown, stored, byte, bus, row, tmp, toggled,
                     before, lost, dim, inDark, unanswered>>
      /\ \/ Go(c) /\ UNCHANGED <<on, cut, touched>>
         \/ /\ on' = IF f \in tmp THEN on \cup {f} ELSE on \ {f}
            /\ Overtake(c, f)
            /\ prog' = [prog EXCEPT ![c] = <<Do("again", f)>> \o Tail(@)]
  BY DEF Copy
<1>3. f \in Flag
  <2>1. "copy" \in OnFlag
    BY DEF OnFlag
  <2>2. Step(c, "copy")
    BY DEF Copy
  <2> QED
    BY <2>1, <2>2, DueItem
<1> HIDE DEF f
<1>4. CASE Go(c) /\ UNCHANGED <<on, cut, touched>>
  <2>1. /\ prog'[c] = Tail(p) /\ \A d \in Task \ {c} : prog'[d] = prog[d]
        /\ Quiet
    BY <1>1, <1>2, <1>4 DEF Go, Progs, Quiet
  <2> QED
    BY <1>1, <2>1, MovesOn DEF Idles
<1>5. CASE /\ on' = IF f \in tmp THEN on \cup {f} ELSE on \ {f}
           /\ Overtake(c, f)
           /\ prog' = [prog EXCEPT ![c] = <<Do("again", f)>> \o Tail(@)]
  <2> DEFINE q == <<Do("again", f)>> \o Tail(p)
  <2>1. Tail(p) \in Setting /\ Tail(p) # <<>> /\ Head(Tail(p)).do \in {"copy", "leave"}
    <3>1. Tail(p) \in Setting /\ p \in Setting
      BY <1>1, LcdTask
    <3>2. Tail(p) # <<>>
      BY <1>1, <3>1, SettingTail
    <3>3. Follows(Head(p), Head(Tail(p)))
      BY <1>1, <3>1, <3>2, SettingTail
    <3> QED
      BY <1>1, <3>1, <3>2, <3>3 DEF Follows
  <2>2. q \in Setting /\ q # <<>> /\ Head(q) = Do("again", f)
    BY <1>3, <2>1, AgainSetting
  <2>3. Head(q).do = "again" /\ Head(q).flag = f /\ q \notin Darkening
    <3>1. q \notin Darkening
      BY <2>2, KindHeads
    <3>2. Do("again", f).do = "again" /\ Do("again", f).flag = f
      BY DEF Do
    <3> QED
      BY <2>2, <3>1, <3>2
  <2>4. /\ prog' = [prog EXCEPT ![c] = q]
        /\ prog'[c] = q /\ \A d \in Task \ {c} : prog'[d] = prog[d]
        /\ \A d \in Task \ {c} : prog[d] # <<>> => d \in cut'
    BY <1>1, <1>5 DEF Progs, Overtake
  <2>5. ~ Unlit(p)
    <3>1. p \in Setting
      BY <1>1, LcdTask
    <3> QED
      BY <1>1, <3>1, KindHeads DEF Unlit, LampWork
  <2> HIDE DEF q, p
  <2>6. Kinds'
    BY <1>1, <2>2, <2>4, LcdTask DEF Work, Kinds
  <2>7. Shut'
    BY <1>2, <2>3, <2>4 DEF Work, Shut, Due
  <2>8. BytesFresh'
    BY <2>3, <2>4, OvertakenFresh DEF BytesFresh, Assembled
  <2>9. LampsFresh'
    <3>1. LampSeen(prog[c])'
      BY <2>3, <2>4 DEF LampSeen
    <3> QED
      BY <2>4, <3>1, OvertakenFresh DEF LampsFresh
  <2>10. SavedOrDue'
    <3>1. Unsaved(q)
      BY <2>2, <2>3 DEF Unsaved
    <3> QED
      BY <2>4, <3>1 DEF SavedOrDue
  <2>11. LitOrDue'
    <3>1. CASE f \in Zones
      <4>1. Unlit(q)
        BY <2>2, <2>3, <3>1 DEF Unlit, LampWork
      <4> QED
        BY <2>4, <4>1 DEF LitOrDue
    <3>2. CASE f \notin Zones
      <4>1. on' \cap Zones = on \cap Zones
        BY <1>5, <3>2
      <4>2. (\E d \in Task : Unlit(prog[d])) => \E d \in Task : Unlit(prog'[d])
        BY <2>4, <2>5 DEF p
      <4> QED
        BY <1>2, <4>1, <4>2 DEF LitOrDue, Work
    <3> QED
      BY <3>1, <3>2
  <2> QED
    BY <1>1, <2>6, <2>7, <2>8, <2>9, <2>10, <2>11 DEF Work
<1> QED
  BY <1>1, <1>2, <1>4, <1>5

LEMMA AgainWork ==
  ASSUME IInv, Work, NEW c \in Task, Again(c)
  PROVE  /\ Work' /\ c = LCD
         /\ prog'[c] # <<>>
         /\ \/ Head(prog'[c]) = Do("on", Due(c).flag) /\ Due(c).flag \in on
            \/ Head(prog'[c]) = Do("off", Due(c).flag) /\ Due(c).flag \notin on
<1> DEFINE p == prog[c]
           f == Due(c).flag
           s == IF f \in on THEN Start(f) ELSE Stop(f)
           q == s \o Tail(p)
<1>1. /\ p # <<>> /\ (p \in Setting \/ p \in Remote) /\ p \in Kind(c)
      /\ Due(c) = Head(p) /\ Head(p).do = "again" /\ Tail(p) \in Kind(c) /\ Progs
      /\ c = LCD
  BY DueOf DEF Again, Page
<1>2. f \in Flag
  <2>1. "again" \in OnFlag
    BY DEF OnFlag
  <2>2. Step(c, "again")
    BY DEF Again
  <2> QED
    BY <2>1, <2>2, DueItem
<1>3. /\ prog' = [prog EXCEPT ![c] = q] /\ prog'[c] = q
      /\ cut' = cut \ {c}
      /\ UNCHANGED <<on, lamp, remote_shutdown, stored, byte, before, lost, dim, inDark>>
  BY <1>1 DEF Again, Progs, host
<1>4. p \in Setting /\ Tail(p) \in Setting
      /\ (Tail(p) # <<>> => Head(Tail(p)).do \in {"copy", "leave"})
  <2>1. p \in Setting /\ Tail(p) \in Setting
    BY <1>1, LcdTask
  <2>2. Tail(p) # <<>> => Follows(Head(p), Head(Tail(p)))
    BY <1>1, <2>1, SettingTail
  <2> QED
    BY <1>1, <2>1, <2>2 DEF Follows
<1>5. /\ s \in Saved
      /\ \/ Head(s) = Do("on", f) /\ f \in on
         \/ Head(s) = Do("off", f) /\ f \notin on
  BY <1>2, StartStopSaved
<1> HIDE DEF s, f
<1>6. q \in Setting /\ q # <<>> /\ Head(q) = Head(s)
  BY <1>4, <1>5, SavedThenPage
<1> HIDE DEF q, p
<1>7. Head(q).do \in {"on", "off"} /\ Head(q).flag = f /\ q \notin Darkening /\ q \in Kind(c)
  BY <1>1, <1>5, <1>6, KindHeads, LcdTask DEF Do
<1>8. Unsaved(q) /\ ~ Assembled(q) /\ LampSeen(q) /\ (Unlit(p) => Unlit(q))
  <2>1. Unsaved(q) /\ ~ Assembled(q)
    BY <1>6, <1>7 DEF Unsaved, Assembled
  <2>2. LampSeen(q)
    BY <1>7 DEF LampSeen
  <2>3. Unlit(p) => f \in Zones
    BY <1>1, <1>4, KindHeads DEF Unlit, f
  <2>4. f \in Zones => Unlit(q)
    BY <1>6, <1>7 DEF Unlit, LampWork
  <2> QED
    BY <2>1, <2>2, <2>3, <2>4
<1>9. Want' = Want
  BY <1>3 DEF Want
<1>10. /\ Kinds' /\ Shut' /\ BytesFresh' /\ LampsFresh'
       /\ \E d \in Task : Unsaved(prog'[d])
       /\ (\E d \in Task : Unlit(prog[d])) => \E d \in Task : Unlit(prog'[d])
  BY <1>1, <1>3, <1>7, <1>8, <1>9, OwnStep DEF p
<1>11. SavedOrDue' /\ LitOrDue'
  BY <1>3, <1>10 DEF SavedOrDue, LitOrDue, Work
<1> QED
  BY <1>1, <1>3, <1>5, <1>6, <1>10, <1>11 DEF Work, f

\* How the handlers begin.
Begins(p) ==
  /\ ~ Assembled(p)
  /\ p # <<>> => Head(p).do \notin {"lampOn", "lampOther"}
  /\ p # <<>> /\ p \in Darkening => Head(p).do = "down" /\ \A f \in Flag : Offs(p, f)

LEMMA HandlersBegin ==
  /\ \A f \in Flag : /\ Start(f) \in Remote /\ Begins(Start(f))
                     /\ Stop(f) \in Remote /\ Begins(Stop(f))
  /\ \A p \in {Shutdown, PowerOn, systemDefault, LM75_ReadTemp} : p \in Remote /\ Begins(p)
  /\ SavePage \in Setting /\ Begins(SavePage)
<1>1. ASSUME NEW f \in Flag, NEW p \in {Start(f), Stop(f)}
      PROVE  p \in Remote /\ Begins(p)
  <2>1. p \in Saved /\ Head(p).do \in {"on", "off"}
    BY StartStopSaved DEF Do
  <2>2. p \in Remote /\ p \in Setting /\ p # <<>>
    BY <2>1, SavedIsSetting
  <2> QED
    BY <2>1, <2>2, KindHeads DEF Begins, Assembled
<1>2. Shutdown \in Remote /\ Begins(Shutdown)
  BY ShutdownDarkening, KindHeads DEF Begins, Assembled
<1>3. ASSUME NEW p \in {PowerOn, systemDefault}
      PROVE  p \in Remote /\ Begins(p)
  <2>1. p \in Resetting /\ p \in Remote
    BY OthersRemote
  <2> QED
    BY <2>1, KindHeads DEF Begins, Assembled
<1>4. LM75_ReadTemp \in Remote /\ Begins(LM75_ReadTemp)
  BY OthersRemote, KindHeads DEF Begins, Assembled
<1>5. SavePage \in Setting /\ Begins(SavePage)
  BY SavePageSetting, KindHeads DEF Begins, Assembled
<1> QED
  BY <1>1, <1>2, <1>3, <1>4, <1>5

LEMMA AskWork ==
  ASSUME IInv, Work, NEW c \in Task, NEW p \in Kind(c), Begins(p), Ask(c, p)
  PROVE  Work'
<1>1. /\ prog[c] = <<>> /\ prog' = [prog EXCEPT ![c] = p]
      /\ cut' = cut \ {c} /\ Progs /\ on \subseteq Flag
      /\ UNCHANGED <<on, lamp, remote_shutdown, stored, byte, before, lost, dim, inDark>>
  BY DEF Ask, Idle, host, IInv, TypeOK
<1>2. LampSeen(p)
  BY <1>1 DEF Begins, LampSeen
<1>3. ~ Unsaved(prog[c]) /\ ~ Unlit(prog[c])
  BY <1>1 DEF Unsaved, Unlit
<1>4. Want' = Want
  BY <1>1 DEF Want
<1>5. /\ Kinds' /\ Shut' /\ BytesFresh' /\ LampsFresh'
      /\ (\E d \in Task : Unsaved(prog[d])) => \E d \in Task : Unsaved(prog'[d])
      /\ (\E d \in Task : Unlit(prog[d])) => \E d \in Task : Unlit(prog'[d])
  BY <1>1, <1>2, <1>3, <1>4, OwnStep DEF Begins
<1>6. SavedOrDue' /\ LitOrDue'
  BY <1>1, <1>4, <1>5 DEF SavedOrDue, LitOrDue, Work
<1> QED
  BY <1>5, <1>6 DEF Work

\* A start: nobody is at work, and what is on is what is stored.
LEMMA StartedWork ==
  /\ Init => Work
  /\ Restart /\ IInv => Work'
<1>1. \A c : <<>> \in Kind(c)
  BY EmptyParts DEF Kind
<1>2. \A saved : (saved \in SUBSET Flag \/ saved = FACTORY) =>
        (IF saved = FACTORY THEN Restored(saved) ELSE saved) \cap Visible
           = Restored(saved) \cap Visible
  BY DEF Restored
<1>3. ASSUME Init
      PROVE  Work
  <2>1. PICK saved \in (SUBSET Flag) \cup {FACTORY} : Started(saved)
    BY <1>3 DEF Init
  <2>2. Kinds /\ Shut /\ BytesFresh /\ LampsFresh
    BY <1>1, <2>1 DEF Started, Kinds, Shut, BytesFresh, LampsFresh, Assembled, LampSeen
  <2>3. SavedOrDue
    BY <1>2, <2>1 DEF Started, SavedOrDue, Want
  <2>4. LitOrDue
    BY <2>1 DEF Started, LitOrDue
  <2> QED
    BY <2>2, <2>3, <2>4 DEF Work
<1>4. ASSUME Restart, IInv
      PROVE  Work'
  <2>1. Kinds' /\ Shut' /\ BytesFresh' /\ LampsFresh'
    BY <1>1, <1>4 DEF Restart, Kinds, Shut, BytesFresh, LampsFresh, Assembled, LampSeen
  <2>2. SavedOrDue'
    BY <1>2, <1>4 DEF Restart, SavedOrDue, Want, IInv, TypeOK
  <2>3. LitOrDue'
    BY <1>4 DEF Restart, LitOrDue
  <2> QED
    BY <2>1, <2>2, <2>3 DEF Work
<1> QED
  BY <1>3, <1>4

LEMMA WorkUntouched ==
  ASSUME Work, UNCHANGED <<host, prog, byte, past>>
  PROVE  Work'
BY DEF Work, Kinds, Shut, BytesFresh, LampsFresh, SavedOrDue, LitOrDue, Want, LampSeen,
       Due, host, past

LEMMA AccessWork ==
  ASSUME IInv, Work, NEW c \in Task, Access(c)
  PROVE  Work'
<1>1. CASE SetFlag(c)
  BY <1>1, SetFlagWork
<1>2. CASE SetLamp(c)
  BY <1>2, SetLampWork
<1>3. CASE GoDown(c)
  BY <1>3, GoDownWork
<1>4. CASE Assemble(c)
  BY <1>4, AssembleWork
<1>5. CASE Write(c)
  BY <1>5, WriteWork
<1>6. CASE Copy(c)
  BY <1>6, CopyWork
<1>7. CASE Again(c)
  BY <1>7, AgainWork
<1>8. CASE OSMutexPend(c)
  <2>1. prog[c] # <<>> /\ Head(prog[c]).do = "pend" /\ Progs
    BY <1>8, DueOf DEF OSMutexPend
  <2>2. \A d \in Task : prog'[d] = prog[d] \/ (d = c /\ prog'[d] = Tail(prog[d]))
    BY <1>8, <2>1 DEF OSMutexPend, Go, Progs
  <2>3. Quiet
    BY <1>8 DEF OSMutexPend, Quiet, host, past
  <2> QED
    BY <2>1, <2>2, <2>3, MovesOn DEF Idles
<1>9. CASE OSMutexPost(c)
  <2>1. prog[c] # <<>> /\ Head(prog[c]).do = "post" /\ Progs
    BY <1>9, DueOf DEF OSMutexPost
  <2>2. Quiet
    BY <1>9 DEF OSMutexPost, Quiet, host, past
  <2>3. CASE waiting = {}
    <3>1. \A d \in Task : prog'[d] = prog[d] \/ (d = c /\ prog'[d] = Tail(prog[d]))
      BY <1>9, <2>1, <2>3 DEF OSMutexPost, Go, Progs
    <3> QED
      BY <2>1, <2>2, <3>1, MovesOn DEF Idles
  <2>4. CASE waiting # {}
    <3> DEFINE o == MostUrgent(waiting)
    <3>1. o \in waiting /\ o \in Task
      BY <2>4, MostUrgentIn DEF IInv, TypeOK
    <3>2. prog[o] # <<>> /\ Head(prog[o]).do = "pend"
      BY <3>1 DEF IInv, Queued
    <3>3. prog' = [prog EXCEPT ![c] = Tail(@), ![o] = Tail(@)] /\ o # c
      BY <1>9, <2>1, <2>4, <3>2 DEF OSMutexPost
    <3> HIDE DEF o
    <3>4. \A d \in Task : prog'[d] = prog[d] \/ (d \in {c, o} /\ prog'[d] = Tail(prog[d]))
      BY <2>1, <3>1, <3>3 DEF Progs
    <3> QED
      BY <2>1, <2>2, <3>2, <3>4, MovesOn DEF Idles
  <2> QED
    BY <2>3, <2>4
<1>10. CASE Sense(c)
  <2>1. prog[c] # <<>> /\ Head(prog[c]).do = "sense" /\ Progs
    BY <1>10, DueOf DEF Sense
  <2>2. Quiet
    BY <1>10 DEF Sense, Quiet, host
  <2>3. \A d \in Task : \/ prog'[d] = prog[d]
                        \/ d = c /\ (prog'[d] = Tail(prog[d]) \/ prog'[d] = <<>>)
    BY <1>10, <2>1 DEF Sense, Go, Progs
  <2> QED
    BY <2>1, <2>2, <2>3, MovesOn DEF Idles
<1>11. CASE Leave(c)
  <2>1. prog[c] # <<>> /\ Head(prog[c]).do = "leave" /\ Progs
    BY <1>11, DueOf DEF Leave
  <2>2. Quiet
    BY <1>11 DEF Leave, Quiet, host, past
  <2>3. \A d \in Task : prog'[d] = prog[d] \/ (d = c /\ prog'[d] = Tail(prog[d]))
    BY <1>11, <2>1 DEF Leave, Go, Progs
  <2> QED
    BY <2>1, <2>2, <2>3, MovesOn DEF Idles
<1> QED
  BY <1>1, <1>2, <1>3, <1>4, <1>5, <1>6, <1>7, <1>8, <1>9, <1>10, <1>11 DEF Access

\* The requests, each to a task that has nothing to do.
Asked == 
  \E c \in Task : \E p \in Kind(c) :
    Begins(p) /\ Ask(c, p) /\ (c = LCD => p = SavePage /\ row # 0)

LEMMA Requested ==
  WebAsks \/ TcpAsks \/ Measure \/ EnterSave => Asked
<1>1. WEB # LCD /\ TCP # LCD /\ LCD \notin Sensing /\ Sensing \subseteq Task /\ LCD \in Task
  BY ControlAssumption DEF WEB, TCP, LCD, WATCH, Task
<1>2. CASE WebAsks
  <2>1. PICK p \in {Start(f) : f \in Flag} \cup {Stop(f) : f \in Flag}
                     \cup {Shutdown, PowerOn, systemDefault} : Ask(WEB, p)
    BY <1>2 DEF WebAsks
  <2>2. WEB \in Task
    BY <1>2 DEF WebAsks, Task
  <2> QED
    BY <1>1, <2>1, <2>2, HandlersBegin DEF Asked, Kind
<1>3. CASE TcpAsks
  <2>1. PICK p \in {Start(f) : f \in Zones} \cup {Stop(f) : f \in Zones}
                     \cup {Shutdown, PowerOn} : Ask(TCP, p)
    BY <1>3 DEF TcpAsks
  <2>2. TCP \in Task
    BY <1>3 DEF TcpAsks, Task
  <2>3. p \in Remote /\ Begins(p)
    BY <2>1, HandlersBegin DEF Zones
  <2> QED
    BY <1>1, <2>1, <2>2, <2>3 DEF Asked, Kind
<1>4. CASE Measure
  <2>1. PICK c \in Sensing : Ask(c, LM75_ReadTemp)
    BY <1>4 DEF Measure
  <2> QED
    BY <1>1, <2>1, HandlersBegin DEF Asked, Kind
<1>5. CASE EnterSave
  BY <1>1, <1>5, HandlersBegin DEF EnterSave, Asked, Kind
<1> QED
  BY <1>2, <1>3, <1>4, <1>5

\* A step of the LCD's page that is no access.
Keyed == Toggle \/ Escape \/ \E r \in Rows : EnterEdit(r)

LEMMA NextWork == IInv /\ Work /\ [Next]_vars => Work'
<1> SUFFICES ASSUME IInv, Work, [Next]_vars
             PROVE  Work'
  OBVIOUS
<1>1. CASE \E c \in Task : Act(c)
  BY <1>1, AccessWork, StartedWork DEF Act, Reset
<1>2. CASE WebAsks \/ TcpAsks \/ Measure \/ EnterSave
  BY <1>2, Requested, AskWork DEF Asked
<1>3. CASE Keyed
  <2>1. Key
    BY <1>3 DEF Keyed, Toggle, Escape, EnterEdit
  <2> QED
    BY <2>1, WorkUntouched DEF Key
<1>4. CASE Restart
  BY <1>4, StartedWork
<1>5. CASE UNCHANGED vars
  BY <1>5, WorkUntouched DEF vars
<1> QED
  BY <1>1, <1>2, <1>3, <1>4, <1>5 DEF Next, Keyed

-----------------------------------------------------------------------------
(* The LCD's page                                                          *)

\* The LCD's handler stands still, or goes one access on.
LEMMA PageStays ==
  ASSUME IInv, Work, EditSeen, UNCHANGED <<on, row, tmp, toggled, touched>>,
         prog'[LCD] = prog[LCD] \/ (prog[LCD] # <<>> /\ prog'[LCD] = Tail(prog[LCD]))
  PROVE  EditSeen'
<1>1. prog[LCD] \in Setting
  BY LcdTask DEF Work, Kinds
<1>2. CASE prog'[LCD] = prog[LCD]
  BY <1>2 DEF EditSeen, Due
<1>3. CASE prog[LCD] # <<>> /\ prog'[LCD] = Tail(prog[LCD])
  <2>1. prog'[LCD] # <<>> => Head(prog'[LCD]).do \notin {"on", "off"}
    BY <1>1, <1>3, SettingTail DEF Follows
  <2> QED
    BY <1>3, <2>1 DEF EditSeen, Due
<1> QED
  BY <1>2, <1>3

LEMMA AccessSeen ==
  ASSUME IInv, Work, EditSeen, NEW c \in Task, Access(c)
  PROVE  EditSeen'
<1>1. Progs /\ prog[LCD] \in Setting /\ LCD \in Task
  BY LcdTask DEF Work, Kinds, IInv
<1>2. CASE SetLamp(c) \/ GoDown(c) \/ Assemble(c) \/ Write(c)
  <2>1. Go(c) /\ prog[c] # <<>> /\ UNCHANGED <<on, row, tmp, toggled, touched>>
    BY <1>2 DEF SetLamp, GoDown, Assemble, Write, Step, Runs, Ready, host, page
  <2> QED
    BY <1>1, <2>1, PageStays DEF Go, Progs
<1>3. CASE OSMutexPend(c)
  <2>1. /\ Go(c) \/ UNCHANGED prog
        /\ prog[c] # <<>> /\ UNCHANGED <<on, row, tmp, toggled, touched>>
    BY <1>3 DEF OSMutexPend, Step, Runs, Ready, host, page
  <2> QED
    BY <1>1, <2>1, PageStays DEF Go, Progs
<1>4. CASE OSMutexPost(c)
  <2>1. prog[c] # <<>> /\ Head(prog[c]).do = "post" /\ UNCHANGED <<on, row, tmp, toggled, touched>>
    BY <1>4, DueOf DEF OSMutexPost, host, page
  <2>2. CASE waiting = {}
    BY <1>1, <1>4, <2>1, <2>2, PageStays DEF OSMutexPost, Go, Progs
  <2>3. CASE waiting # {}
    <3> DEFINE o == MostUrgent(waiting)
    <3>1. o \in waiting /\ o \in Task
      BY <2>3, MostUrgentIn DEF IInv, TypeOK
    <3>2. prog[o] # <<>> /\ Head(prog[o]).do = "pend"
      BY <3>1 DEF IInv, Queued
    <3>3. prog' = [prog EXCEPT ![c] = Tail(@), ![o] = Tail(@)] /\ o # c
      BY <1>4, <2>1, <2>3, <3>2 DEF OSMutexPost
    <3> HIDE DEF o
    <3>4. prog'[LCD] = prog[LCD] \/ (prog[LCD] # <<>> /\ prog'[LCD] = Tail(prog[LCD]))
      BY <1>1, <2>1, <3>1, <3>2, <3>3 DEF Progs
    <3> QED
      BY <2>1, <3>4, PageStays
  <2> QED
    BY <2>2, <2>3
<1>5. CASE Sense(c)
  <2>1. /\ prog[c] # <<>> /\ Head(prog[c]).do = "sense"
        /\ UNCHANGED <<on, row, tmp, toggled, touched>>
        /\ Go(c) \/ prog' = [prog EXCEPT ![c] = <<>>]
    BY <1>5, DueOf DEF Sense, host, page
  <2>2. c # LCD
    BY <1>1, <2>1, KindHeads
  <2>3. prog'[LCD] = prog[LCD]
    BY <1>1, <2>1, <2>2 DEF Go, Progs
  <2> QED
    BY <2>1, <2>3, PageStays
<1>6. CASE SetFlag(c)
  <2> DEFINE f == Due(c).flag
             p == prog[LCD]
  <2>1. /\ prog[c] # <<>> /\ Due(c) = Head(prog[c]) /\ Due(c).do \in {"on", "off"}
        /\ prog' = [prog EXCEPT ![c] = Tail(prog[c])]
        /\ on' = IF Due(c).do = "on" THEN on \cup {f} ELSE on \ {f}
        /\ touched' = IF c = LCD \/ row = 0 THEN touched ELSE touched \cup {f}
        /\ UNCHANGED <<row, tmp, toggled>>
    BY <1>1, <1>6 DEF SetFlag, Step, Runs, Ready, Go, Progs, Overtake, Due
  <2>2. CASE c = LCD
    <3>1. p # <<>> /\ Tail(p) # <<>> => Head(Tail(p)).do \notin {"on", "off"}
      BY <1>1, SettingTail DEF Follows
    <3>2. prog'[LCD] = Tail(p) /\ row # 0 /\ touched' = touched
      BY <1>1, <2>1, <2>2 DEF EditSeen, Progs
    <3>3. f \in touched \/ on' = on
      BY <2>1, <2>2 DEF EditSeen
    <3> QED
      BY <2>1, <2>2, <3>1, <3>2, <3>3 DEF EditSeen, Due
  <2>3. CASE c # LCD
    <3>1. prog'[LCD] = p
      BY <1>1, <2>1, <2>3 DEF Progs
    <3>2. CASE row = 0
      BY <2>1, <3>1, <3>2 DEF EditSeen, Due
    <3>3. CASE row # 0
      <4>1. touched' = touched \cup {f} /\ \A g : g # f => (g \in on' <=> g \in on)
        BY <2>1, <2>3, <3>3
      <4> QED
        BY <2>1, <3>1, <3>3, <4>1 DEF EditSeen, Due
    <3> QED
      BY <3>2, <3>3
  <2> QED
    BY <2>2, <2>3
<1>7. CASE Copy(c)
  <2> DEFINE f == Due(c).flag
  <2>1. /\ c = LCD /\ prog[c] # <<>> /\ row # 0 /\ UNCHANGED <<row, tmp, toggled>>
    BY <1>7, CopyWork DEF Copy, EditSeen, Step, Runs, Ready
  <2>2. CASE Go(c) /\ UNCHANGED <<on, cut, touched>>
    BY <1>1, <2>1, <2>2, PageStays DEF Go, Progs
  <2>3. CASE /\ on' = IF f \in tmp THEN on \cup {f} ELSE on \ {f}
             /\ Overtake(c, f)
             /\ prog' = [prog EXCEPT ![c] = <<Do("again", f)>> \o Tail(@)]
    <3>1. touched' = touched /\ prog'[LCD] = <<Do("again", f)>> \o Tail(prog[LCD])
      BY <1>1, <2>1, <2>3 DEF Overtake, Progs
    <3>2. Do("again", f) \in Item /\ Tail(prog[LCD]) \in Seq(Item)
      <4>1. "copy" \in OnFlag /\ Step(c, "copy")
        BY <1>7 DEF OnFlag, Copy
      <4>2. f \in Flag
        BY <4>1, DueItem
      <4>3. Tail(prog[LCD]) \in Seq(Item)
        BY <1>1, <2>1, SettingTail DEF Setting, Chain
      <4> QED
        BY <4>2, <4>3, Items DEF Accesses
    <3> HIDE DEF f
    <3>3. prog'[LCD] # <<>> /\ Head(prog'[LCD]) = Do("again", f)
      <4> DEFINE x == Do("again", f)
      <4>1. /\ <<x>> \in Seq(Item) /\ <<x>> # <<>> /\ Head(<<x>>) = x
        BY <3>2
      <4> HIDE DEF x
      <4>2. <<x>> \o Tail(prog[LCD]) # <<>> /\ Head(<<x>> \o Tail(prog[LCD])) = x
        BY <3>2, <4>1, Joined
      <4> QED
        BY <3>1, <4>2 DEF x
    <3>4. \A g \in Zones : (g \in on' <=> g \in tmp) \/ g \in toggled \cup touched
      BY <2>1, <2>3 DEF EditSeen
    <3>5. Do("again", f).do = "again"
      BY DEF Do
    <3> QED
      BY <2>1, <3>1, <3>3, <3>4, <3>5 DEF EditSeen, Due
  <2> QED
    BY <1>7, <2>2, <2>3 DEF Copy
<1>8. CASE Again(c)
  <2>1. /\ c = LCD /\ prog[c] # <<>> /\ row # 0
        /\ UNCHANGED <<on, row, tmp, toggled, touched>>
    BY <1>8, AgainWork DEF Again, EditSeen, Step, Runs, Ready, host, page
  <2>2. /\ prog'[LCD] # <<>>
        /\ \/ Head(prog'[LCD]) = Do("on", Due(c).flag) /\ Due(c).flag \in on
           \/ Head(prog'[LCD]) = Do("off", Due(c).flag) /\ Due(c).flag \notin on
    BY <1>8, <2>1, AgainWork
  <2>3. /\ Head(prog'[LCD]).do = "on" => Head(prog'[LCD]).flag \in on
        /\ Head(prog'[LCD]).do = "off" => Head(prog'[LCD]).flag \notin on
    BY <2>2 DEF Do
  <2> QED
    BY <2>1, <2>2, <2>3 DEF EditSeen, Due
<1>9. CASE Leave(c)
  <2>1. /\ c = LCD /\ prog[c] # <<>> /\ Head(prog[c]).do = "leave"
        /\ row' = 0 /\ prog' = [prog EXCEPT ![c] = Tail(prog[c])]
    BY <1>1, <1>9, DueOf DEF Leave, ShowPage, Go, Progs, Page
  <2>2. Tail(prog[LCD]) = <<>>
    BY <1>1, <2>1, SettingTail DEF Follows
  <2> QED
    BY <1>1, <2>1, <2>2 DEF EditSeen, Progs
<1> QED
  BY <1>2, <1>3, <1>4, <1>5, <1>6, <1>7, <1>8, <1>9 DEF Access

LEMMA InitSeen == Init => EditSeen
BY LcdTask DEF Init, Started, EditSeen

LEMMA NextSeen == IInv /\ Work /\ EditSeen /\ [Next]_vars => EditSeen'
<1> SUFFICES ASSUME IInv, Work, EditSeen, [Next]_vars
             PROVE  EditSeen'
  OBVIOUS
<1>1. Progs /\ LCD \in Task
  BY LcdTask DEF IInv
<1>2. ASSUME Restart
      PROVE  EditSeen'
  BY <1>1, <1>2 DEF Restart, EditSeen
<1>3. CASE \E c \in Task : Act(c)
  BY <1>2, <1>3, AccessSeen DEF Act, Reset
<1>4. CASE WebAsks \/ TcpAsks \/ Measure \/ EnterSave
  <2>1. PICK c \in Task : \E p \in Kind(c) :
               Begins(p) /\ Ask(c, p) /\ (c = LCD => p = SavePage /\ row # 0)
    BY <1>4, Requested DEF Asked
  <2>2. PICK p \in Kind(c) : Ask(c, p) /\ (c = LCD => p = SavePage /\ row # 0)
    BY <2>1
  <2>3. /\ prog' = [prog EXCEPT ![c] = p] /\ prog[c] = <<>>
        /\ UNCHANGED <<on, row, tmp, toggled, touched>>
    BY <2>2 DEF Ask, Idle, host, page
  <2>4. CASE c # LCD
    <3>1. prog'[LCD] = prog[LCD]
      BY <1>1, <2>3, <2>4 DEF Progs
    <3> QED
      BY <2>3, <3>1, PageStays
  <2>5. CASE c = LCD
    <3>1. prog'[LCD] = SavePage /\ row # 0
      BY <1>1, <2>2, <2>3, <2>5 DEF Progs
    <3> QED
      BY <2>3, <3>1, SavePageSetting DEF EditSeen, Due
  <2> QED
    BY <2>4, <2>5
<1>5. ASSUME Key
      PROVE  prog[LCD] = <<>> /\ UNCHANGED <<on, prog>>
  BY <1>5 DEF Key, Idle, host
<1>6. ASSUME NEW r \in Rows, EnterEdit(r)
      PROVE  EditSeen'
  <2>1. /\ prog[LCD] = <<>> /\ UNCHANGED <<on, prog>>
        /\ row' = r /\ tmp' = (tmp \ Copied(r)) \cup (on \cap Copied(r))
    BY <1>5, <1>6 DEF EnterEdit
  <2>2. r # 0 /\ Zones \subseteq Copied(r)
    BY DEF Rows, Copied
  <2> QED
    BY <2>1, <2>2 DEF EditSeen
<1>7. CASE Toggle
  <2>1. /\ prog[LCD] = <<>> /\ UNCHANGED <<on, prog>>
        /\ row # 0 /\ UNCHANGED <<row, touched>>
        /\ tmp' = (tmp \cup {RowFlag(row)}) \ (tmp \cap {RowFlag(row)})
        /\ toggled' = toggled \cup {RowFlag(row)}
    BY <1>5, <1>7 DEF Toggle
  <2>2. \A f : f # RowFlag(row) => (f \in tmp' <=> f \in tmp)
    BY <2>1
  <2> QED
    BY <2>1, <2>2 DEF EditSeen
<1>8. CASE Escape
  BY <1>5, <1>8 DEF Escape, ShowPage, EditSeen
<1>9. CASE UNCHANGED vars
  BY <1>9, PageStays DEF vars, host, page
<1> QED
  BY <1>2, <1>3, <1>4, <1>6, <1>7, <1>8, <1>9 DEF Next

-----------------------------------------------------------------------------
(* The theorems                                                            *)

LEMMA Reached == Spec => [](IInv /\ SInv)
<1>1. Init => IInv /\ SInv
  BY InitOK, StartedWork, InitSeen DEF SInv
<1>2. IInv /\ SInv /\ [Next]_vars => (IInv /\ SInv)'
  BY NextKeeps, NextWork, NextSeen DEF SInv
<1> QED
  BY <1>1, <1>2, PTL DEF Spec

\* A handler in the middle of a change is not settled.
LEMMA SettledSaves ==
  ASSUME Work, Settled, NEW c \in Task
  PROVE  ~ Unsaved(prog[c]) /\ ~ Unlit(prog[c])
<1> DEFINE p == prog[c]
<1>1. \A i \in DOMAIN p : p[i].do \in {"pend", "sense", "post", "leave"}
  BY DEF Settled
<1>2. p \in Setting \/ p \in Remote
  BY DEF Work, Kinds, Kind
<1>3. p \in Seq(Item)
  BY <1>2 DEF Remote, Over, Setting, Chain
<1> HIDE DEF p
<1>4. DOMAIN p = 1 .. Len(p) /\ Len(p) \in Nat
  BY <1>3, LenProperties
<1>5. CASE p = <<>>
  BY <1>5 DEF Unsaved, Unlit, p
<1>6. CASE p # <<>>
  <2>1. /\ Len(p) >= 1 /\ Head(p) = p[1]
        /\ Tail(p) # <<>> => Len(p) > 1 /\ Head(Tail(p)) = p[2]
    BY <1>3, <1>6, TailIndices
  <2>2. /\ Head(p).do \in {"pend", "sense", "post", "leave"}
        /\ p[Len(p)].do \in {"pend", "sense", "post", "leave"}
        /\ Tail(p) # <<>> => Head(Tail(p)).do \in {"pend", "sense", "post", "leave"}
    BY <1>1, <1>4, <2>1
  <2>3. p \notin Resetting /\ p \notin Darkening
    BY <1>6, <2>2 DEF Resetting, Darkening, Ending
  <2>4. p \in Setting => Head(p).do \notin LampWork /\ Head(p).do \in {"post", "leave"}
    <3> SUFFICES ASSUME p \in Setting
                 PROVE  Head(p).do \notin LampWork /\ Head(p).do \in {"post", "leave"}
      OBVIOUS
    <3>1. CASE Tail(p) = <<>>
      BY <1>6, <3>1, SettingTail DEF LampWork
    <3>2. CASE Tail(p) # <<>>
      <4>1. Follows(Head(p), Head(Tail(p)))
        BY <1>6, <3>2, SettingTail
      <4> QED
        BY <2>2, <3>2, <4>1 DEF Follows, LampWork
    <3> QED
      BY <3>1, <3>2
  <2> QED
    BY <2>3, <2>4 DEF Unsaved, Unlit, p
<1> QED
  BY <1>5, <1>6

\* What is saved is what the operators have set: for any flags, tasks and
\* requests, a byte not overtaken is the last word (WriteControlParaToEEProm).
THEOREM WhatIsSetIsStored == Spec => []SettingsStored
<1>1. IInv /\ SInv => SettingsStored
  BY SettledSaves DEF SInv, Work, SavedOrDue, SettingsStored, Want
<1> QED
  BY Reached, <1>1, PTL

\* The lamp tells whether a zone is armed (Push_A_Start, Push_A_Stop,
\* remoteShutdown), for any flags, tasks and requests.
THEOREM LampTellsArmed == Spec => []LampTruthful
<1>1. IInv /\ SInv => LampTruthful
  BY SettledSaves DEF SInv, Work, LitOrDue, LampTruthful
<1> QED
  BY Reached, <1>1, PTL

\* No edit of the LCD's page changes a zone that neither its operator nor
\* another task has touched (SetBuFangParaScreen).
THEOREM EditsKeepZones == Spec => EditKeepsZones
<1>1. IInv /\ SInv /\ [Next]_vars => [\A f \in Zones : SavedAsSeen(f)]_vars
  <2> SUFFICES ASSUME IInv, SInv, NEW f \in Zones, NEW c \in Task, Copy(c),
                      ~ (f \in on' <=> f \in on)
               PROVE  f \in toggled \cup touched
    BY DEF SavedAsSeen
  <2>1. c = LCD /\ prog[LCD] # <<>>
    BY CopyWork DEF SInv, Copy, Step, Runs, Ready
  <2>2. f = Due(c).flag /\ ~ (f \in on <=> f \in tmp)
    BY DEF Copy
  <2> QED
    BY <2>1, <2>2 DEF SInv, EditSeen
<1> QED
  BY Reached, <1>1, PTL DEF Spec, EditKeepsZones

-----------------------------------------------------------------------------
(* Nobody is stuck                                                         *)

OnBusNext == OnBus \cup {"pend"}

\* What is left of a handler gives the bus back: after a pend, and after a
\* transfer, comes another access to the bus.
GivesBack ==
  {p \in Seq(Item) : \A i \in 1 .. Len(p) :
     p[i].do \in OnBusNext => i < Len(p) /\ p[i + 1].do \in Held}

LEMMA GivesBackEmpty == <<>> \in GivesBack
<1>1. <<>> \in Seq(Item) /\ Len(<<>>) = 0
  BY EmptySeq
<1>2. 1 .. 0 = {}
  OBVIOUS
<1> QED
  BY <1>1, <1>2 DEF GivesBack

LEMMA GivesBackOne ==
  ASSUME NEW x \in Item, x.do \notin OnBusNext
  PROVE  <<x>> \in GivesBack
<1>1. <<x>> \in Seq(Item) /\ Len(<<x>>) = 1 /\ <<x>>[1] = x
  OBVIOUS
<1>2. \A i \in 1 .. 1 : i = 1
  OBVIOUS
<1> QED
  BY <1>1, <1>2 DEF GivesBack

LEMMA GivesBackSingle ==
  ASSUME NEW what \in Accesses \ OnBusNext, NEW f \in Flag \cup {""},
         what \in OnFlag => f \in Flag
  PROVE  <<Do(what, f)>> \in GivesBack
BY Items, GivesBackOne

LEMMA GivesBackConcat ==
  ASSUME NEW p \in GivesBack, NEW q \in GivesBack
  PROVE  p \o q \in GivesBack
<1>1. p \in Seq(Item) /\ q \in Seq(Item)
  BY DEF GivesBack
<1>2. Len(p) \in Nat /\ Len(q) \in Nat
  BY <1>1, LenProperties
<1>3. /\ p \o q \in Seq(Item)
      /\ Len(p \o q) = Len(p) + Len(q)
      /\ \A i \in 1 .. Len(p) + Len(q) :
           (p \o q)[i] = IF i <= Len(p) THEN p[i] ELSE q[i - Len(p)]
  BY <1>1, ConcatProperties, Zenon
<1> DEFINE r == p \o q
<1> HIDE DEF r
<1>4. ASSUME NEW i \in 1 .. Len(r), r[i].do \in OnBusNext
      PROVE  i < Len(r) /\ r[i + 1].do \in Held
  <2>1. /\ r \in Seq(Item) /\ Len(r) = Len(p) + Len(q)
        /\ \A j \in 1 .. Len(p) + Len(q) : r[j] = IF j <= Len(p) THEN p[j] ELSE q[j - Len(p)]
    BY <1>3 DEF r
  <2>2. CASE i <= Len(p)
    <3>1. i \in 1 .. Len(p) /\ r[i] = p[i]
      BY <1>2, <2>1, <2>2
    <3>2. i < Len(p) /\ p[i + 1].do \in Held
      BY <1>4, <3>1 DEF GivesBack
    <3>3. i + 1 \in 1 .. Len(p) + Len(q) /\ i + 1 <= Len(p)
      BY <1>2, <2>2, <3>2
    <3> QED
      BY <1>2, <2>1, <3>2, <3>3
  <2>3. CASE ~ i <= Len(p)
    <3> DEFINE k == i - Len(p)
    <3>1. k \in 1 .. Len(q) /\ r[i] = q[k]
      BY <1>2, <2>1, <2>3
    <3>2. k < Len(q) /\ q[k + 1].do \in Held
      BY <1>4, <3>1 DEF GivesBack
    <3>3. /\ i + 1 \in 1 .. Len(p) + Len(q) /\ ~ i + 1 <= Len(p)
          /\ (i + 1) - Len(p) = k + 1 /\ i < Len(p) + Len(q)
      BY <1>2, <2>3, <3>2
    <3> HIDE DEF k
    <3> QED
      BY <2>1, <3>2, <3>3
  <2> QED
    BY <2>2, <2>3
<1> QED
  BY <1>3, <1>4 DEF GivesBack, r

\* After a pend or a transfer the next access is on the bus as well.
LEMMA GivesBackTail ==
  ASSUME NEW p \in GivesBack, p # <<>>
  PROVE  /\ Tail(p) \in GivesBack
         /\ Head(p).do \in OnBusNext => Tail(p) # <<>> /\ Head(Tail(p)).do \in Held
<1>1. /\ p \in Seq(Item) /\ Tail(p) \in Seq(Item)
      /\ Head(p) = p[1]
      /\ Len(p) \in Nat /\ Len(p) >= 1
      /\ Len(Tail(p)) = Len(p) - 1
      /\ Tail(p) # <<>> => Head(Tail(p)) = p[2]
      /\ Tail(p) = <<>> => Len(p) = 1
      /\ \A i \in 1 .. Len(p) - 1 : Tail(p)[i] = p[i + 1]
  <2>1. p \in Seq(Item)
    BY DEF GivesBack
  <2> QED
    BY <2>1, TailIndices
<1>2. ASSUME NEW i \in 1 .. Len(Tail(p)), Tail(p)[i].do \in OnBusNext
      PROVE  i < Len(Tail(p)) /\ Tail(p)[i + 1].do \in Held
  <2>1. i \in 1 .. Len(p) - 1 /\ Tail(p)[i] = p[i + 1] /\ i + 1 \in 1 .. Len(p)
    BY <1>1, <1>2
  <2>2. i + 1 < Len(p) /\ p[(i + 1) + 1].do \in Held
    BY <1>2, <2>1 DEF GivesBack
  <2>3. i + 1 \in 1 .. Len(p) - 1 /\ Tail(p)[i + 1] = p[(i + 1) + 1]
    BY <1>1, <2>1, <2>2
  <2> QED
    BY <1>1, <2>2, <2>3
<1>3. Tail(p) \in GivesBack
  BY <1>1, <1>2 DEF GivesBack
<1>4. ASSUME Head(p).do \in OnBusNext
      PROVE  Tail(p) # <<>> /\ Head(Tail(p)).do \in Held
  <2>1. 1 \in 1 .. Len(p) /\ p[1].do \in OnBusNext
    BY <1>1, <1>4
  <2>2. 1 < Len(p) /\ p[1 + 1].do \in Held
    BY <2>1 DEF GivesBack
  <2> QED
    BY <1>1, <2>2
<1> QED
  BY <1>3, <1>4

LEMMA TransferGivesBack ==
  ASSUME NEW what \in OnBus
  PROVE  Transfer(what) \in GivesBack
<1> DEFINE x == Do("pend", "")
           y == Do(what, "")
           z == Do("post", "")
           p == <<x, y, z>>
<1>1. x \in Item /\ y \in Item /\ z \in Item
  <2>1. "pend" \in Accesses /\ what \in Accesses /\ "post" \in Accesses
    BY DEF Accesses, OnBus
  <2>2. "pend" \notin OnFlag /\ what \notin OnFlag /\ "post" \notin OnFlag
    BY DEF OnFlag, OnBus
  <2> QED
    BY <2>1, <2>2, Items
<1>2. y.do \in Held /\ z.do \in Held /\ z.do \notin OnBusNext
  BY DEF Do, Held, OnBus, OnBusNext
<1> HIDE DEF x, y, z
<1>3. Len(p) = 3 /\ p[1] = x /\ p[2] = y /\ p[3] = z
  OBVIOUS
<1>4. p \in Seq(Item)
  BY <1>1
<1> HIDE DEF p
<1>5. ASSUME NEW i \in 1 .. 3, p[i].do \in OnBusNext
      PROVE  i < 3 /\ p[i + 1].do \in Held
  <2>1. i = 1 \/ i = 2 \/ i = 3
    OBVIOUS
  <2>2. i # 3
    BY <1>2, <1>3, <1>5
  <2>3. CASE i = 1
    BY <1>2, <1>3, <2>3
  <2>4. CASE i = 2
    BY <1>2, <1>3, <2>4
  <2> QED
    BY <2>1, <2>2, <2>3, <2>4
<1>6. p \in GivesBack
  BY <1>3, <1>4, <1>5 DEF GivesBack
<1> QED
  BY <1>6 DEF Transfer, p, x, y, z

LEMMA SaveGivesBack == WriteControlParaToEEProm \in GivesBack
<1>1. <<Do("byte", "")>> \in GivesBack
  BY GivesBackSingle DEF Accesses, OnBus, OnBusNext, OnFlag
<1>2. Transfer("write") \in GivesBack
  BY TransferGivesBack DEF OnBus
<1> QED
  BY <1>1, <1>2, GivesBackConcat DEF WriteControlParaToEEProm

LEMMA StartStopGiveBack ==
  ASSUME NEW f \in Flag
  PROVE  Start(f) \in GivesBack /\ Stop(f) \in GivesBack
<1>1. <<Do("on", f)>> \in GivesBack /\ <<Do("off", f)>> \in GivesBack
  BY GivesBackSingle DEF Accesses, OnBus, OnBusNext, OnFlag
<1>2. <<Do("lampOn", f)>> \in GivesBack /\ <<Do("lampOther", f)>> \in GivesBack
  BY GivesBackSingle DEF Accesses, OnBus, OnBusNext, OnFlag
<1>3. Lamp("lampOn", f) \in GivesBack /\ Lamp("lampOther", f) \in GivesBack
  BY <1>2, GivesBackEmpty DEF Lamp
<1>4. /\ <<Do("on", f)>> \o Lamp("lampOn", f) \in GivesBack
      /\ <<Do("off", f)>> \o Lamp("lampOther", f) \in GivesBack
  BY <1>1, <1>3, GivesBackConcat
<1> QED
  BY <1>4, SaveGivesBack, GivesBackConcat DEF Start, Stop

LEMMA EachGivesBack ==
  ASSUME NEW S \in SUBSET Flag, NEW what \in {"off", "copy"}
  PROVE  Each(what, S) \in GivesBack
<1>1. ASSUME NEW f
      PROVE  DoIf(f, S, what) \in GivesBack
  <2>1. what \in Accesses \ OnBusNext
    BY DEF Accesses, OnBus, OnBusNext
  <2>2. CASE f \in S
    BY <2>1, <2>2, GivesBackSingle DEF DoIf
  <2>3. CASE f \notin S
    BY <2>3, GivesBackEmpty DEF DoIf
  <2> QED
    BY <2>2, <2>3
<1>2. DoIf("FC", S, what) \o DoIf("A", S, what) \in GivesBack
  BY <1>1, GivesBackConcat
<1> QED
  BY <1>1, <1>2, GivesBackConcat DEF Each

\* Every handler gives the bus back.
LEMMA HandlersGiveBack ==
  /\ \A f \in Flag : Start(f) \in GivesBack /\ Stop(f) \in GivesBack
  /\ {Shutdown, PowerOn, systemDefault, LM75_ReadTemp, SavePage} \subseteq GivesBack
<1>1. /\ <<Do("down", "")>> \in GivesBack /\ <<Do("dark", "")>> \in GivesBack
      /\ <<Do("reset", "")>> \in GivesBack /\ <<Do("leave", "")>> \in GivesBack
  BY GivesBackSingle DEF Accesses, OnBus, OnBusNext, OnFlag
<1>2. Each("off", Flag) \in GivesBack /\ Each("copy", Flag) \in GivesBack
  BY EachGivesBack
<1>3. Transfer("erase") \in GivesBack /\ Transfer("sense") \in GivesBack
  BY TransferGivesBack DEF OnBus
<1>4. <<Do("down", "")>> \o Each("off", Flag) \in GivesBack
  BY <1>1, <1>2, GivesBackConcat
<1>5. Shutdown \in GivesBack
  BY <1>1, <1>4, GivesBackConcat DEF Shutdown
<1>6. systemDefault \in GivesBack
  BY <1>1, <1>3, GivesBackConcat DEF systemDefault
<1>7. SavePage \in GivesBack
  BY <1>1, <1>2, GivesBackConcat DEF SavePage
<1> QED
  BY <1>1, <1>3, <1>5, <1>6, <1>7, StartStopGiveBack DEF PowerOn, LM75_ReadTemp

\* Who is busy at the bus goes on there.
Busy(p) == p # <<>> /\ Head(p).do \in Held

\* The mutex has an owner if somebody waits for it; and the owner, unless the
\* sensor has left one without an answer, is about to use the bus or to give
\* it back.
Owned ==
  /\ prog \in [Task -> GivesBack]
  /\ waiting # {} => owner # NOBODY
  /\ owner # NOBODY => unanswered \/ Busy(prog[owner])

LEMMA OthersOwn ==
  ASSUME IInv, Owned, NEW c \in Task, NEW p \in GivesBack,
         prog' = [prog EXCEPT ![c] = p], UNCHANGED <<owner, waiting>>,
         unanswered => unanswered',
         c = owner => unanswered' \/ Busy(p)
  PROVE  Owned'
<1>1. prog' \in [Task -> GivesBack]
  BY DEF Owned
<1>2. ASSUME owner' # NOBODY
      PROVE  unanswered' \/ Busy(prog'[owner'])
  <2>1. owner \in Task /\ owner' = owner
    BY <1>2 DEF IInv, TypeOK
  <2>2. CASE c = owner
    BY <2>1, <2>2 DEF Owned
  <2>3. CASE c # owner
    BY <1>2, <2>1, <2>3 DEF Owned
  <2> QED
    BY <2>2, <2>3
<1> QED
  BY <1>1, <1>2 DEF Owned

\* An access outside the bus is not the owner's, unless the sensor has left
\* it without an answer.
LEMMA NotTheOwner ==
  ASSUME IInv, Owned, NEW c \in Task, NEW what, Step(c, what), what \notin Held
  PROVE  c = owner => unanswered
<1>1. c # NOBODY
  BY Tasks
<1>2. Head(prog[c]).do = what
  BY DEF Step, Due
<1> QED
  BY <1>1, <1>2 DEF Owned, Busy

\* The owner's transfer is followed by another access to the bus.
LEMMA OwnerGoesOn ==
  ASSUME IInv, Owned, NEW c \in Task, NEW what \in OnBusNext, Step(c, what)
  PROVE  Tail(prog[c]) \in GivesBack /\ Busy(Tail(prog[c]))
<1>1. prog[c] \in GivesBack /\ prog[c] # <<>> /\ Head(prog[c]).do \in OnBusNext
  BY DEF Owned, Step, Runs, Ready, Due
<1> QED
  BY <1>1, GivesBackTail DEF Busy

LEMMA RestGivesBack ==
  ASSUME Owned, NEW c \in Task, NEW what, Step(c, what)
  PROVE  Tail(prog[c]) \in GivesBack
<1>1. prog[c] \in GivesBack /\ prog[c] # <<>>
  BY DEF Owned, Step, Runs, Ready
<1> QED
  BY <1>1, GivesBackTail

\* A task goes one access on and leaves the mutex alone.
LEMMA StepOwned ==
  ASSUME IInv, Owned, NEW c \in Task, NEW what, Step(c, what), Go(c),
         UNCHANGED <<owner, waiting>>, unanswered' = unanswered,
         what \in OnBus \/ what \notin Held
  PROVE  Owned'
<1>1. prog' = [prog EXCEPT ![c] = Tail(prog[c])]
  BY DEF Go, IInv, Progs
<1>2. Tail(prog[c]) \in GivesBack
  BY RestGivesBack
<1>3. c = owner => unanswered' \/ Busy(Tail(prog[c]))
  <2>1. CASE what \in OnBus
    BY <2>1, OwnerGoesOn DEF OnBusNext
  <2>2. CASE what \notin Held
    BY <2>2, NotTheOwner
  <2> QED
    BY <2>1, <2>2
<1> QED
  BY <1>1, <1>2, <1>3, OthersOwn

LEMMA PendOwned ==
  ASSUME IInv, Owned, NEW c \in Task, OSMutexPend(c)
  PROVE  Owned'
<1>1. Step(c, "pend") /\ unanswered' = unanswered
  BY DEF OSMutexPend, past
<1>2. CASE owner # NOBODY /\ waiting' = waiting \cup {c} /\ UNCHANGED <<owner, prog>>
  BY <1>1, <1>2 DEF Owned
<1>3. CASE owner = NOBODY /\ owner' = c /\ Go(c) /\ UNCHANGED waiting
  <2>1. Tail(prog[c]) \in GivesBack /\ Busy(Tail(prog[c]))
    BY <1>1, OwnerGoesOn DEF OnBusNext
  <2>2. prog' = [prog EXCEPT ![c] = Tail(prog[c])]
    BY <1>3 DEF Go, IInv, Progs
  <2>3. prog' \in [Task -> GivesBack] /\ prog'[c] = Tail(prog[c])
    BY <2>1, <2>2 DEF Owned
  <2>4. owner' # NOBODY
    BY <1>3, Tasks
  <2> QED
    BY <1>3, <2>1, <2>3, <2>4 DEF Owned
<1> QED
  BY <1>2, <1>3 DEF OSMutexPend

\* Who is given the mutex goes on with the transfer it waited for.
LEMMA PostOwned ==
  ASSUME IInv, Owned, NEW c \in Task, OSMutexPost(c)
  PROVE  Owned'
<1>1. Step(c, "post")
  BY DEF OSMutexPost
<1>2. Tail(prog[c]) \in GivesBack
  BY <1>1, RestGivesBack
<1>3. CASE waiting = {} /\ owner' = NOBODY /\ Go(c) /\ UNCHANGED waiting
  <2>1. prog' \in [Task -> GivesBack]
    BY <1>2, <1>3 DEF Go, Owned
  <2> QED
    BY <1>3, <2>1 DEF Owned
<1>4. CASE /\ waiting # {}
           /\ owner' = MostUrgent(waiting)
           /\ waiting' = waiting \ {owner'}
           /\ prog' = [prog EXCEPT ![c] = Tail(@), ![owner'] = Tail(@)]
  <2> DEFINE o == MostUrgent(waiting)
  <2>1. o \in waiting /\ o \in Task
    BY <1>4, MostUrgentIn DEF IInv, TypeOK
  <2>2. c \notin waiting
    BY <1>1 DEF Step, Runs, Ready
  <2>3. owner' = o /\ prog' = [prog EXCEPT ![c] = Tail(@), ![o] = Tail(@)]
    BY <1>4
  <2> HIDE DEF o
  <2>4. prog[o] \in GivesBack /\ prog[o] # <<>> /\ Head(prog[o]).do = "pend"
    BY <2>1 DEF Owned, IInv, Queued
  <2>5. Tail(prog[o]) \in GivesBack /\ Busy(Tail(prog[o]))
    BY <2>4, GivesBackTail DEF OnBusNext, Busy
  <2>6. prog' \in [Task -> GivesBack] /\ prog'[o] = Tail(prog[o])
    BY <1>2, <2>1, <2>2, <2>3, <2>5 DEF Owned
  <2>7. owner' # NOBODY
    BY <2>1, <2>3, Tasks
  <2> QED
    BY <2>3, <2>5, <2>6, <2>7 DEF Owned
<1> QED
  BY <1>3, <1>4 DEF OSMutexPost

LEMMA AccessOwned ==
  ASSUME IInv, Owned, NEW c \in Task, Access(c)
  PROVE  Owned'
<1> USE DEF bus, past
<1>1. CASE SetFlag(c)
  <2>1. PICK what \in {"on", "off"} : Step(c, what)
    BY <1>1 DEF SetFlag
  <2> QED
    BY <1>1, <2>1, StepOwned DEF SetFlag, Held, OnBus
<1>2. CASE SetLamp(c)
  <2>1. PICK what \in {"lampOn", "lampOther", "dark"} : Step(c, what)
    BY <1>2 DEF SetLamp
  <2> QED
    BY <1>2, <2>1, StepOwned DEF SetLamp, Held, OnBus
<1>3. CASE GoDown(c)
  BY <1>3, StepOwned DEF GoDown, Held, OnBus
<1>4. CASE Assemble(c)
  BY <1>4, StepOwned DEF Assemble, Held, OnBus
<1>5. CASE OSMutexPend(c)
  BY <1>5, PendOwned
<1>6. CASE Write(c)
  <2>1. PICK what \in {"write", "erase"} : Step(c, what)
    BY <1>6 DEF Write
  <2> QED
    BY <1>6, <2>1, StepOwned DEF Write, OnBus
<1>7. CASE Sense(c)
  <2>1. CASE Go(c) /\ UNCHANGED unanswered
    BY <1>7, <2>1, StepOwned DEF Sense, OnBus
  <2>2. CASE unanswered' = TRUE /\ prog' = [prog EXCEPT ![c] = <<>>]
    BY <1>7, <2>2, GivesBackEmpty, OthersOwn DEF Sense
  <2> QED
    BY <1>7, <2>1, <2>2 DEF Sense
<1>8. CASE OSMutexPost(c)
  BY <1>8, PostOwned
<1>9. CASE Copy(c)
  <2> DEFINE f == Due(c).flag
  <2>1. /\ Step(c, "copy")
        /\ UNCHANGED <<owner, waiting, unanswered>>
        /\ Go(c) \/ prog' = [prog EXCEPT ![c] = <<Do("again", f)>> \o Tail(@)]
    BY <1>9 DEF Copy
  <2>2. f \in Flag /\ Tail(prog[c]) \in GivesBack
    BY <2>1, DueItem, RestGivesBack DEF OnFlag
  <2>3. c = owner => unanswered
    BY <2>1, NotTheOwner DEF Held, OnBus
  <2> HIDE DEF f
  <2>4. CASE Go(c)
    BY <2>1, <2>4, StepOwned DEF Held, OnBus
  <2>5. CASE prog' = [prog EXCEPT ![c] = <<Do("again", f)>> \o Tail(@)]
    <3>1. <<Do("again", f)>> \in GivesBack
      BY <2>2, GivesBackSingle DEF Accesses, OnBus, OnBusNext
    <3>2. <<Do("again", f)>> \o Tail(prog[c]) \in GivesBack
      BY <2>2, <3>1, GivesBackConcat
    <3> DEFINE p == <<Do("again", f)>> \o Tail(prog[c])
    <3>3. prog' = [prog EXCEPT ![c] = p]
      BY <2>5
    <3> HIDE DEF p
    <3> QED
      BY <2>1, <2>3, <3>2, <3>3, OthersOwn DEF p
  <2> QED
    BY <2>1, <2>4, <2>5
<1>10. CASE Again(c)
  <2> DEFINE f == Due(c).flag
             p == (IF f \in on THEN Start(f) ELSE Stop(f)) \o Tail(prog[c])
  <2>1. Step(c, "again") /\ UNCHANGED <<owner, waiting, unanswered>>
        /\ prog' = [prog EXCEPT ![c] = p]
    BY <1>10 DEF Again
  <2>2. f \in Flag /\ Tail(prog[c]) \in GivesBack
    BY <2>1, DueItem, RestGivesBack DEF OnFlag
  <2>3. c = owner => unanswered
    BY <2>1, NotTheOwner DEF Held, OnBus
  <2>4. p \in GivesBack
    <3> HIDE DEF f
    <3>1. (IF f \in on THEN Start(f) ELSE Stop(f)) \in GivesBack
      BY <2>2, StartStopGiveBack
    <3> QED
      BY <2>2, <3>1, GivesBackConcat
  <2> HIDE DEF f, p
  <2> QED
    BY <2>1, <2>3, <2>4, OthersOwn
<1>11. CASE Leave(c)
  BY <1>11, StepOwned DEF Leave, Held, OnBus
<1> QED
  BY <1>1, <1>2, <1>3, <1>4, <1>5, <1>6, <1>7, <1>8, <1>9, <1>10, <1>11 DEF Access

LEMMA AskOwned ==
  ASSUME IInv, Owned, NEW c \in Task, NEW p \in GivesBack, Ask(c, p)
  PROVE  Owned'
<1>1. /\ prog[c] = <<>> /\ prog' = [prog EXCEPT ![c] = p]
      /\ UNCHANGED <<owner, waiting, unanswered>>
  BY DEF Ask, Idle, bus
<1>2. c = owner => unanswered
  <2>1. c # NOBODY
    BY Tasks
  <2> QED
    BY <1>1, <2>1 DEF Owned, Busy
<1> QED
  BY <1>1, <1>2, OthersOwn

LEMMA NextOwned == IInv /\ Owned /\ [Next]_vars => Owned'
<1> SUFFICES ASSUME IInv, Owned, [Next]_vars
             PROVE  Owned'
  OBVIOUS
<1>1. ASSUME Restart
      PROVE  Owned'
  BY <1>1, GivesBackEmpty DEF Restart, Owned
<1>2. CASE \E c \in Task : Act(c)
  BY <1>1, <1>2, AccessOwned DEF Act, Reset
<1>3. CASE WebAsks
  <2>1. PICK p \in {Start(f) : f \in Flag} \cup {Stop(f) : f \in Flag}
                     \cup {Shutdown, PowerOn, systemDefault} : Ask(WEB, p)
    BY <1>3 DEF WebAsks
  <2>2. WEB \in Task
    BY <1>3 DEF WebAsks, Task
  <2>3. p \in GivesBack
    BY HandlersGiveBack
  <2> QED
    BY <2>1, <2>2, <2>3, AskOwned
<1>4. CASE TcpAsks
  <2>1. PICK p \in {Start(f) : f \in Zones} \cup {Stop(f) : f \in Zones}
                     \cup {Shutdown, PowerOn} : Ask(TCP, p)
    BY <1>4 DEF TcpAsks
  <2>2. TCP \in Task
    BY <1>4 DEF TcpAsks, Task
  <2>3. p \in GivesBack
    BY HandlersGiveBack DEF Zones
  <2> QED
    BY <2>1, <2>2, <2>3, AskOwned
<1>5. CASE Measure
  <2>1. PICK c \in Sensing : Ask(c, LM75_ReadTemp)
    BY <1>5 DEF Measure
  <2>2. c \in Task /\ LM75_ReadTemp \in GivesBack
    BY HandlersGiveBack DEF Task
  <2> QED
    BY <2>1, <2>2, AskOwned
<1>6. CASE EnterSave
  <2>1. LCD \in Task /\ SavePage \in GivesBack
    BY Tasks, HandlersGiveBack
  <2> QED
    BY <1>6, <2>1, AskOwned DEF EnterSave
<1>7. CASE UNCHANGED <<prog, owner, waiting, unanswered>>
  BY <1>7 DEF Owned
<1>8. Keyed \/ UNCHANGED vars => UNCHANGED <<prog, owner, waiting, unanswered>>
  BY DEF Keyed, Toggle, Escape, EnterEdit, Key, bus, past, vars
<1> QED
  BY <1>1, <1>2, <1>3, <1>4, <1>5, <1>6, <1>7, <1>8 DEF Next, Keyed

LEMMA InitOwned == Init => Owned
BY GivesBackEmpty DEF Init, Started, Owned

LEMMA AlwaysOwned == Spec => [](IInv /\ Owned)
BY InitOK, NextKeeps, InitOwned, NextOwned, PTL DEF Spec

\* Who waits for the bus waits for a task that can go on with it, and that does
\* so at once if the one that waits is more urgent.
NobodyIsStuck ==
  ~ unanswered => \A c \in waiting :
    /\ owner \in Task /\ Ready(owner)
    /\ c < owner => Runs(owner)

LEMMA Urgencies ==
  ASSUME NEW c \in Task
  PROVE  Urgency(c) \in {1, 3, 5, 6, 7} /\ Urgency(c) >= 1
BY Tasks DEF Urgency

\* No wait for iicMutexSem is in vain: its owner is never itself waiting nor
\* at its end, as long as the sensor has acknowledged (LM75_ReadTemp), and it
\* inherits the processor (OSMutexPend), for any tasks and requests.
THEOREM NobodyWaitsInVain == Spec => []NobodyIsStuck
<1>1. IInv /\ Owned => NobodyIsStuck
  <2> SUFFICES ASSUME IInv, Owned, ~ unanswered, NEW c \in waiting
               PROVE  /\ owner \in Task /\ Ready(owner)
                      /\ c < owner => Runs(owner)
    BY DEF NobodyIsStuck
  <2>1. owner # NOBODY /\ owner \in Task /\ Busy(prog[owner])
    BY DEF Owned, IInv, TypeOK
  <2>2. Head(prog[owner]).do # "pend"
    BY <2>1 DEF Busy, Held, OnBus
  <2>3. Ready(owner)
    BY <2>1, <2>2 DEF IInv, Queued, Ready, Busy
  <2>4. ASSUME c < owner
        PROVE  Runs(owner)
    <3>1. Urgency(owner) = 1
      BY <2>4 DEF Urgency
    <3> QED
      BY <2>3, <3>1, Urgencies DEF Runs
  <2> QED
    BY <2>1, <2>3, <2>4
<1> QED
  BY AlwaysOwned, <1>1, PTL

\* Among tasks that are ready one is to run.
LEMMA SomebodyRuns ==
  ASSUME NEW c \in Task, Ready(c)
  PROVE  \E d \in Task : Runs(d)
<1>1. \A m \in {1, 3, 5, 6, 7} :
        (\E d \in Task : Ready(d) /\ Urgency(d) = m)
        /\ (\A d \in Task : Ready(d) => m <= Urgency(d))
        => \E d \in Task : Runs(d)
  BY DEF Runs
<1> DEFINE At(m) == \E d \in Task : Ready(d) /\ Urgency(d) = m
<1>2. \A d \in Task : Ready(d) => At(Urgency(d))
  OBVIOUS
<1>3. At(1) \/ At(3) \/ At(5) \/ At(6) \/ At(7)
  BY <1>2, Urgencies
<1>4. \A m \in {1, 3, 5, 6, 7} :
        At(m) /\ (\A n \in {1, 3, 5, 6, 7} : n < m => ~ At(n)) => \E d \in Task : Runs(d)
  <2> SUFFICES ASSUME NEW m \in {1, 3, 5, 6, 7}, At(m),
                      \A n \in {1, 3, 5, 6, 7} : n < m => ~ At(n)
               PROVE  \E d \in Task : Runs(d)
    OBVIOUS
  <2>1. ASSUME NEW d \in Task, Ready(d)
        PROVE  m <= Urgency(d)
    <3>1. Urgency(d) \in {1, 3, 5, 6, 7} /\ At(Urgency(d))
      BY <1>2, <2>1, Urgencies
    <3>2. ~ Urgency(d) < m
      BY <3>1
    <3> HIDE DEF At
    <3> QED
      BY <3>1, <3>2
  <2> QED
    BY <1>1, <2>1
<1> HIDE DEF At
<1>5. CASE At(1)
  BY <1>4, <1>5
<1>6. CASE ~ At(1) /\ At(3)
  BY <1>4, <1>6
<1>7. CASE ~ At(1) /\ ~ At(3) /\ At(5)
  BY <1>4, <1>7
<1>8. CASE ~ At(1) /\ ~ At(3) /\ ~ At(5) /\ At(6)
  BY <1>4, <1>8
<1>9. CASE ~ At(1) /\ ~ At(3) /\ ~ At(5) /\ ~ At(6) /\ At(7)
  BY <1>4, <1>9
<1> QED
  BY <1>3, <1>5, <1>6, <1>7, <1>8, <1>9

\* The host does not stand still while anybody has something to do: some task
\* runs, unless the sensor has once failed to acknowledge.
HostGoesOn ==
  ~ unanswered /\ (\E c \in Task : prog[c] # <<>>) => \E c \in Task : Runs(c)

\* The tasks never all wait for each other over iicMutexSem (OSMutexPend and
\* OSMutexPost in the transfers of 24cxx.c), for any tasks and requests.
THEOREM HostNeverStalls == Spec => []HostGoesOn
<1>1. NobodyIsStuck => HostGoesOn
  <2> SUFFICES ASSUME NobodyIsStuck, ~ unanswered, NEW c \in Task, prog[c] # <<>>
               PROVE  \E d \in Task : Runs(d)
    BY DEF HostGoesOn
  <2>1. CASE c \in waiting
    <3>1. owner \in Task /\ Ready(owner)
      BY <2>1 DEF NobodyIsStuck
    <3> QED
      BY <3>1, SomebodyRuns
  <2>2. CASE c \notin waiting
    <3>1. Ready(c)
      BY <2>2 DEF Ready
    <3> QED
      BY <3>1, SomebodyRuns
  <2> QED
    BY <2>1, <2>2
<1> QED
  BY NobodyWaitsInVain, <1>1, PTL
=============================================================================
