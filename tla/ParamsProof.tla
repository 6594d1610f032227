----------------------------- MODULE ParamsProof -----------------------------
(***************************************************************************)
(* For any settings, operators and number of requests:                     *)
(*  - systemDefault is one: although it erases four of the sixteen bytes   *)
(*    only, the start that follows finds them erased, and from then on     *)
(*    memory has the factory's parameters and the EEPROM has as many of    *)
(*    them as the start has saved (IInv);                                  *)
(*  - the parameters keep their types (Sound, Typed);                      *)
(*  - an edit on the LCD puts back what it copied (LInv);                  *)
(*  - a command of the TCP server stays with its zone (CInv);              *)
(*  - what nobody is about to write is in the EEPROM (PInv).               *)
(***************************************************************************)
EXTENDS Params, SequenceTheorems, TLAPS

Wiping == {"erase", "reset"}

\* Programs that neither erase nor reset: all but systemDefault.
Tame(p) == \E S : p \in Seq(S) /\ \A x \in S : x.do \notin Wiping

\* What is left of systemDefault and of a save after k steps.
Wipe(k) == SubSeq(systemDefault, k + 1, 5)
Save(k) == SubSeq(WriteFieldPara, k + 1, 16)

Programs ==
  /\ \A c \in Task \ {"web"} : Tame(prog[c])
  /\ "web" \in User =>
       /\ Tame(prog["web"]) \/ \E k \in 0 .. 4 : /\ prog["web"] = Wipe(k)
                                                 /\ \A a \in 1 .. k : bytes[a] = ERASED
       /\ prog["web"] # <<>> => prog["start"] = <<>>

\* The start saves the factory's parameters, and nobody else is at work.
Saving ==
  /\ para = Factory /\ row = 0
  /\ \A c \in User : prog[c] = <<>>
  /\ \E k \in 0 .. 16 :
       /\ prog["start"] = Save(k)
       /\ \A a \in Address : 2 * a <= k => bytes[a] = ByteOf(Factory, a)
       /\ k % 2 = 1 => held["start"] = ByteOf(Factory, (k + 1) \div 2)

Functions ==
  /\ bytes = [a \in Address |-> bytes[a]]
  /\ held = [c \in Task |-> held[c]]
  /\ prog = [c \in Task |-> prog[c]]

IInv == Functions /\ Programs /\ (fresh => Saving)

-----------------------------------------------------------------------------
(* Programs                                                                *)

LEMMA TameEmpty == Tame(<<>>)
<1> DEFINE S == {}
<1>1. \A x \in S : x.do \notin Wiping
  OBVIOUS
<1> HIDE DEF S
<1>2. <<>> \in Seq(S)
  BY EmptySeq
<1> QED
  BY <1>1, <1>2 DEF Tame

LEMMA TameConcat ==
  ASSUME NEW p, NEW q, Tame(p), Tame(q)
  PROVE  Tame(p \o q)
<1>1. PICK S : p \in Seq(S) /\ \A x \in S : x.do \notin Wiping
  BY DEF Tame
<1>2. PICK T : q \in Seq(T) /\ \A x \in T : x.do \notin Wiping
  BY DEF Tame
<1>3. S \subseteq S \cup T /\ T \subseteq S \cup T
  OBVIOUS
<1>4. p \in Seq(S \cup T) /\ q \in Seq(S \cup T)
  BY <1>1, <1>2, <1>3, SeqMonotonic
<1>5. p \o q \in Seq(S \cup T)
  BY <1>4, ConcatProperties
<1>6. \A x \in S \cup T : x.do \notin Wiping
  BY <1>1, <1>2
<1> QED
  BY <1>5, <1>6 DEF Tame

LEMMA TameSingle ==
  ASSUME NEW x, x.do \notin Wiping
  PROVE  Tame(<<x>>)
<1> DEFINE S == {x}
<1>1. \A y \in S : y.do \notin Wiping
  OBVIOUS
<1>2. x \in S
  OBVIOUS
<1> HIDE DEF S
<1>3. <<x>> \in Seq(S)
  BY <1>2
<1> QED
  BY <1>1, <1>3 DEF Tame

\* The first step of a program, and what is left after it.
LEMMA TameTail ==
  ASSUME NEW p, Tame(p), p # <<>>
  PROVE  Tame(Tail(p)) /\ Head(p).do \notin Wiping
<1>1. PICK S : p \in Seq(S) /\ \A x \in S : x.do \notin Wiping
  BY DEF Tame
<1>2. Head(p) \in S /\ Tail(p) \in Seq(S)
  BY <1>1, HeadTailProperties
<1> QED
  BY <1>1, <1>2 DEF Tame

\* systemDefault step by step.
LEMMA WipeSteps ==
  /\ systemDefault = Wipe(0)
  /\ \A k \in 0 .. 4 :
       /\ Wipe(k) # <<>>
       /\ Head(Wipe(k)).do \in Wiping
       /\ Head(Wipe(k)).do = "erase" => /\ k \in 0 .. 3 /\ Head(Wipe(k)).at = k + 1
                                        /\ Tail(Wipe(k)) = Wipe(k + 1)
       /\ Head(Wipe(k)).do = "reset" => k = 4
<1> DEFINE S == [do : {"erase"}, at : 1 .. 4] \cup {Do("reset")}
           r == <<Do("reset")>>
<1>1. /\ EraseFieldPara \in Seq(S) /\ Len(EraseFieldPara) = 4
      /\ \A i \in 1 .. 4 : EraseFieldPara[i] = [do |-> "erase", at |-> i]
  <2>1. \A i \in 1 .. 4 : [do |-> "erase", at |-> i] \in S
    OBVIOUS
  <2> HIDE DEF S
  <2> QED
    BY <2>1 DEF EraseFieldPara
<1>2. r \in Seq(S) /\ Len(r) = 1 /\ r[1] = Do("reset")
  <2>1. Do("reset") \in S
    OBVIOUS
  <2> HIDE DEF S
  <2> QED
    BY <2>1
<1> HIDE DEF S, r
<1>3. /\ systemDefault \in Seq(S) /\ Len(systemDefault) = 5
      /\ \A i \in 1 .. 4 : systemDefault[i] = [do |-> "erase", at |-> i]
      /\ systemDefault[5] = Do("reset")
  <2>1. systemDefault = EraseFieldPara \o r
    BY DEF systemDefault, r
  <2>2. /\ EraseFieldPara \o r \in Seq(S) /\ Len(EraseFieldPara \o r) = 4 + 1
        /\ \A i \in 1 .. 4 + 1 :
             (EraseFieldPara \o r)[i] = IF i <= 4 THEN EraseFieldPara[i] ELSE r[i - 4]
    <3>1. /\ EraseFieldPara \o r \in Seq(S)
          /\ Len(EraseFieldPara \o r) = Len(EraseFieldPara) + Len(r)
          /\ \A i \in 1 .. Len(EraseFieldPara) + Len(r) :
               (EraseFieldPara \o r)[i] =
                 IF i <= Len(EraseFieldPara) THEN EraseFieldPara[i]
                 ELSE r[i - Len(EraseFieldPara)]
      BY <1>1, <1>2, ConcatProperties
    <3> QED
      BY <1>1, <1>2, <3>1
  <2> QED
    BY <1>1, <1>2, <2>1, <2>2
<1>4. systemDefault = Wipe(0)
  BY <1>3, SubSeqFull DEF Wipe
<1>5. ASSUME NEW k \in 0 .. 4
      PROVE  /\ Wipe(k) # <<>>
             /\ Head(Wipe(k)) = systemDefault[k + 1]
             /\ Tail(Wipe(k)) = Wipe(k + 1)
  <2>1. k + 1 \in 1 .. Len(systemDefault) /\ 5 \in k + 1 .. Len(systemDefault)
    BY <1>3
  <2>2. Head(Wipe(k)) = systemDefault[k + 1] /\ Tail(Wipe(k)) = Wipe(k + 1)
    BY <1>3, <2>1, HeadTailOfSubSeq DEF Wipe
  <2>3. Len(Wipe(k)) = 5 - k
    <3>1. \A i \in k + 1 .. 5 : systemDefault[i] \in S
      <4> TAKE i \in k + 1 .. 5
      <4>1. i \in 1 .. Len(systemDefault)
        BY <1>3
      <4> QED
        BY <1>3, <4>1, ElementOfSeq
    <3> QED
      BY <1>3, <3>1, SubSeqProperties DEF Wipe
  <2> QED
    BY <2>2, <2>3, EmptySeq
<1>6. Do("reset").do = "reset"
  BY DEF Do
<1>7. ASSUME NEW k \in 0 .. 3
      PROVE  Head(Wipe(k)).do = "erase" /\ Head(Wipe(k)).at = k + 1
  <2>1. k \in 0 .. 4 /\ k + 1 \in 1 .. 4
    OBVIOUS
  <2>2. Head(Wipe(k)) = systemDefault[k + 1]
    BY <1>5, <2>1
  <2>3. systemDefault[k + 1] = [do |-> "erase", at |-> k + 1]
    BY <1>3, <2>1
  <2> QED
    BY <2>2, <2>3
<1>8. Head(Wipe(4)).do = "reset"
  BY <1>3, <1>5, <1>6
<1> QED
  BY <1>4, <1>5, <1>7, <1>8 DEF Wiping

\* WriteFieldParaToEEProm step by step: each byte loaded, then written.
LEMMA SaveSteps ==
  /\ WriteFieldPara = Save(0) /\ Save(16) = <<>>
  /\ Tame(WriteFieldPara)
  /\ \A k \in 0 .. 15 :
       /\ Save(k) # <<>>
       /\ Tail(Save(k)) = Save(k + 1)
       /\ Head(Save(k)).do = (IF k % 2 = 0 THEN "load" ELSE "write")
       /\ Head(Save(k)).at = (k + 2) \div 2
<1> DEFINE S == [do : {"load", "write"}, at : Nat]
           e(i) == [do |-> IF i % 2 = 1 THEN "load" ELSE "write", at |-> (i + 1) \div 2]
<1>1. /\ WriteFieldPara \in Seq(S) /\ Len(WriteFieldPara) = 16
      /\ \A i \in 1 .. 16 : WriteFieldPara[i] = e(i)
  <2>1. \A i \in 1 .. 16 : e(i) \in S
    OBVIOUS
  <2>2. WriteFieldPara = [i \in 1 .. 16 |-> e(i)]
    BY DEF WriteFieldPara
  <2> HIDE DEF S, e
  <2> QED
    BY <2>1, <2>2
<1>2. Tame(WriteFieldPara)
  <2>1. \A x \in S : x.do \notin Wiping
    BY DEF Wiping
  <2> HIDE DEF S
  <2> QED
    BY <1>1, <2>1 DEF Tame
<1> HIDE DEF S
<1>3. WriteFieldPara = Save(0)
  BY <1>1, SubSeqFull DEF Save
<1>4. Save(16) = <<>>
  BY SubSeqEmpty DEF Save
<1>5. ASSUME NEW k \in 0 .. 15
      PROVE  /\ Save(k) # <<>>
             /\ Head(Save(k)) = e(k + 1)
             /\ Tail(Save(k)) = Save(k + 1)
  <2>1. k + 1 \in 1 .. Len(WriteFieldPara) /\ 16 \in k + 1 .. Len(WriteFieldPara)
    BY <1>1
  <2> HIDE DEF e
  <2>2. Head(Save(k)) = e(k + 1) /\ Tail(Save(k)) = Save(k + 1)
    BY <1>1, <2>1, HeadTailOfSubSeq DEF Save
  <2>3. Len(Save(k)) = 16 - k
    <3>1. \A i \in k + 1 .. 16 : WriteFieldPara[i] \in S
      <4> TAKE i \in k + 1 .. 16
      <4>1. i \in 1 .. Len(WriteFieldPara)
        BY <1>1
      <4> QED
        BY <1>1, <4>1, ElementOfSeq
    <3> QED
      BY <1>1, <3>1, SubSeqProperties DEF Save
  <2> QED
    BY <2>2, <2>3, EmptySeq
<1>6. ASSUME NEW k \in 0 .. 15
      PROVE  /\ Head(Save(k)).do = (IF k % 2 = 0 THEN "load" ELSE "write")
             /\ Head(Save(k)).at = (k + 2) \div 2
  <2>1. (k + 1) % 2 = 1 <=> k % 2 = 0
    OBVIOUS
  <2>2. (k + 1) + 1 = k + 2
    OBVIOUS
  <2>3. e(k + 1).do = (IF k % 2 = 0 THEN "load" ELSE "write")
    BY <2>1
  <2>4. e(k + 1).at = (k + 2) \div 2
    BY <2>2
  <2> HIDE DEF e
  <2> QED
    BY <1>5, <2>3, <2>4
<1> QED
  BY <1>2, <1>3, <1>4, <1>5, <1>6

LEMMA TameRequests ==
  /\ \A p : Tame(WebForm(p))
  /\ \A n, v : Tame(SetParas(n, v))
  /\ Tame(SavePage)
<1>1. Tame(WriteFieldPara)
  BY SaveSteps
<1>2. ASSUME NEW p
      PROVE  Tame(WebForm(p))
  <2>1. Tame(<< [do |-> "form", to |-> p] >>)
    BY TameSingle DEF Wiping
  <2> QED
    BY <1>1, <2>1, TameConcat DEF WebForm
<1>3. ASSUME NEW n, NEW v
      PROVE  Tame(SetParas(n, v))
  <2>1. /\ Tame(<< [do |-> "renumber", num |-> n, to |-> v] >>)
        /\ Tame(<< [do |-> "delay", to |-> v] >>)
        /\ Tame(<< [do |-> "sens", to |-> v] >>)
    BY TameSingle DEF Wiping
  <2> QED
    BY <1>1, <2>1, TameConcat DEF SetParas
<1>4. Tame(SavePage)
  <2> DEFINE copies == [i \in 1..3 |-> [do |-> "copy", param |-> Row[i]]]
             S == {[do |-> "copy", param |-> Row[i]] : i \in 1..3}
  <2>1. \A x \in S : x.do \notin Wiping
    BY DEF Wiping
  <2>2. copies \in Seq(S)
    <3>1. \A i \in 1..3 : [do |-> "copy", param |-> Row[i]] \in S
      OBVIOUS
    <3> HIDE DEF S
    <3> QED
      BY <3>1
  <2>3. Tame(copies)
    <3> HIDE DEF S, copies
    <3> QED
      BY <2>1, <2>2 DEF Tame
  <2>4. Tame(<<Do("leave")>>)
    BY TameSingle DEF Do, Wiping
  <2> HIDE DEF copies
  <2>5. SavePage = copies \o WriteFieldPara \o WriteFieldPara \o WriteFieldPara \o <<Do("leave")>>
    BY DEF SavePage, copies
  <2> QED
    BY <1>1, <2>3, <2>4, <2>5, TameConcat
<1> QED
  BY <1>2, <1>3, <1>4

-----------------------------------------------------------------------------
(* Who can run                                                             *)

LEMMA Tasks ==
  /\ "start" \in Task /\ Task = {"start"} \cup User /\ "start" \notin User
  /\ User \subseteq {"web", "lcd", "tcp"}
<1>1. User \subseteq {"web", "lcd", "tcp"}
  BY ParamsAssumption
<1>2. "start" \notin {"web", "lcd", "tcp"}
  OBVIOUS
<1> QED
  BY <1>1, <1>2 DEF Task

\* While the web task is at work, nobody else takes a step.
LEMMA WebAlone ==
  ASSUME IInv, NEW c \in Task, Runs(c), "web" \in User, prog["web"] # <<>>
  PROVE  c = "web"
<1>1. prog["start"] = <<>>
  BY DEF IInv, Programs
<1>2. CASE c = "start"
  BY <1>1, <1>2 DEF Runs
<1>3. CASE c \in {"lcd", "tcp"}
  <2>1. "web" \in MoreUrgent(c) \cap Task
    BY <1>3, Tasks DEF MoreUrgent
  <2> QED
    BY <2>1 DEF Runs, Free
<1>4. c \in {"start", "web", "lcd", "tcp"}
  BY Tasks
<1> QED
  BY <1>2, <1>3, <1>4

\* While the factory's parameters are saved, the start alone takes a step.
LEMMA StartAlone ==
  ASSUME IInv, fresh, NEW c \in Task, Runs(c)
  PROVE  c = "start"
BY Tasks DEF IInv, Saving, Runs

\* The step of a program that neither erases nor resets.
LEMMA TameStep ==
  ASSUME IInv, NEW c \in Task, Runs(c), Due(c).do \notin Wiping, Go(c)
  PROVE  prog' = [d \in Task |-> prog'[d]] /\ Programs'
<1>1. prog' = [d \in Task |-> IF d = c THEN Tail(prog[c]) ELSE prog[d]]
  BY DEF Go, IInv, Functions
<1>2. prog[c] # <<>>
  BY DEF Runs
<1>3. Tame(prog[c])
  <2>1. CASE c # "web"
    BY <2>1 DEF IInv, Programs
  <2>2. CASE c = "web"
    <3>1. "web" \in User
      BY <2>2, Tasks
    <3>2. \A k \in 0 .. 4 : prog["web"] # Wipe(k)
      BY <2>2, WipeSteps DEF Due
    <3> QED
      BY <2>2, <3>1, <3>2 DEF IInv, Programs
  <2> QED
    BY <2>1, <2>2
<1>4. Tame(Tail(prog[c]))
  BY <1>2, <1>3, TameTail
<1>5. \A d \in Task \ {"web"} : Tame(prog'[d])
  BY <1>1, <1>4 DEF IInv, Programs
<1>6. ASSUME "web" \in User
      PROVE  /\ Tame(prog'["web"])
             /\ prog'["web"] # <<>> => prog'["start"] = <<>>
  <2>1. CASE c = "web"
    BY <1>1, <1>2, <1>4, <1>6, <2>1, Tasks DEF IInv, Programs
  <2>2. CASE c # "web"
    <3>1. prog["web"] = <<>>
      BY <1>6, <2>2, WebAlone
    <3>2. prog'["web"] = <<>>
      BY <1>1, <1>6, <2>2, <3>1, Tasks
    <3> QED
      BY <3>2, TameEmpty
  <2> QED
    BY <2>1, <2>2
<1> QED
  BY <1>1, <1>5, <1>6 DEF Programs

\* A step of another kind than those of a save is not taken while one is.
LEMMA SaveOnly ==
  ASSUME IInv, NEW c \in Task, Runs(c), Due(c).do \notin {"load", "write"}
  PROVE  ~ fresh
<1> SUFFICES ASSUME fresh
             PROVE  FALSE
  OBVIOUS
<1>1. c = "start"
  BY StartAlone
<1>2. PICK k \in 0 .. 16 : prog["start"] = Save(k)
  BY DEF IInv, Saving
<1>3. k \in 0 .. 15
  BY <1>1, <1>2, SaveSteps DEF Runs
<1> QED
  BY <1>1, <1>2, <1>3, SaveSteps DEF Due

-----------------------------------------------------------------------------
(* The steps                                                               *)

\* Those that neither belong to a save nor to systemDefault.
LEMMA OtherStep ==
  ASSUME IInv, NEW c \in Task, Runs(c), Due(c).do \notin Wiping \cup {"load", "write"},
         Go(c), UNCHANGED <<bytes, held, fresh>>
  PROVE  IInv'
<1>1. ~ fresh'
  BY SaveOnly
<1> QED
  BY <1>1, TameStep DEF IInv, Functions

LEMMA LoadKeeps ==
  ASSUME IInv, NEW c \in Task, Load(c)
  PROVE  IInv'
<1>1. /\ Runs(c) /\ Due(c).do = "load" /\ Go(c)
      /\ held' = [held EXCEPT ![c] = ByteOf(para, Due(c).at)]
      /\ UNCHANGED <<para, bytes, row, fresh>>
  BY DEF Load, Step, lcd
<1>2. Programs' /\ prog' = [d \in Task |-> prog'[d]]
  BY <1>1, TameStep DEF Wiping
<1>3. Functions'
  BY <1>1, <1>2 DEF IInv, Functions
<1>4. ASSUME fresh
      PROVE  Saving'
  <2>1. c = "start"
    BY <1>1, <1>4, StartAlone
  <2>2. Saving
    BY <1>4 DEF IInv
  <2>3. PICK k \in 0 .. 16 :
          /\ prog["start"] = Save(k)
          /\ \A a \in Address : 2 * a <= k => bytes[a] = ByteOf(Factory, a)
    BY <2>2 DEF Saving
  <2>4. k \in 0 .. 15 /\ prog'["start"] = Save(k + 1)
    <3>1. k \in 0 .. 15
      <4>1. Save(k) # <<>>
        BY <1>1, <2>1, <2>3 DEF Runs
      <4>2. k # 16
        BY <4>1, SaveSteps
      <4> QED
        BY <4>2
    <3>2. prog'["start"] = Tail(prog["start"])
      BY <1>1, <2>1, Tasks DEF Go, IInv, Functions
    <3> QED
      BY <2>3, <3>1, <3>2, SaveSteps
  <2>5. k % 2 = 0 /\ Due(c).at = (k + 2) \div 2
    <3>1. Due(c) = Head(Save(k))
      BY <2>1, <2>3 DEF Due
    <3> QED
      BY <1>1, <2>4, <3>1, SaveSteps
  <2>6. \A a \in Address : 2 * a <= k + 1 => bytes'[a] = ByteOf(Factory, a)
    <3>1. \A a \in Address : 2 * a <= k + 1 => 2 * a <= k
      BY <2>4, <2>5 DEF Address
    <3> QED
      BY <1>1, <2>3, <3>1
  <2>7. held'["start"] = ByteOf(Factory, ((k + 1) + 1) \div 2)
    <3>1. held'["start"] = ByteOf(Factory, (k + 2) \div 2)
      BY <1>1, <2>1, <2>2, <2>5, Tasks DEF IInv, Functions, Saving
    <3>2. (k + 1) + 1 = k + 2
      OBVIOUS
    <3> QED
      BY <3>1, <3>2
  <2>8. \A d \in User : prog'[d] = <<>>
    BY <1>1, <2>1, <2>2, Tasks DEF Go, IInv, Functions, Saving
  <2>9. k + 1 \in 0 .. 16
    BY <2>4
  <2> QED
    BY <1>1, <2>2, <2>4, <2>6, <2>7, <2>8, <2>9 DEF Saving
<1> QED
  BY <1>1, <1>2, <1>3, <1>4 DEF IInv

LEMMA WriteKeeps ==
  ASSUME IInv, NEW c \in Task, Write(c)
  PROVE  IInv'
<1>1. /\ Runs(c) /\ Due(c).do = "write" /\ Go(c)
      /\ bytes' = [bytes EXCEPT ![Due(c).at] = held[c]]
      /\ held' = [held EXCEPT ![c] = 0]
      /\ UNCHANGED <<para, row, fresh>>
  BY DEF Write, Step, lcd
<1>2. Programs' /\ prog' = [d \in Task |-> prog'[d]]
  BY <1>1, TameStep DEF Wiping
<1>3. Functions'
  BY <1>1, <1>2 DEF IInv, Functions
<1>4. ASSUME fresh
      PROVE  Saving'
  <2>1. c = "start"
    BY <1>1, <1>4, StartAlone
  <2>2. Saving
    BY <1>4 DEF IInv
  <2>3. PICK k \in 0 .. 16 :
          /\ prog["start"] = Save(k)
          /\ \A a \in Address : 2 * a <= k => bytes[a] = ByteOf(Factory, a)
          /\ k % 2 = 1 => held["start"] = ByteOf(Factory, (k + 1) \div 2)
    BY <2>2 DEF Saving
  <2>4. k \in 0 .. 15 /\ prog'["start"] = Save(k + 1)
    <3>1. k \in 0 .. 15
      <4>1. Save(k) # <<>>
        BY <1>1, <2>1, <2>3 DEF Runs
      <4>2. k # 16
        BY <4>1, SaveSteps
      <4> QED
        BY <4>2
    <3>2. prog'["start"] = Tail(prog["start"])
      BY <1>1, <2>1, Tasks DEF Go, IInv, Functions
    <3> QED
      BY <2>3, <3>1, <3>2, SaveSteps
  <2>5. k % 2 = 1 /\ Due(c).at = (k + 2) \div 2
    <3>1. Due(c) = Head(Save(k))
      BY <2>1, <2>3 DEF Due
    <3>2. k % 2 # 0
      BY <1>1, <2>4, <3>1, SaveSteps
    <3>3. k % 2 \in {0, 1}
      BY <2>4
    <3>4. Due(c).at = (k + 2) \div 2
      BY <2>4, <3>1, SaveSteps
    <3> QED
      BY <3>2, <3>3, <3>4
  <2>6. (k + 2) \div 2 = (k + 1) \div 2 /\ 2 * ((k + 1) \div 2) = k + 1
    BY <2>4, <2>5
  <2>7. \A a \in Address : 2 * a <= k + 1 => bytes'[a] = ByteOf(Factory, a)
    <3> SUFFICES ASSUME NEW a \in Address, 2 * a <= k + 1
                 PROVE  bytes'[a] = ByteOf(Factory, a)
      OBVIOUS
    <3>1. CASE a = (k + 1) \div 2
      BY <1>1, <2>1, <2>3, <2>5, <2>6, <3>1 DEF IInv, Functions
    <3>2. CASE a # (k + 1) \div 2
      <4>1. 2 * a <= k
        BY <2>4, <2>6, <3>2 DEF Address
      <4>2. bytes'[a] = bytes[a]
        BY <1>1, <2>5, <2>6, <3>2 DEF IInv, Functions
      <4> QED
        BY <2>3, <4>1, <4>2
    <3> QED
      BY <3>1, <3>2
  <2>8. \A d \in User : prog'[d] = <<>>
    BY <1>1, <2>1, <2>2, Tasks DEF Go, IInv, Functions, Saving
  <2>9. k + 1 \in 0 .. 16 /\ (k + 1) % 2 # 1
    BY <2>4, <2>5
  <2> QED
    BY <1>1, <2>2, <2>4, <2>7, <2>8, <2>9 DEF Saving
<1> QED
  BY <1>1, <1>2, <1>3, <1>4 DEF IInv

\* An erasure is one of systemDefault's.
LEMMA EraseKeeps ==
  ASSUME IInv, NEW c \in Task, Erase(c)
  PROVE  IInv'
<1>1. /\ Runs(c) /\ Due(c).do = "erase" /\ Go(c)
      /\ bytes' = [bytes EXCEPT ![Due(c).at] = ERASED]
      /\ UNCHANGED <<held, fresh>>
  BY DEF Erase, Step
<1>2. ~ fresh'
  BY <1>1, SaveOnly
<1>3. ~ Tame(prog[c])
  BY <1>1, TameTail DEF Due, Runs, Wiping
<1>4. c = "web" /\ "web" \in User
  BY <1>3, Tasks DEF IInv, Programs
<1>5. PICK k \in 0 .. 4 : prog["web"] = Wipe(k) /\ \A a \in 1 .. k : bytes[a] = ERASED
  BY <1>3, <1>4 DEF IInv, Programs
<1>6. k \in 0 .. 3 /\ Due(c).at = k + 1 /\ Tail(prog[c]) = Wipe(k + 1)
  BY <1>1, <1>4, <1>5, WipeSteps DEF Due
<1>7. prog' = [d \in Task |-> IF d = c THEN Tail(prog[c]) ELSE prog[d]]
  BY <1>1 DEF Go, IInv, Functions
<1>8. Functions'
  BY <1>1, <1>7 DEF IInv, Functions
<1>9. \A d \in Task \ {"web"} : Tame(prog'[d])
  BY <1>4, <1>7 DEF IInv, Programs
<1>10. prog'["web"] = Wipe(k + 1) /\ k + 1 \in 0 .. 4
  BY <1>4, <1>6, <1>7
<1>11. \A a \in 1 .. k + 1 : bytes'[a] = ERASED
  <2>1. 1 .. k + 1 \subseteq Address
    BY <1>6 DEF Address
  <2>2. \A a \in 1 .. k + 1 : a = k + 1 \/ a \in 1 .. k
    OBVIOUS
  <2>3. bytes' = [a \in Address |-> IF a = k + 1 THEN ERASED ELSE bytes[a]]
    BY <1>1, <1>6 DEF IInv, Functions
  <2> QED
    BY <1>5, <2>1, <2>2, <2>3
<1>12. prog'["start"] = <<>>
  BY <1>1, <1>4, <1>7, Tasks DEF IInv, Programs, Runs
<1>13. Programs'
  BY <1>9, <1>10, <1>11, <1>12 DEF Programs
<1> QED
  BY <1>2, <1>8, <1>13 DEF IInv

-----------------------------------------------------------------------------
(* Starting                                                                *)

\* The factory's parameters, stored and read back, are the same.
LEMMA FactoryBytes ==
  ASSUME \A a \in Address : bytes[a] = ByteOf(Factory, a)
  PROVE  ReadFieldPara = Factory
<1> DEFINE f == [num |-> 0, delay |-> 30, sens |-> 4]
           b == <<f.num, f.delay \div 256, f.delay % 256, f.sens>>
<1>1. Factory = [z \in Zone |-> f]
  BY DEF Factory
<1>2. \A a \in Address : ByteOf(Factory, a) = b[((a - 1) % 4) + 1]
  <2>1. \A a \in Address : ZoneOf(a) \in Zone
    BY DEF ZoneOf, Zone
  <2>2. \A a \in Address : Factory[ZoneOf(a)] = f
    BY <1>1, <2>1
  <2> QED
    BY <2>2 DEF ByteOf
<1>3. b[1] = 0 /\ b[2] = 0 /\ b[3] = 30 /\ b[4] = 4
  OBVIOUS
<1> HIDE DEF b
<1>4. \A a \in {1, 5} : /\ bytes[a] = 0 /\ bytes[a + 1] = 0
                        /\ bytes[a + 2] = 30 /\ bytes[a + 3] = 4
  <2>1. /\ ((1 - 1) % 4) + 1 = 1 /\ ((2 - 1) % 4) + 1 = 2
        /\ ((3 - 1) % 4) + 1 = 3 /\ ((4 - 1) % 4) + 1 = 4
        /\ ((5 - 1) % 4) + 1 = 1 /\ ((6 - 1) % 4) + 1 = 2
        /\ ((7 - 1) % 4) + 1 = 3 /\ ((8 - 1) % 4) + 1 = 4
    OBVIOUS
  <2>2. bytes[1] = 0 /\ bytes[2] = 0 /\ bytes[3] = 30 /\ bytes[4] = 4
    BY <1>2, <1>3, <2>1 DEF Address
  <2>3. bytes[5] = 0 /\ bytes[6] = 0 /\ bytes[7] = 30 /\ bytes[8] = 4
    BY <1>2, <1>3, <2>1 DEF Address
  <2> QED
    BY <2>2, <2>3
<1>5. \A z \in Zone : AddressOf(z) \in {1, 5}
  BY DEF AddressOf
<1>6. \A z \in Zone : ReadFieldPara[z] = f
  BY <1>4, <1>5 DEF ReadFieldPara
<1> QED
  BY <1>1, <1>6 DEF ReadFieldPara

LEMMA StartKeeps ==
  ASSUME IInv, Started
  PROVE  /\ Functions' /\ Programs'
         /\ LooksErased \/ (fresh /\ AtRest) => Saving'
<1>1. /\ para' = IF LooksErased THEN Factory ELSE ReadFieldPara
      /\ prog' = [c \in Task |-> IF c = "start" /\ LooksErased THEN WriteFieldPara ELSE <<>>]
      /\ held' = [c \in Task |-> 0]
      /\ row' = 0 /\ bytes' = bytes
  BY DEF Started
<1>2. Functions'
  BY <1>1 DEF IInv, Functions
<1>3. \A c \in Task : Tame(prog'[c])
  BY <1>1, TameEmpty, SaveSteps
<1>4. \A c \in User : prog'[c] = <<>>
  BY <1>1, Tasks
<1>5. Programs'
  BY <1>3, <1>4, Tasks DEF Programs
<1>6. ASSUME LooksErased
      PROVE  Saving'
  <2>1. prog'["start"] = Save(0)
    BY <1>1, <1>6, SaveSteps, Tasks
  <2>2. 0 \in 0 .. 16 /\ 0 % 2 # 1 /\ \A a \in Address : ~ (2 * a <= 0)
    BY DEF Address
  <2> QED
    BY <1>1, <1>4, <1>6, <2>1, <2>2 DEF Saving
<1>7. ASSUME fresh, AtRest, ~ LooksErased
      PROVE  Saving'
  <2>1. PICK k \in 0 .. 16 :
          /\ prog["start"] = Save(k)
          /\ \A a \in Address : 2 * a <= k => bytes[a] = ByteOf(Factory, a)
    BY <1>7 DEF IInv, Saving
  <2>2. k = 16
    <3>1. Save(k) = <<>>
      BY <1>7, <2>1, Tasks DEF AtRest
    <3>2. k \notin 0 .. 15
      BY <3>1, SaveSteps
    <3> QED
      BY <3>2
  <2>3. \A a \in Address : bytes[a] = ByteOf(Factory, a)
    BY <2>1, <2>2 DEF Address
  <2>4. para' = Factory
    BY <1>1, <1>7, <2>3, FactoryBytes
  <2>5. prog'["start"] = Save(16)
    BY <1>1, <1>7, SaveSteps, Tasks
  <2>6. 16 \in 0 .. 16 /\ 16 % 2 # 1
    OBVIOUS
  <2> QED
    BY <1>1, <1>4, <2>3, <2>4, <2>5, <2>6 DEF Saving
<1> QED
  BY <1>2, <1>5, <1>6, <1>7

LEMMA ResetKeeps ==
  ASSUME IInv, NEW c \in Task, Reset(c)
  PROVE  IInv'
<1>1. Runs(c) /\ Due(c).do = "reset" /\ Started /\ fresh'
  BY DEF Reset, Step
<1>2. ~ Tame(prog[c])
  BY <1>1, TameTail DEF Due, Runs, Wiping
<1>3. c = "web" /\ "web" \in User
  BY <1>2, Tasks DEF IInv, Programs
<1>4. PICK k \in 0 .. 4 : prog["web"] = Wipe(k) /\ \A a \in 1 .. k : bytes[a] = ERASED
  BY <1>2, <1>3 DEF IInv, Programs
<1>5. k = 4
  BY <1>1, <1>3, <1>4, WipeSteps DEF Due
<1>6. LooksErased
  BY <1>4, <1>5 DEF LooksErased
<1> QED
  BY <1>1, <1>6, StartKeeps DEF IInv

LEMMA PowerCycleKeepsIt == IInv /\ PowerCycle => IInv'
BY StartKeeps DEF PowerCycle, IInv, AtRest

LEMMA Beginning == Init => IInv
<1> SUFFICES ASSUME Init
             PROVE  IInv
  OBVIOUS
<1>1. prog = [c \in Task |-> IF c = "start" THEN WriteFieldPara ELSE <<>>] /\ ~ fresh
  BY DEF Init
<1>2. Functions
  BY DEF Init, Functions
<1>3. \A c \in Task : Tame(prog[c])
  BY <1>1, TameEmpty, SaveSteps
<1>4. "web" \in User => prog["web"] = <<>>
  BY <1>1, Tasks
<1>5. Programs
  BY <1>3, <1>4, TameEmpty DEF Programs
<1> QED
  BY <1>1, <1>2, <1>5 DEF IInv

-----------------------------------------------------------------------------
(* Operators                                                               *)

\* A task that had nothing to do is given a program.
LEMMA BegunKeeps ==
  ASSUME IInv, NEW c \in User, Idle(c), NEW p, Tame(p) \/ (c = "web" /\ p = systemDefault),
         prog' = [prog EXCEPT ![c] = p], UNCHANGED <<bytes, held>>
  PROVE  Functions' /\ Programs'
<1>1. prog' = [d \in Task |-> IF d = c THEN p ELSE prog[d]]
  BY DEF IInv, Functions
<1>2. Functions'
  BY <1>1 DEF IInv, Functions
<1>3. \A d \in Task \ {"web"} : Tame(prog'[d])
  BY <1>1 DEF IInv, Programs
<1>4. ASSUME "web" \in User
      PROVE  /\ \/ Tame(prog'["web"])
                \/ \E k \in 0 .. 4 : /\ prog'["web"] = Wipe(k)
                                     /\ \A a \in 1 .. k : bytes'[a] = ERASED
             /\ prog'["web"] # <<>> => prog'["start"] = <<>>
  <2>1. CASE c # "web"
    <3>1. prog'["web"] = prog["web"] /\ prog'["start"] = prog["start"]
      BY <1>1, <1>4, <2>1, Tasks
    <3> QED
      BY <1>4, <3>1 DEF IInv, Programs
  <2>2. CASE c = "web"
    <3>1. prog'["web"] = p /\ prog'["start"] = prog["start"]
      BY <1>1, <2>2, Tasks
    <3>2. prog["start"] = <<>>
      <4>1. "start" \in MoreUrgent(c) \cap Task
        BY <2>2, Tasks DEF MoreUrgent
      <4> QED
        BY <4>1 DEF Idle, Free
    <3>3. Tame(p) \/ (p = Wipe(0) /\ \A a \in 1 .. 0 : bytes'[a] = ERASED)
      BY WipeSteps
    <3> QED
      BY <3>1, <3>2, <3>3
  <2> QED
    BY <2>1, <2>2
<1> QED
  BY <1>2, <1>3, <1>4 DEF Programs

LEMMA AskKeeps ==
  ASSUME IInv, NEW c \in User, NEW p, Tame(p) \/ (c = "web" /\ p = systemDefault), Ask(c, p)
  PROVE  IInv'
BY BegunKeeps DEF Ask, IInv

\* A key on the LCD pages, but for the one that saves: at most the row under
\* edit changes, and then nothing is fresh.
LEMMA KeyKeeps ==
  ASSUME IInv, Key, fresh' => fresh /\ (row' = row \/ row' = 0)
  PROVE  IInv'
<1>1. UNCHANGED <<para, bytes, prog, held>>
  BY DEF Key
<1>2. Functions' /\ Programs'
  BY <1>1 DEF IInv, Functions, Programs
<1>3. ASSUME fresh'
      PROVE  Saving'
  <2>1. Saving /\ row' = 0
    BY <1>3 DEF IInv, Saving
  <2> QED
    BY <1>1, <2>1 DEF Saving
<1> QED
  BY <1>2, <1>3 DEF IInv

LEMMA EnterSaveKeeps == IInv /\ EnterSave => IInv'
<1> SUFFICES ASSUME IInv, EnterSave
             PROVE  IInv'
  OBVIOUS
<1>1. /\ "lcd" \in User /\ Idle("lcd") /\ row # 0
      /\ prog' = [prog EXCEPT !["lcd"] = SavePage]
      /\ UNCHANGED <<bytes, held, fresh>>
  BY DEF EnterSave
<1>2. ~ fresh
  BY <1>1 DEF IInv, Saving
<1>3. Functions' /\ Programs'
  BY <1>1, BegunKeeps, TameRequests
<1> QED
  BY <1>1, <1>2, <1>3 DEF IInv

-----------------------------------------------------------------------------
(* The theorem                                                             *)

LEMMA Kept == IInv /\ [Next]_vars => IInv'
<1> SUFFICES ASSUME IInv, [Next]_vars
             PROVE  IInv'
  OBVIOUS
<1>1. ASSUME NEW c \in Task, Load(c) \/ Write(c) \/ Erase(c) \/ Reset(c)
      PROVE  IInv'
  BY <1>1, LoadKeeps, WriteKeeps, EraseKeeps, ResetKeeps
<1>2. ASSUME NEW c \in Task,
             \/ Form(c) \/ Renumber(c) \/ SetDelay(c) \/ SetSensitivity(c)
             \/ CopyBack(c) \/ Leave(c)
      PROVE  IInv'
  <2>1. /\ Runs(c) /\ Go(c) /\ UNCHANGED <<bytes, held, fresh>>
        /\ Due(c).do \in {"form", "renumber", "delay", "sens", "copy", "leave"}
    BY <1>2 DEF Form, Renumber, SetDelay, SetSensitivity, CopyBack, Leave, Step
  <2>2. Due(c).do \notin Wiping \cup {"load", "write"}
    BY <2>1 DEF Wiping
  <2> QED
    BY <2>1, <2>2, OtherStep
<1>3. CASE PowerCycle
  BY <1>3, PowerCycleKeepsIt
<1>4. CASE WebSets
  BY <1>4, AskKeeps, TameRequests DEF WebSets
<1>5. CASE WebDefault
  BY <1>5, AskKeeps DEF WebDefault
<1>6. CASE TcpSets
  BY <1>6, AskKeeps, TameRequests DEF TcpSets
<1>7. CASE ShowList
  BY <1>7, KeyKeeps DEF ShowList
<1>8. CASE \E z \in Zone : OpenPage(z)
  BY <1>8, KeyKeeps DEF OpenPage
<1>9. CASE \E r \in DOMAIN Row : EnterEdit(r)
  BY <1>9, KeyKeeps DEF EnterEdit
<1>10. CASE Change
  BY <1>10, KeyKeeps DEF Change
<1>11. CASE Escape
  BY <1>11, KeyKeeps DEF Escape
<1>12. CASE EnterSave
  BY <1>12, EnterSaveKeeps
<1>13. CASE UNCHANGED vars
  BY <1>13 DEF IInv, Functions, Programs, Saving, vars, lcd
<1> QED
  BY <1>1, <1>2, <1>3, <1>4, <1>5, <1>6, <1>7, <1>8, <1>9, <1>10, <1>11, <1>12, <1>13
     DEF Next

\* After systemDefault the host has the factory's parameters, whatever they
\* were, until somebody sets others, also after further starts: four erased
\* bytes are enough for ALARM_Init to find the EEPROM erased, and nobody sets
\* anything between the erasures and the reset.
THEOREM DefaultIsKept == Spec => []DefaultHolds
<1>1. IInv => DefaultHolds
  BY DEF IInv, Saving, DefaultHolds
<1> QED
  BY <1>1, Beginning, Kept, PTL DEF Spec

-----------------------------------------------------------------------------
(* What the parameters are out of                                           *)

Top == 65535

\* For the provers, an interval that is not spelled out.
LEMMA Wide == u16 = 0..Top
BY DEF u16, Top

LEMMA Fields ==
  ASSUME NEW r \in Setting
  PROVE  /\ r = [q \in Param |-> r[q]]
         /\ r["num"] \in u8 /\ r["delay"] \in u16 /\ r["sens"] \in u8
         /\ r.num = r["num"] /\ r.delay = r["delay"] /\ r.sens = r["sens"]
<1> USE DEF Param
<1>1. r \in [num : u8, delay : u16, sens : u8]
  BY DEF Setting
<1> QED
  BY <1>1

LEMMA FromFields ==
  ASSUME NEW r, r = [q \in Param |-> r[q]],
         r["num"] \in u8, r["delay"] \in u16, r["sens"] \in u8
  PROVE  r \in Setting
<1>1. r = [q \in {"num", "delay", "sens"} |-> r[q]]
  BY DEF Param
<1>2. r = [num |-> r.num, delay |-> r.delay, sens |-> r.sens]
  BY <1>1
<1> QED
  BY <1>2 DEF Setting

\* A value put in, under whichever name.
LEMMA PutIn ==
  ASSUME NEW r \in Setting, NEW q \in Param, NEW x,
         x \in (IF q = "delay" THEN u16 ELSE u8)
  PROVE  /\ [r EXCEPT ![q] = x] \in Setting
         /\ \A k \in Param : [r EXCEPT ![q] = x][k] = IF k = q THEN x ELSE r[k]
<1> DEFINE s == [r EXCEPT ![q] = x]
<1>1. r = [k \in Param |-> r[k]]
  BY Fields
<1>2. s = [k \in Param |-> IF k = q THEN x ELSE r[k]]
  BY <1>1
<1>3. \A k \in Param : s[k] = IF k = q THEN x ELSE r[k]
  BY <1>2
<1>4. "num" \in Param /\ "delay" \in Param /\ "sens" \in Param
  BY DEF Param
<1>5. s["num"] \in u8 /\ s["delay"] \in u16 /\ s["sens"] \in u8
  BY <1>3, <1>4, Fields
<1>6. s = [k \in Param |-> s[k]]
  BY <1>2
<1> QED
  BY <1>3, <1>5, <1>6, FromFields

LEMMA PutInNum ==
  ASSUME NEW r \in Setting, NEW x \in u8
  PROVE  /\ [r EXCEPT !.num = x] \in Setting
         /\ \A k \in Param : [r EXCEPT !.num = x][k] = IF k = "num" THEN x ELSE r[k]
<1> DEFINE s == [r EXCEPT !.num = x]
           t == [r EXCEPT !["num"] = x]
<1>1. s = t
  OBVIOUS
<1>2. "num" \in Param /\ "num" # "delay"
  BY DEF Param
<1>3. t \in Setting /\ \A k \in Param : t[k] = IF k = "num" THEN x ELSE r[k]
  BY <1>2, PutIn
<1> HIDE DEF s, t
<1>4. s \in Setting /\ \A k \in Param : s[k] = IF k = "num" THEN x ELSE r[k]
  BY <1>1, <1>3
<1> QED
  BY <1>4 DEF s

LEMMA PutInDelay ==
  ASSUME NEW r \in Setting, NEW x \in u16
  PROVE  /\ [r EXCEPT !.delay = x] \in Setting
         /\ \A k \in Param : [r EXCEPT !.delay = x][k] = IF k = "delay" THEN x ELSE r[k]
<1> DEFINE s == [r EXCEPT !.delay = x]
           t == [r EXCEPT !["delay"] = x]
<1>1. s = t
  OBVIOUS
<1>2. "delay" \in Param
  BY DEF Param
<1>3. t \in Setting /\ \A k \in Param : t[k] = IF k = "delay" THEN x ELSE r[k]
  BY <1>2, PutIn
<1> HIDE DEF s, t
<1>4. s \in Setting /\ \A k \in Param : s[k] = IF k = "delay" THEN x ELSE r[k]
  BY <1>1, <1>3
<1> QED
  BY <1>4 DEF s

LEMMA PutInSens ==
  ASSUME NEW r \in Setting, NEW x \in u8
  PROVE  /\ [r EXCEPT !.sens = x] \in Setting
         /\ \A k \in Param : [r EXCEPT !.sens = x][k] = IF k = "sens" THEN x ELSE r[k]
<1> DEFINE s == [r EXCEPT !.sens = x]
           t == [r EXCEPT !["sens"] = x]
<1>1. s = t
  OBVIOUS
<1>2. "sens" \in Param /\ "sens" # "delay"
  BY DEF Param
<1>3. t \in Setting /\ \A k \in Param : t[k] = IF k = "sens" THEN x ELSE r[k]
  BY <1>2, PutIn
<1> HIDE DEF s, t
<1>4. s \in Setting /\ \A k \in Param : s[k] = IF k = "sens" THEN x ELSE r[k]
  BY <1>1, <1>3
<1> QED
  BY <1>4 DEF s

LEMMA ChosenTypes ==
  /\ Number \subseteq u8 /\ Delay \subseteq u16 /\ Sensitivity \subseteq u8
  /\ Values \subseteq Setting
  /\ \A q \in Param : Choice[q] \subseteq (IF q = "delay" THEN u16 ELSE u8)
<1>1. Number \subseteq u8
  <2>1. \A n \in Number : n \in Nat /\ n < 255
    BY ParamsAssumption DEF ERASED
  <2> QED
    BY <2>1 DEF u8
<1>2. Delay \subseteq u16
  <2>1. \A n \in Delay : n \in Nat /\ n < 65536
    BY ParamsAssumption
  <2>2. Top = 65535
    BY DEF Top
  <2>3. \A n \in Delay : n \in Nat /\ n <= Top
    BY <2>1, <2>2
  <2>4. Top \in Nat
    BY <2>2
  <2> QED
    BY <2>3, <2>4, Wide
<1>3. Sensitivity \subseteq u8
  <2>1. \A n \in Sensitivity : n \in Nat /\ n < 256
    BY ParamsAssumption
  <2> QED
    BY <2>1 DEF u8
<1>4. Values \subseteq Setting
  BY <1>1, <1>2, <1>3 DEF Values, Setting
<1>5. Choice["num"] = Number /\ Choice["delay"] = Delay /\ Choice["sens"] = Sensitivity
  BY DEF Choice
<1>6. \A q \in Param : q = "num" \/ q = "delay" \/ q = "sens"
  BY DEF Param
<1>7. "num" # "delay" /\ "sens" # "delay"
  OBVIOUS
<1> QED
  BY <1>1, <1>2, <1>3, <1>4, <1>5, <1>6, <1>7

\* The two bytes of a duration.
LEMMA Halves ==
  /\ \A d \in u16 : /\ d \div 256 \in u8 /\ d % 256 \in u8
                    /\ d = 256 * (d \div 256) + (d % 256)
  /\ \A h \in u8, l \in u8 : /\ 256 * h + l \in u16
                             /\ (256 * h + l) \div 256 = h
                             /\ (256 * h + l) % 256 = l
<1>1. Top \in Nat /\ Top = 65535
  BY DEF Top
<1>2. ASSUME NEW d \in u16
      PROVE  /\ d \div 256 \in u8 /\ d % 256 \in u8
             /\ d = 256 * (d \div 256) + (d % 256)
  <2>1. d \in Nat /\ d <= Top
    <3>1. Top \in Nat
      BY <1>1
    <3> QED
      BY <3>1, Wide
  <2> QED
    BY <1>1, <2>1 DEF u8
<1>3. ASSUME NEW h \in u8, NEW l \in u8
      PROVE  /\ 256 * h + l \in u16
             /\ (256 * h + l) \div 256 = h
             /\ (256 * h + l) % 256 = l
  <2>1. h \in 0..255 /\ l \in 0..255
    BY DEF u8
  <2>2. 256 * h + l \in Nat /\ 256 * h + l <= Top
    BY <1>1, <2>1
  <2> DEFINE d == 256 * h + l
  <2>3. d \in Nat /\ d <= Top
    BY <2>2
  <2> HIDE DEF d
  <2>4. d \in u16
    <3>1. Top \in Nat
      BY <1>1
    <3> QED
      BY <2>3, <3>1, Wide
  <2> QED
    BY <2>1, <2>4 DEF d
<1> QED
  BY <1>2, <1>3

\* A parameter's bytes, and what they are read back as.
LEMMA ByteTypes ==
  ASSUME NEW p \in [Zone -> Setting], NEW a \in Address
  PROVE  ByteOf(p, a) \in u8
<1> DEFINE r == p[ZoneOf(a)]
           b == <<r.num, r.delay \div 256, r.delay % 256, r.sens>>
<1>1. r \in Setting
  BY DEF ZoneOf, Zone
<1> HIDE DEF r
<1>2. r.num \in u8 /\ r.delay \in u16 /\ r.sens \in u8
  BY <1>1, Fields
<1>3. r.delay \div 256 \in u8 /\ r.delay % 256 \in u8
  BY <1>2, Halves
<1>4. ((a - 1) % 4) + 1 \in 1..4
  BY DEF Address
<1>5. \A i \in 1..4 : b[i] \in u8
  <2>1. b[1] = r.num /\ b[2] = r.delay \div 256 /\ b[3] = r.delay % 256 /\ b[4] = r.sens
    OBVIOUS
  <2> HIDE DEF b
  <2>2. \A i \in 1..4 : i = 1 \/ i = 2 \/ i = 3 \/ i = 4
    OBVIOUS
  <2> QED
    BY <1>2, <1>3, <2>1, <2>2
<1> HIDE DEF b
<1>6. ByteOf(p, a) = b[((a - 1) % 4) + 1]
  BY DEF ByteOf, b, r
<1> QED
  BY <1>4, <1>5, <1>6

LEMMA ReadTypes ==
  ASSUME bytes \in [Address -> u8]
  PROVE  ReadFieldPara \in [Zone -> Setting]
<1> SUFFICES ASSUME NEW z \in Zone
             PROVE  ReadFieldPara[z] \in Setting
  BY DEF ReadFieldPara
<1> DEFINE a == AddressOf(z)
<1>1. a \in Address /\ a + 1 \in Address /\ a + 2 \in Address /\ a + 3 \in Address
  BY DEF AddressOf, Address
<1>2. bytes[a] \in u8 /\ bytes[a + 1] \in u8 /\ bytes[a + 2] \in u8 /\ bytes[a + 3] \in u8
  BY <1>1
<1>3. ReadFieldPara[z] = [num |-> bytes[a], delay |-> 256 * bytes[a + 1] + bytes[a + 2],
                          sens |-> bytes[a + 3]]
  BY DEF ReadFieldPara
<1> HIDE DEF a
<1>4. 256 * bytes[a + 1] + bytes[a + 2] \in u16
  BY <1>2, Halves
<1> QED
  BY <1>2, <1>3, <1>4 DEF Setting

LEMMA FactoryNumbers == 0 \in u8 /\ 4 \in u8 /\ 30 \in u16
<1>1. 0 \in u8 /\ 4 \in u8
  BY DEF u8
<1>2. 30 \in u16
  BY DEF u16
<1> QED
  BY <1>1, <1>2

LEMMA FactoryTypes == Factory \in [Zone -> Setting]
<1>1. 0 \in u8 /\ 30 \in u16 /\ 4 \in u8
  BY FactoryNumbers
<1>2. [num |-> 0, delay |-> 30, sens |-> 4] \in Setting
  BY <1>1 DEF Setting
<1> QED
  BY <1>2 DEF Factory

LEMMA CopiesTypes == [z \in Zone |-> [num |-> 0, delay |-> 30, sens |-> 0]] \in [Zone -> Setting]
<1>1. 0 \in u8 /\ 30 \in u16
  BY FactoryNumbers
<1>2. [num |-> 0, delay |-> 30, sens |-> 0] \in Setting
  BY <1>1 DEF Setting
<1> QED
  BY <1>2

-----------------------------------------------------------------------------
(* Types                                                                    *)

\* The steps a task's programs are made of.
Transfer == [do : {"load", "write"}, at : Address]
Erasing == [do : {"erase"}, at : Address] \cup {Do("reset")}
Filling == [do : {"form"}, to : [Zone -> Values]]
Copying == [do : {"copy"}, param : Param] \cup {Do("leave")}
Commanding == [do : {"renumber"}, num : u8, to : Values] \cup [do : {"delay", "sens"}, to : Values]

Own(c) ==
  Transfer \cup
  CASE c = "start" -> {}
    [] c = "web"   -> Erasing \cup Filling
    [] c = "lcd"   -> Copying
    [] c = "tcp"   -> Commanding

Typed ==
  /\ prog = [c \in Task |-> prog[c]]
  /\ \A c \in Task : prog[c] \in Seq(Own(c))

Sound ==
  /\ para \in [Zone -> Setting] /\ tmp \in [Zone -> Setting]
  /\ bytes \in [Address -> u8] /\ held \in [Task -> u8]
  /\ page \in {"out", "list"} \cup Zone
  /\ row \in 0..3 /\ (row # 0 => page \in Zone)
  /\ stale \subseteq Address /\ touched \subseteq Param \X Zone /\ meant \subseteq Zone
  /\ fresh \in BOOLEAN /\ asked \in 0..Requests

LEMMA OwnKinds ==
  ASSUME NEW c \in Task, NEW x \in Own(c)
  PROVE  /\ x.do \in {"load", "write"} => x.at \in Address
         /\ x.do = "erase" => c = "web" /\ x.at \in Address
         /\ x.do = "reset" => c = "web"
         /\ x.do = "form" => c = "web" /\ x.to \in [Zone -> Values]
         /\ x.do = "copy" => c = "lcd" /\ x.param \in Param
         /\ x.do = "leave" => c = "lcd"
         /\ x.do = "renumber" => c = "tcp" /\ x.num \in u8 /\ x.to \in Values
         /\ x.do \in {"delay", "sens"} => c = "tcp" /\ x.to \in Values
         /\ x.do \in {"load", "write", "erase", "form", "renumber", "delay",
                      "sens", "copy", "leave", "reset"}
<1>1. c \in {"start", "web", "lcd", "tcp"}
  BY Tasks
<1>2. CASE x \in Transfer
  BY <1>2 DEF Transfer
<1>3. CASE x \in Erasing /\ c = "web"
  <2>1. CASE x \in [do : {"erase"}, at : Address]
    BY <1>3, <2>1
  <2>2. CASE x = Do("reset")
    BY <1>3, <2>2 DEF Do
  <2> QED
    BY <1>3, <2>1, <2>2 DEF Erasing
<1>4. CASE x \in Filling /\ c = "web"
  BY <1>4 DEF Filling
<1>5. CASE x \in Copying /\ c = "lcd"
  <2>1. CASE x \in [do : {"copy"}, param : Param]
    BY <1>5, <2>1
  <2>2. CASE x = Do("leave")
    BY <1>5, <2>2 DEF Do
  <2> QED
    BY <1>5, <2>1, <2>2 DEF Copying
<1>6. CASE x \in Commanding /\ c = "tcp"
  <2>1. CASE x \in [do : {"renumber"}, num : u8, to : Values]
    BY <1>6, <2>1
  <2>2. CASE x \in [do : {"delay", "sens"}, to : Values]
    BY <1>6, <2>2
  <2> QED
    BY <1>6, <2>1, <2>2 DEF Commanding
<1> QED
  BY <1>1, <1>2, <1>3, <1>4, <1>5, <1>6 DEF Own

LEMMA SaveTyped == WriteFieldPara \in Seq(Transfer)
<1> DEFINE e(i) == [do |-> IF i % 2 = 1 THEN "load" ELSE "write", at |-> (i + 1) \div 2]
<1>1. \A i \in 1..16 : e(i) \in Transfer
  <2>1. \A i \in 1..16 : (i + 1) \div 2 \in Address
    BY DEF Address
  <2> QED
    BY <2>1 DEF Transfer
<1>2. WriteFieldPara = [i \in 1 .. 16 |-> e(i)]
  BY DEF WriteFieldPara
<1> HIDE DEF e
<1> QED
  BY <1>1, <1>2

LEMMA SingleTyped ==
  ASSUME NEW S, NEW x \in S
  PROVE  <<x>> \in Seq(S)
OBVIOUS

LEMMA SavedTyped ==
  ASSUME NEW S, NEW p \in Seq(S), Transfer \subseteq S
  PROVE  p \o WriteFieldPara \in Seq(S)
<1>1. WriteFieldPara \in Seq(S)
  BY SaveTyped, SeqMonotonic
<1> QED
  BY <1>1, ConcatProperties

LEMMA RequestsTyped ==
  /\ \A p \in [Zone -> Values] : WebForm(p) \in Seq(Own("web"))
  /\ systemDefault \in Seq(Own("web"))
  /\ \A n \in u8, v \in Values : SetParas(n, v) \in Seq(Own("tcp"))
  /\ SavePage \in Seq(Own("lcd"))
  /\ \A c : <<>> \in Seq(Own(c))
  /\ \A c : WriteFieldPara \in Seq(Own(c))
<1>1. \A c : Transfer \subseteq Own(c)
  BY DEF Own
<1>2. /\ Erasing \cup Filling \subseteq Own("web") /\ Copying \subseteq Own("lcd")
      /\ Commanding \subseteq Own("tcp")
  BY DEF Own
<1>3. ASSUME NEW p \in [Zone -> Values]
      PROVE  WebForm(p) \in Seq(Own("web"))
  <2>1. [do |-> "form", to |-> p] \in Own("web")
    BY <1>2 DEF Filling
  <2>2. << [do |-> "form", to |-> p] >> \in Seq(Own("web"))
    BY <2>1, SingleTyped
  <2> QED
    BY <1>1, <2>2, SavedTyped DEF WebForm
<1>4. systemDefault \in Seq(Own("web"))
  <2> DEFINE S == [do : {"erase"}, at : 1 .. 4]
             e(i) == [do |-> "erase", at |-> i]
  <2>1. S \subseteq Own("web") /\ Do("reset") \in Own("web")
    <3>1. 1 .. 4 \subseteq Address
      BY DEF Address
    <3>2. S \subseteq Erasing /\ Do("reset") \in Erasing
      BY <3>1 DEF Erasing
    <3> QED
      BY <1>2, <3>2
  <2>2. \A i \in 1..4 : e(i) \in S
    OBVIOUS
  <2>3. EraseFieldPara = [i \in 1..4 |-> e(i)]
    BY DEF EraseFieldPara
  <2> HIDE DEF S, e
  <2>4. EraseFieldPara \in Seq(Own("web"))
    BY <2>1, <2>2, <2>3
  <2>5. << Do("reset") >> \in Seq(Own("web"))
    BY <2>1, SingleTyped
  <2> QED
    BY <2>4, <2>5, ConcatProperties DEF systemDefault
<1>5. ASSUME NEW n \in u8, NEW v \in Values
      PROVE  SetParas(n, v) \in Seq(Own("tcp"))
  <2> DEFINE S == Own("tcp")
             x == [do |-> "renumber", num |-> n, to |-> v]
             y == [do |-> "delay", to |-> v]
             z == [do |-> "sens", to |-> v]
  <2>1. x \in S /\ y \in S /\ z \in S
    <3>1. x \in Commanding /\ y \in Commanding /\ z \in Commanding
      BY DEF Commanding
    <3> QED
      BY <1>2, <3>1
  <2> HIDE DEF x, y, z, S
  <2>2. Transfer \subseteq S
    BY <1>1 DEF S
  <2>3. <<x>> \in Seq(S) /\ <<y>> \in Seq(S) /\ <<z>> \in Seq(S)
    BY <2>1, SingleTyped
  <2>4. <<x>> \o WriteFieldPara \in Seq(S)
    BY <2>2, <2>3, SavedTyped
  <2>5. <<x>> \o WriteFieldPara \o <<y>> \in Seq(S)
    BY <2>3, <2>4, ConcatProperties
  <2>6. <<x>> \o WriteFieldPara \o <<y>> \o WriteFieldPara \in Seq(S)
    BY <2>2, <2>5, SavedTyped
  <2>7. <<x>> \o WriteFieldPara \o <<y>> \o WriteFieldPara \o <<z>> \in Seq(S)
    BY <2>3, <2>6, ConcatProperties
  <2>8. <<x>> \o WriteFieldPara \o <<y>> \o WriteFieldPara \o <<z>> \o WriteFieldPara \in Seq(S)
    BY <2>2, <2>7, SavedTyped
  <2> QED
    BY <2>8 DEF SetParas, x, y, z, S
<1>6. SavePage \in Seq(Own("lcd"))
  <2> DEFINE S == Own("lcd")
             e(i) == [do |-> "copy", param |-> Row[i]]
             copies == [i \in 1..3 |-> e(i)]
  <2>1. \A i \in 1..3 : Row[i] \in Param
    BY DEF Row, Param
  <2>2. \A i \in 1..3 : e(i) \in S
    <3>1. \A i \in 1..3 : e(i) \in Copying
      BY <2>1 DEF Copying
    <3> QED
      BY <1>2, <3>1
  <2>3. Do("leave") \in S /\ Transfer \subseteq S
    BY <1>1, <1>2 DEF Copying
  <2>4. SavePage = copies \o WriteFieldPara \o WriteFieldPara \o WriteFieldPara \o <<Do("leave")>>
    BY DEF SavePage
  <2> HIDE DEF S, e
  <2>5. copies \in Seq(S)
    BY <2>2
  <2> HIDE DEF copies
  <2>6. copies \o WriteFieldPara \o WriteFieldPara \o WriteFieldPara \in Seq(S)
    BY <2>3, <2>5, SavedTyped
  <2>7. <<Do("leave")>> \in Seq(S)
    BY <2>3, SingleTyped
  <2> QED
    BY <2>4, <2>6, <2>7, ConcatProperties DEF S
<1>7. \A c : <<>> \in Seq(Own(c))
  BY EmptySeq
<1>8. \A c : WriteFieldPara \in Seq(Own(c))
  BY <1>1, SaveTyped, SeqMonotonic
<1> QED
  BY <1>3, <1>4, <1>5, <1>6, <1>7, <1>8

\* What is due is one of the task's own steps, and so is what is left.
LEMMA DueOwn ==
  ASSUME Typed, NEW c \in Task, Runs(c)
  PROVE  /\ Due(c) \in Own(c)
         /\ Go(c) => /\ Typed'
                     /\ prog' = [d \in Task |-> IF d = c THEN Tail(prog[c]) ELSE prog[d]]
<1>1. prog[c] \in Seq(Own(c)) /\ prog[c] # <<>>
  BY DEF Typed, Runs
<1>2. Head(prog[c]) \in Own(c) /\ Tail(prog[c]) \in Seq(Own(c))
  BY <1>1, HeadTailProperties
<1>3. ASSUME Go(c)
      PROVE  prog' = [d \in Task |-> IF d = c THEN Tail(prog[c]) ELSE prog[d]]
  BY <1>3 DEF Go, Typed
<1> QED
  BY <1>2, <1>3 DEF Due, Typed

LEMMA ChangedIn == \A p : Changed(p) \subseteq Param \X Zone
BY DEF Changed

\* An assignment of parameters of the right types.
LEMMA AssignSound ==
  ASSUME Sound, Typed, NEW c \in Task, NEW p \in [Zone -> Setting], Assign(c, p),
         UNCHANGED <<bytes, held, tmp, page, row, stale, fresh, asked>>
  PROVE  Sound'
<1>1. para' \in [Zone -> Setting]
  BY DEF Assign
<1>2. touched' \subseteq Param \X Zone
  BY ChangedIn DEF Assign, Sound
<1>3. meant' \subseteq Zone
  BY DEF Assign, Sound
<1> QED
  BY <1>1, <1>2, <1>3 DEF Sound

LEMMA RenumberedTypes ==
  ASSUME Sound, NEW S, NEW n \in u8
  PROVE  [z \in Zone |-> IF z \in S THEN [para[z] EXCEPT !.num = n] ELSE para[z]]
           \in [Zone -> Setting]
<1>1. \A z \in Zone : para[z] \in Setting
  BY DEF Sound
<1>2. \A z \in Zone : [para[z] EXCEPT !.num = n] \in Setting
  BY <1>1, PutInNum
<1> QED
  BY <1>1, <1>2

LEMMA DelayedTypes ==
  ASSUME Sound, NEW S, NEW d \in u16
  PROVE  [z \in Zone |-> IF z \in S THEN [para[z] EXCEPT !.delay = d] ELSE para[z]]
           \in [Zone -> Setting]
<1>1. \A z \in Zone : para[z] \in Setting
  BY DEF Sound
<1>2. \A z \in Zone : [para[z] EXCEPT !.delay = d] \in Setting
  BY <1>1, PutInDelay
<1> QED
  BY <1>1, <1>2

\* One zone's sensitivity, all the others as they were.
LEMMA SensSet ==
  ASSUME Sound, NEW z \in Zone, NEW s \in u8
  PROVE  /\ [para EXCEPT ![z].sens = s] =
              [y \in Zone |-> IF y = z THEN [para[z] EXCEPT !.sens = s] ELSE para[y]]
         /\ [para EXCEPT ![z].sens = s] \in [Zone -> Setting]
<1> DEFINE r == [para[z] EXCEPT !.sens = s]
<1>1. para \in [Zone -> Setting] /\ para[z] \in Setting
  BY DEF Sound
<1>2. [para EXCEPT ![z].sens = s] = [para EXCEPT ![z] = r]
  OBVIOUS
<1>3. r \in Setting
  BY <1>1, PutInSens
<1> HIDE DEF r
<1>4. [para EXCEPT ![z] = r] = [y \in Zone |-> IF y = z THEN r ELSE para[y]]
  BY <1>1
<1>5. [para EXCEPT ![z] = r] \in [Zone -> Setting]
  BY <1>1, <1>3
<1> QED
  BY <1>2, <1>4, <1>5 DEF r

LEMMA CopiedBackTypes ==
  ASSUME Sound, NEW q \in Param
  PROVE  [z \in Zone |-> [para[z] EXCEPT ![q] = tmp[z][q]]] \in [Zone -> Setting]
<1>1. \A z \in Zone : para[z] \in Setting /\ tmp[z] \in Setting
  BY DEF Sound
<1>2. \A r \in Setting : r[q] \in (IF q = "delay" THEN u16 ELSE u8)
  BY Fields DEF Param
<1>3. \A z \in Zone : [para[z] EXCEPT ![q] = tmp[z][q]] \in Setting
  BY <1>1, <1>2, PutIn
<1> QED
  BY <1>3

LEMMA CopiedTypes ==
  ASSUME Sound, NEW params
  PROVE  [z \in Zone |-> [q \in Param |-> IF q \in params THEN para[z][q] ELSE tmp[z][q]]]
           \in [Zone -> Setting]
<1> SUFFICES ASSUME NEW z \in Zone
             PROVE  [q \in Param |-> IF q \in params THEN para[z][q] ELSE tmp[z][q]] \in Setting
  OBVIOUS
<1> DEFINE r == [q \in Param |-> IF q \in params THEN para[z][q] ELSE tmp[z][q]]
<1>1. para[z] \in Setting /\ tmp[z] \in Setting
  BY DEF Sound
<1>2. r = [q \in Param |-> r[q]]
  OBVIOUS
<1>3. \A q \in Param : r[q] = para[z][q] \/ r[q] = tmp[z][q]
  OBVIOUS
<1> HIDE DEF r
<1>4. r["num"] \in u8 /\ r["delay"] \in u16 /\ r["sens"] \in u8
  <2>1. "num" \in Param /\ "delay" \in Param /\ "sens" \in Param
    BY DEF Param
  <2> QED
    BY <1>1, <1>3, <2>1, Fields
<1>5. r \in Setting
  BY <1>2, <1>4, FromFields
<1> QED
  BY <1>5 DEF r

LEMMA FirstIsZone == \A n : First(n) \subseteq Zone /\ FieldIndex(n) \in Zone
BY DEF First, FieldIndex, Zone

\* The steps of the programs but the reset.
LEMMA StepSound ==
  ASSUME Sound, Typed, NEW c \in Task,
         \/ Load(c) \/ Write(c) \/ Erase(c) \/ Form(c) \/ Renumber(c) \/ SetDelay(c)
         \/ SetSensitivity(c) \/ CopyBack(c) \/ Leave(c)
  PROVE  Sound' /\ Typed'
<1>1. Runs(c) /\ Go(c)
  BY DEF Load, Write, Erase, Form, Renumber, SetDelay, SetSensitivity, CopyBack, Leave, Step
<1>2. Typed' /\ Due(c) \in Own(c)
  BY <1>1, DueOwn
<1>3. CASE Load(c)
  <2>1. Due(c).at \in Address
    BY <1>2, <1>3, OwnKinds DEF Load, Step
  <2>2. ByteOf(para, Due(c).at) \in u8
    BY <2>1, ByteTypes DEF Sound
  <2> QED
    BY <1>2, <1>3, <2>2 DEF Load, Sound, lcd
<1>4. CASE Write(c)
  <2>1. Due(c).at \in Address
    BY <1>2, <1>4, OwnKinds DEF Write, Step
  <2>2. 0 \in u8
    BY DEF u8
  <2>3. bytes' \in [Address -> u8] /\ held' \in [Task -> u8] /\ stale' \subseteq Address
    BY <1>4, <2>1, <2>2 DEF Write, Sound
  <2> QED
    BY <1>2, <1>4, <2>3 DEF Write, Sound, lcd
<1>5. CASE Erase(c)
  <2>1. ERASED \in u8
    BY DEF u8, ERASED
  <2>2. bytes' \in [Address -> u8]
    BY <1>5, <2>1 DEF Erase, Sound
  <2> QED
    BY <1>2, <1>5, <2>2 DEF Erase, Sound, lcd
<1>6. CASE Form(c)
  <2>1. Due(c).to \in [Zone -> Values]
    BY <1>2, <1>6, OwnKinds DEF Form, Step
  <2>2. Due(c).to \in [Zone -> Setting]
    BY <2>1, ChosenTypes
  <2> QED
    BY <1>2, <1>6, <2>2, AssignSound DEF Form
<1>7. CASE Renumber(c)
  <2>1. Due(c).to \in Values
    BY <1>2, <1>7, OwnKinds DEF Renumber, Step
  <2>2. Due(c).to.num \in u8
    BY <2>1, ChosenTypes, Fields
  <2> DEFINE p == [z \in Zone |-> IF z \in First(Due(c).num)
                                    THEN [para[z] EXCEPT !.num = Due(c).to.num] ELSE para[z]]
  <2>3. p \in [Zone -> Setting]
    BY <2>2, RenumberedTypes
  <2>4. Assign(c, p) /\ UNCHANGED <<bytes, held, tmp, page, row, stale, fresh, asked>>
    BY <1>7 DEF Renumber
  <2> HIDE DEF p
  <2> QED
    BY <1>2, <2>3, <2>4, AssignSound
<1>8. CASE SetDelay(c)
  <2>1. Due(c).to \in Values
    BY <1>2, <1>8, OwnKinds DEF SetDelay, Step
  <2>2. Due(c).to.delay \in u16
    BY <2>1, ChosenTypes, Fields
  <2> DEFINE p == [z \in Zone |-> IF z \in First(Due(c).to.num)
                                    THEN [para[z] EXCEPT !.delay = Due(c).to.delay] ELSE para[z]]
  <2>3. p \in [Zone -> Setting]
    BY <2>2, DelayedTypes
  <2>4. Assign(c, p) /\ UNCHANGED <<bytes, held, tmp, page, row, stale, fresh, asked>>
    BY <1>8 DEF SetDelay
  <2> HIDE DEF p
  <2> QED
    BY <1>2, <2>3, <2>4, AssignSound
<1>9. CASE SetSensitivity(c)
  <2>1. Due(c).to \in Values
    BY <1>2, <1>9, OwnKinds DEF SetSensitivity, Step
  <2>2. Due(c).to.sens \in u8 /\ FieldIndex(Due(c).to.num) \in Zone
    BY <2>1, ChosenTypes, Fields, FirstIsZone
  <2> DEFINE p == [para EXCEPT ![FieldIndex(Due(c).to.num)].sens = Due(c).to.sens]
  <2>3. p \in [Zone -> Setting]
    BY <2>2, SensSet
  <2>4. Assign(c, p) /\ UNCHANGED <<bytes, held, tmp, page, row, stale, fresh, asked>>
    BY <1>9 DEF SetSensitivity
  <2> HIDE DEF p
  <2> QED
    BY <1>2, <2>3, <2>4, AssignSound
<1>10. CASE CopyBack(c)
  <2>1. Due(c).param \in Param
    BY <1>2, <1>10, OwnKinds DEF CopyBack, Step
  <2> DEFINE p == [z \in Zone |-> [para[z] EXCEPT ![Due(c).param] = tmp[z][Due(c).param]]]
  <2>2. p \in [Zone -> Setting]
    BY <2>1, CopiedBackTypes
  <2>3. Assign(c, p) /\ UNCHANGED <<bytes, held, tmp, page, row, stale, fresh, asked>>
    BY <1>10 DEF CopyBack
  <2> HIDE DEF p
  <2> QED
    BY <1>2, <2>2, <2>3, AssignSound
<1>11. CASE Leave(c)
  BY <1>2, <1>11 DEF Leave, Sound
<1> QED
  BY <1>3, <1>4, <1>5, <1>6, <1>7, <1>8, <1>9, <1>10, <1>11

LEMMA StartSound ==
  ASSUME Sound, Typed, Started, fresh' \in BOOLEAN
  PROVE  Sound' /\ Typed'
<1>1. para' \in [Zone -> Setting]
  BY FactoryTypes, ReadTypes DEF Started, Sound
<1>2. tmp' \in [Zone -> Setting]
  BY CopiesTypes DEF Started
<1>3. held' \in [Task -> u8]
  <2>1. 0 \in u8
    BY DEF u8
  <2> QED
    BY <2>1 DEF Started
<1>4. Typed'
  <2>1. prog' = [c \in Task |-> IF c = "start" /\ LooksErased THEN WriteFieldPara ELSE <<>>]
    BY DEF Started
  <2> QED
    BY <2>1, RequestsTyped DEF Typed
<1>5. page' = "out" /\ row' = 0 /\ stale' = {} /\ touched' = {} /\ meant' = {}
      /\ UNCHANGED <<bytes, asked>>
  BY DEF Started
<1> QED
  BY <1>1, <1>2, <1>3, <1>4, <1>5 DEF Sound

LEMMA InitSound == Init => Sound /\ Typed
<1> SUFFICES ASSUME Init
             PROVE  Sound /\ Typed
  OBVIOUS
<1>1. ERASED \in u8 /\ 0 \in u8
  BY DEF u8, ERASED
<1>2. bytes \in [Address -> u8] /\ held \in [Task -> u8]
  BY <1>1 DEF Init
<1>3. para \in [Zone -> Setting] /\ tmp \in [Zone -> Setting]
  BY FactoryTypes, CopiesTypes DEF Init
<1>4. Typed
  <2>1. prog = [c \in Task |-> IF c = "start" THEN WriteFieldPara ELSE <<>>]
    BY DEF Init
  <2> QED
    BY <2>1, RequestsTyped DEF Typed
<1>5. page = "out" /\ row = 0 /\ stale = {} /\ touched = {} /\ meant = {}
      /\ fresh = FALSE /\ asked = 0
  BY DEF Init
<1>6. 0 \in 0..Requests
  BY ParamsAssumption
<1>7. Sound
  <2>1. fresh \in BOOLEAN /\ asked \in 0..Requests
    BY <1>5, <1>6
  <2>2. /\ page \in {"out", "list"} \cup Zone
        /\ row \in 0..3 /\ (row # 0 => page \in Zone)
        /\ stale \subseteq Address /\ touched \subseteq Param \X Zone /\ meant \subseteq Zone
    BY <1>5
  <2> QED
    BY <1>2, <1>3, <2>1, <2>2 DEF Sound
<1> QED
  BY <1>4, <1>7

\* A task of the users is given one of its programs.
LEMMA BegunTyped ==
  ASSUME Typed, NEW c \in Task, NEW p \in Seq(Own(c)), prog' = [prog EXCEPT ![c] = p]
  PROVE  Typed' /\ prog' = [d \in Task |-> IF d = c THEN p ELSE prog[d]]
BY DEF Typed

LEMMA AskSound ==
  ASSUME Sound, Typed, NEW c \in Task, NEW p \in Seq(Own(c)), Ask(c, p), meant' \subseteq Zone
  PROVE  Sound' /\ Typed'
<1>1. asked' \in 0..Requests
  BY ParamsAssumption DEF Ask, Sound
<1> QED
  BY <1>1, BegunTyped DEF Ask, Sound, lcd

LEMMA KeySound ==
  ASSUME Sound, Typed,
         \/ ShowList
         \/ \E z \in Zone : OpenPage(z)
         \/ \E r \in DOMAIN Row : EnterEdit(r)
         \/ Change
         \/ Escape
  PROVE  Sound' /\ Typed'
<1>1. UNCHANGED <<para, bytes, prog, held, stale, meant>>
  BY DEF ShowList, OpenPage, EnterEdit, Change, Escape, Key
<1>2. Typed'
  BY <1>1 DEF Typed
<1>3. CASE ShowList
  <2>1. tmp' \in [Zone -> Setting] /\ touched' \subseteq Param \X Zone
    BY <1>3, CopiedTypes DEF ShowList, Copied, Sound
  <2> QED
    BY <1>1, <1>2, <1>3, <2>1 DEF ShowList, Sound
<1>4. CASE \E z \in Zone : OpenPage(z)
  BY <1>1, <1>2, <1>4 DEF OpenPage, Sound
<1>5. CASE \E r \in DOMAIN Row : EnterEdit(r)
  <2>1. PICK r \in DOMAIN Row : EnterEdit(r)
    BY <1>5
  <2>2. r \in 0..3
    BY DEF Row
  <2>3. tmp' \in [Zone -> Setting] /\ touched' \subseteq Param \X Zone
    BY <2>1, CopiedTypes DEF EnterEdit, Copied, Sound
  <2>4. asked' \in 0..Requests
    BY <2>1, ParamsAssumption DEF EnterEdit, Sound
  <2> QED
    BY <1>1, <1>2, <2>1, <2>2, <2>3, <2>4 DEF EnterEdit, Sound
<1>6. CASE Change
  <2>1. page \in Zone /\ row \in 1..3 /\ Row[row] \in Param
    <3>1. page \in Zone /\ row \in 1..3
      BY <1>6 DEF Change, Sound
    <3> QED
      BY <3>1 DEF Row, Param
  <2>2. PICK v \in Choice[Row[row]] : tmp' = [tmp EXCEPT ![page][Row[row]] = v]
    BY <1>6 DEF Change
  <2> DEFINE q == Row[row]
             s == [tmp[page] EXCEPT ![q] = v]
  <2>3. q \in Param /\ v \in (IF q = "delay" THEN u16 ELSE u8)
    BY <2>1, <2>2, ChosenTypes
  <2>4. tmp' = [tmp EXCEPT ![page] = s]
    BY <2>2
  <2> HIDE DEF q
  <2>5. s \in Setting
    <3>1. tmp[page] \in Setting
      BY <2>1 DEF Sound
    <3> QED
      BY <2>3, <3>1, PutIn
  <2> HIDE DEF s
  <2>6. tmp' \in [Zone -> Setting]
    BY <2>1, <2>4, <2>5 DEF Sound
  <2>7. touched' \subseteq Param \X Zone
    BY <1>6, <2>1 DEF Change, Sound
  <2> QED
    BY <1>1, <1>2, <1>6, <2>6, <2>7 DEF Change, Sound
<1>7. CASE Escape
  BY <1>1, <1>2, <1>7 DEF Escape, Sound
<1> QED
  BY <1>3, <1>4, <1>5, <1>6, <1>7

LEMMA NextSound ==
  ASSUME Sound, Typed, [Next]_vars
  PROVE  Sound' /\ Typed'
<1>1. ASSUME NEW c \in Task,
             \/ Load(c) \/ Write(c) \/ Erase(c) \/ Form(c) \/ Renumber(c) \/ SetDelay(c)
             \/ SetSensitivity(c) \/ CopyBack(c) \/ Leave(c)
      PROVE  Sound' /\ Typed'
  BY <1>1, StepSound
<1>2. ASSUME NEW c \in Task, Reset(c)
      PROVE  Sound' /\ Typed'
  <2>1. Started /\ fresh' = TRUE
    BY <1>2 DEF Reset
  <2> QED
    BY <2>1, StartSound
<1>3. CASE PowerCycle
  <2>1. Started /\ fresh' \in BOOLEAN
    BY <1>3 DEF PowerCycle
  <2> QED
    BY <2>1, StartSound
<1>4. CASE WebSets
  BY <1>4, AskSound, RequestsTyped, Tasks DEF WebSets, Sound
<1>5. CASE WebDefault
  BY <1>5, AskSound, RequestsTyped, Tasks DEF WebDefault, Sound
<1>6. CASE TcpSets
  <2>1. PICK n \in {para[z].num : z \in Zone}, v \in Values :
          /\ Ask("tcp", SetParas(n, v))
          /\ meant' = IF \E z \in Zone \ First(n) : para[z].num = v.num THEN Zone ELSE First(n)
    BY <1>6 DEF TcpSets
  <2>2. n \in u8
    BY Fields DEF Sound
  <2>3. meant' \subseteq Zone
    BY <2>1, FirstIsZone
  <2>4. "tcp" \in Task
    BY <1>6, Tasks DEF TcpSets
  <2>5. SetParas(n, v) \in Seq(Own("tcp"))
    BY <2>2, RequestsTyped
  <2> QED
    BY <2>1, <2>3, <2>4, <2>5, AskSound
<1>7. CASE \/ ShowList \/ (\E z \in Zone : OpenPage(z)) \/ (\E r \in DOMAIN Row : EnterEdit(r))
           \/ Change \/ Escape
  BY <1>7, KeySound
<1>8. CASE EnterSave
  <2>1. "lcd" \in Task /\ SavePage \in Seq(Own("lcd"))
    BY <1>8, Tasks, RequestsTyped DEF EnterSave
  <2> QED
    BY <1>8, <2>1, BegunTyped DEF EnterSave, Sound, lcd
<1>9. CASE UNCHANGED vars
  BY <1>9 DEF Sound, Typed, vars, lcd
<1> QED
  BY <1>1, <1>2, <1>3, <1>4, <1>5, <1>6, <1>7, <1>8, <1>9 DEF Next

\* Every variable of Params keeps its type: numbers and sensitivities are one
\* byte, durations two, and a zone's page is open while a row is under edit.
THEOREM ParamsTypes == Spec => []TypeOK
<1>1. Sound /\ Typed => TypeOK
  <2> SUFFICES ASSUME Sound, Typed
               PROVE  TypeOK
    OBVIOUS
  <2>3. ASSUME NEW c \in Task, NEW i \in DOMAIN prog[c]
        PROVE  prog[c][i].do \in {"load", "write", "erase", "form", "renumber", "delay",
                                  "sens", "copy", "leave", "reset"}
    <3>1. prog[c] \in Seq(Own(c)) /\ i \in 1 .. Len(prog[c])
      BY <2>3, LenProperties DEF Typed
    <3>2. prog[c][i] \in Own(c)
      BY <3>1, ElementOfSeq
    <3> QED
      BY <3>2, OwnKinds
  <2> QED
    BY <2>3 DEF Sound, TypeOK
<1>2. Sound /\ Typed /\ [Next]_vars => (Sound /\ Typed)'
  BY NextSound
<1> QED
  BY <1>1, <1>2, InitSound, PTL DEF Spec

-----------------------------------------------------------------------------
(* Edits on the LCD                                                         *)

\* The LCD's copy of a value is the value, or that they differ is known.
Agreed(z, q) == tmp[z][q] = para[z][q] \/ <<q, z>> \in touched

\* From the list of zones on for what the list copies, under edit for all.
Copies ==
  /\ page # "out" => \A z \in Zone : Agreed(z, "num") /\ Agreed(z, "delay")
  /\ row # 0 => \A z \in Zone : Agreed(z, "sens")

LeaveLast(p) == \A i \in 1 .. Len(p) : p[i].do = "leave" => i = Len(p)

\* A row is under edit until the program that saves it has ended.
Editing == "lcd" \in User => /\ LeaveLast(prog["lcd"])
                             /\ prog["lcd"] # <<>> => row # 0

LInv == Sound /\ Typed /\ Copies /\ Editing

LEMMA TailIndices ==
  ASSUME NEW S, NEW p \in Seq(S), p # <<>>
  PROVE  /\ Head(p) = p[1] /\ Head(p) \in S /\ Tail(p) \in Seq(S)
         /\ Len(p) \in Nat /\ Len(p) >= 1
         /\ Len(Tail(p)) = Len(p) - 1
         /\ Len(p) = 1 => Tail(p) = <<>>
         /\ \A i \in 1 .. Len(p) - 1 : Tail(p)[i] = p[i + 1]
<1>1. /\ Head(p) \in S /\ Tail(p) \in Seq(S)
      /\ Head(p) = p[1]
      /\ Len(p) \in Nat /\ Len(p) >= 1
      /\ Len(Tail(p)) = Len(p) - 1
      /\ \A i \in 1 .. Len(Tail(p)) : Tail(p)[i] = p[i + 1]
  BY HeadTailProperties, EmptySeq
<1>2. ASSUME Len(p) = 1
      PROVE  Tail(p) = <<>>
  <2> DEFINE t == Tail(p)
  <2>1. t \in Seq(S) /\ Len(t) = 0
    BY <1>1, <1>2
  <2> HIDE DEF t
  <2>2. t = <<>>
    BY <2>1, EmptySeq
  <2> QED
    BY <2>2 DEF t
<1> QED
  BY <1>1, <1>2

LEMMA LeaveTail ==
  ASSUME NEW S, NEW p \in Seq(S), p # <<>>, LeaveLast(p)
  PROVE  /\ LeaveLast(Tail(p))
         /\ Head(p).do = "leave" => Tail(p) = <<>>
<1>1. /\ Head(p) = p[1] /\ Len(p) \in Nat /\ Len(p) >= 1
      /\ Len(Tail(p)) = Len(p) - 1
      /\ Len(p) = 1 => Tail(p) = <<>>
      /\ \A i \in 1 .. Len(p) - 1 : Tail(p)[i] = p[i + 1]
  BY TailIndices
<1>2. LeaveLast(Tail(p))
  <2> SUFFICES ASSUME NEW i \in 1 .. Len(p) - 1, p[i + 1].do = "leave"
               PROVE  i = Len(p) - 1
    BY <1>1 DEF LeaveLast
  <2>1. i + 1 \in 1 .. Len(p)
    BY <1>1
  <2>2. i + 1 = Len(p)
    BY <2>1 DEF LeaveLast
  <2>3. Len(p) \in Nat
    BY <1>1
  <2> QED
    BY <2>2, <2>3
<1>3. ASSUME Head(p).do = "leave"
      PROVE  Tail(p) = <<>>
  <2>1. 1 \in 1 .. Len(p) /\ p[1].do = "leave"
    BY <1>1, <1>3
  <2>2. 1 = Len(p)
    BY <2>1 DEF LeaveLast
  <2> QED
    BY <1>1, <2>2
<1> QED
  BY <1>2, <1>3

LEMMA SavePageLeaves == LeaveLast(SavePage) /\ LeaveLast(<<>>)
<1> DEFINE S == {x \in Own("lcd") : x.do # "leave"}
           e(i) == [do |-> "copy", param |-> Row[i]]
           copies == [i \in 1..3 |-> e(i)]
           p == copies \o WriteFieldPara \o WriteFieldPara \o WriteFieldPara
           l == Do("leave")
<1>1. Transfer \subseteq S
  BY DEF Own, Transfer
<1>2. \A i \in 1..3 : e(i) \in S
  <2>1. \A i \in 1..3 : Row[i] \in Param
    BY DEF Row, Param
  <2>2. \A i \in 1..3 : e(i) \in Copying
    BY <2>1 DEF Copying
  <2>3. Copying \subseteq Own("lcd")
    BY DEF Own
  <2> QED
    BY <2>2, <2>3
<1>3. SavePage = p \o <<l>>
  BY DEF SavePage
<1>4. \A x \in S : x.do # "leave"
  OBVIOUS
<1> HIDE DEF S, e
<1>5. copies \in Seq(S)
  BY <1>2
<1> HIDE DEF copies
<1>6. p \in Seq(S)
  BY <1>1, <1>5, SavedTyped
<1> HIDE DEF p, l
<1>7. /\ Len(p) \in Nat /\ Len(p \o <<l>>) = Len(p) + 1
      /\ \A i \in 1 .. Len(p) : (p \o <<l>>)[i] = p[i] /\ p[i] \in S
  <2> DEFINE T == S \cup {l}
  <2>1. p \in Seq(T) /\ <<l>> \in Seq(T) /\ Len(<<l>>) = 1
    <3>1. S \subseteq T /\ l \in T
      OBVIOUS
    <3> HIDE DEF T
    <3> QED
      BY <1>6, <3>1, SeqMonotonic, SingleTyped
  <2> HIDE DEF T
  <2>2. /\ Len(p \o <<l>>) = Len(p) + Len(<<l>>)
        /\ \A i \in 1 .. Len(p) + Len(<<l>>) :
             (p \o <<l>>)[i] = IF i <= Len(p) THEN p[i] ELSE <<l>>[i - Len(p)]
    BY <2>1, ConcatProperties
  <2>3. Len(p) \in Nat
    BY <1>6, LenProperties
  <2>4. \A i \in 1 .. Len(p) : p[i] \in S
    BY <1>6, ElementOfSeq
  <2> QED
    BY <2>1, <2>2, <2>3, <2>4
<1>8. LeaveLast(p \o <<l>>)
  BY <1>4, <1>7 DEF LeaveLast
<1>9. LeaveLast(<<>>)
  BY EmptySeq DEF LeaveLast
<1> QED
  BY <1>3, <1>8, <1>9

\* Whoever sets parameters but the LCD leaves a note of what is no longer as
\* it was copied.
LEMMA OthersTell ==
  ASSUME Sound, NEW c \in Task, c # "lcd", NEW p, Assign(c, p), tmp' = tmp,
         NEW z \in Zone, NEW q \in Param, Agreed(z, q)
  PROVE  Agreed(z, q)'
<1>1. para' = p /\ touched' = touched \cup Changed(p)
  BY DEF Assign
<1>2. CASE p[z][q] = para[z][q]
  BY <1>1, <1>2 DEF Agreed
<1>3. CASE p[z][q] # para[z][q]
  <2>1. <<q, z>> \in Changed(p)
    BY <1>3 DEF Changed
  <2> QED
    BY <1>1, <2>1 DEF Agreed
<1> QED
  BY <1>2, <1>3

LEMMA PutValue ==
  ASSUME NEW r \in Setting, NEW s \in Setting, NEW k \in Param, NEW q \in Param
  PROVE  [r EXCEPT ![k] = s[k]][q] = IF q = k THEN s[k] ELSE r[q]
<1>1. r = [j \in Param |-> r[j]]
  BY Fields
<1>2. [r EXCEPT ![k] = s[k]] = [j \in Param |-> IF j = k THEN s[k] ELSE r[j]]
  BY <1>1
<1> QED
  BY <1>2

\* The copies of one parameter written back: that parameter is as copied, the
\* others are as they were.
LEMMA CopyBackSets ==
  ASSUME Sound, Typed, NEW c \in Task, CopyBack(c)
  PROVE  /\ c = "lcd" /\ Due(c).param \in Param
         /\ touched' = touched \ ({Due(c).param} \X Zone)
         /\ \A z \in Zone : \A q \in Param :
              para'[z][q] = IF q = Due(c).param THEN tmp[z][q] ELSE para[z][q]
<1>1. Runs(c) /\ Due(c).do = "copy"
  BY DEF CopyBack, Step
<1>2. c = "lcd" /\ Due(c).param \in Param
  BY <1>1, DueOwn, OwnKinds
<1> DEFINE k == Due(c).param
<1>3. para' = [z \in Zone |-> [para[z] EXCEPT ![k] = tmp[z][k]]]
  BY DEF CopyBack, Assign
<1>4. touched' = touched \ ({Due(c).param} \X Zone)
  BY <1>2 DEF CopyBack, Assign
<1>5. k \in Param
  BY <1>2
<1> HIDE DEF k
<1>6. ASSUME NEW z \in Zone, NEW q \in Param
      PROVE  para'[z][q] = IF q = k THEN tmp[z][q] ELSE para[z][q]
  <2>1. para[z] \in Setting /\ tmp[z] \in Setting
    BY DEF Sound
  <2>3. [para[z] EXCEPT ![k] = tmp[z][k]][q] = IF q = k THEN tmp[z][k] ELSE para[z][q]
    BY <1>5, <2>1, PutValue
  <2>4. para'[z][q] = [para[z] EXCEPT ![k] = tmp[z][k]][q]
    BY <1>3
  <2> QED
    BY <2>3, <2>4
<1> QED
  BY <1>2, <1>4, <1>6 DEF k

LEMMA ParamNames == "num" \in Param /\ "delay" \in Param /\ "sens" \in Param
BY DEF Param

\* The steps of the programs.
LEMMA StepCopies ==
  ASSUME Sound, Typed, Copies, NEW c \in Task,
         \/ Load(c) \/ Write(c) \/ Erase(c) \/ Form(c) \/ Renumber(c) \/ SetDelay(c)
         \/ SetSensitivity(c) \/ CopyBack(c) \/ Leave(c)
  PROVE  Copies'
<1>1. page' = page /\ (row' = row \/ row' = 0) /\ tmp' = tmp
  BY DEF Load, Write, Erase, Form, Renumber, SetDelay, SetSensitivity, CopyBack, Leave, lcd
<1>2. ASSUME NEW z \in Zone, NEW q \in Param, Agreed(z, q)
      PROVE  Agreed(z, q)'
  <2>1. CASE Load(c) \/ Write(c) \/ Erase(c) \/ Leave(c)
    <3>1. UNCHANGED <<para, tmp, touched>>
      BY <2>1 DEF Load, Write, Erase, Leave, lcd
    <3> QED
      BY <1>2, <3>1 DEF Agreed
  <2>2. CASE Form(c) \/ Renumber(c) \/ SetDelay(c) \/ SetSensitivity(c)
    <3>1. Runs(c) /\ Due(c).do \in {"form", "renumber", "delay", "sens"}
      BY <2>2 DEF Form, Renumber, SetDelay, SetSensitivity, Step
    <3>2. c # "lcd"
      BY <3>1, DueOwn, OwnKinds
    <3>3. \E p : Assign(c, p)
      <4>1. CASE Form(c)
        BY <4>1, Zenon DEF Form
      <4>2. CASE Renumber(c)
        BY <4>2, Zenon DEF Renumber
      <4>3. CASE SetDelay(c)
        BY <4>3, Zenon DEF SetDelay
      <4>4. CASE SetSensitivity(c)
        BY <4>4, Zenon DEF SetSensitivity
      <4> QED
        BY <2>2, <4>1, <4>2, <4>3, <4>4
    <3> QED
      BY <1>1, <1>2, <3>2, <3>3, OthersTell
  <2>3. CASE CopyBack(c)
    <3>1. CASE q = Due(c).param
      BY <1>1, <2>3, <3>1, CopyBackSets DEF Agreed
    <3>2. CASE q # Due(c).param
      <4>1. para'[z][q] = para[z][q]
        BY <2>3, <3>2, CopyBackSets
      <4>2. <<q, z>> \in touched => <<q, z>> \in touched'
        BY <2>3, <3>2, CopyBackSets
      <4> QED
        BY <1>1, <1>2, <4>1, <4>2 DEF Agreed
    <3> QED
      BY <3>1, <3>2
  <2> QED
    BY <2>1, <2>2, <2>3
<1>3. page' # "out" => \A z \in Zone : Agreed(z, "num")' /\ Agreed(z, "delay")'
  BY <1>1, <1>2, ParamNames DEF Copies
<1>4. row' # 0 => \A z \in Zone : Agreed(z, "sens")'
  BY <1>1, <1>2, ParamNames DEF Copies
<1> QED
  BY <1>3, <1>4 DEF Copies

LEMMA StepEditing ==
  ASSUME Sound, Typed, Editing, NEW c \in Task,
         \/ Load(c) \/ Write(c) \/ Erase(c) \/ Form(c) \/ Renumber(c) \/ SetDelay(c)
         \/ SetSensitivity(c) \/ CopyBack(c) \/ Leave(c)
  PROVE  Editing'
<1> SUFFICES ASSUME "lcd" \in User
             PROVE  LeaveLast(prog'["lcd"]) /\ (prog'["lcd"] # <<>> => row' # 0)
  BY DEF Editing
<1>1. Runs(c) /\ Go(c)
  BY DEF Load, Write, Erase, Form, Renumber, SetDelay, SetSensitivity, CopyBack, Leave, Step
<1>2. prog' = [d \in Task |-> IF d = c THEN Tail(prog[c]) ELSE prog[d]]
  BY <1>1, DueOwn
<1>3. ~ Leave(c) => row' = row
  BY DEF Load, Write, Erase, Form, Renumber, SetDelay, SetSensitivity, CopyBack, lcd
<1>4. Leave(c) => c = "lcd" /\ Due(c).do = "leave"
  BY <1>1, DueOwn, OwnKinds DEF Leave, Step
<1>5. CASE c # "lcd"
  BY <1>2, <1>3, <1>4, <1>5, Tasks DEF Editing
<1>6. CASE c = "lcd"
  <2>1. prog["lcd"] \in Seq(Own("lcd")) /\ prog["lcd"] # <<>>
    BY <1>1, <1>6, Tasks DEF Typed, Runs
  <2>2. prog'["lcd"] = Tail(prog["lcd"])
    BY <1>2, <1>6, Tasks
  <2>3. LeaveLast(prog["lcd"]) /\ row # 0
    BY <2>1 DEF Editing
  <2>4. /\ LeaveLast(Tail(prog["lcd"]))
        /\ Head(prog["lcd"]).do = "leave" => Tail(prog["lcd"]) = <<>>
    BY <2>1, <2>3, LeaveTail
  <2> QED
    BY <1>3, <1>4, <1>6, <2>2, <2>3, <2>4 DEF Due
<1> QED
  BY <1>5, <1>6

\* After a start nothing has been copied and nothing is under edit.
LEMMA StartCopies ==
  ASSUME Started
  PROVE  Copies' /\ Editing'
<1>1. page' = "out" /\ row' = 0
  BY DEF Started
<1>2. "lcd" \in User => prog'["lcd"] = <<>>
  <2>1. prog' = [c \in Task |-> IF c = "start" /\ LooksErased THEN WriteFieldPara ELSE <<>>]
    BY DEF Started
  <2> QED
    BY <2>1, Tasks
<1> QED
  BY <1>1, <1>2, SavePageLeaves DEF Copies, Editing

LEMMA InitCopies == Init => Copies /\ Editing
<1> SUFFICES ASSUME Init
             PROVE  Copies /\ Editing
  OBVIOUS
<1>1. page = "out" /\ row = 0
  BY DEF Init
<1>2. "lcd" \in User => prog["lcd"] = <<>>
  <2>1. prog = [c \in Task |-> IF c = "start" THEN WriteFieldPara ELSE <<>>]
    BY DEF Init
  <2> QED
    BY <2>1, Tasks
<1> QED
  BY <1>1, <1>2, SavePageLeaves DEF Copies, Editing

\* What is copied agrees, what is not copied agrees as far as it did.
LEMMA CopiedAgree ==
  ASSUME Sound, NEW params, Copied(params), para' = para, NEW z \in Zone, NEW q \in Param
  PROVE  q \in params \/ Agreed(z, q) => Agreed(z, q)'
<1>1. tmp'[z][q] = IF q \in params THEN para[z][q] ELSE tmp[z][q]
  <2>1. tmp' = [y \in Zone |-> [k \in Param |-> IF k \in params THEN para[y][k] ELSE tmp[y][k]]]
    BY DEF Copied
  <2> QED
    BY <2>1
<1>2. touched' = touched \ (params \X Zone)
  BY DEF Copied
<1>3. q \notin params => (<<q, z>> \in touched => <<q, z>> \in touched')
  BY <1>2
<1> QED
  BY <1>1, <1>3 DEF Agreed

LEMMA KeyCopies ==
  ASSUME Sound, Typed, Copies,
         \/ ShowList
         \/ \E z \in Zone : OpenPage(z)
         \/ \E r \in DOMAIN Row : EnterEdit(r)
         \/ Change
         \/ Escape
  PROVE  Copies'
<1>1. UNCHANGED <<para, bytes, prog, held, stale, meant>>
  BY DEF ShowList, OpenPage, EnterEdit, Change, Escape, Key
<1>2. "out" \notin Zone /\ "list" \notin Zone /\ "list" # "out"
  BY DEF Zone
<1>3. CASE ShowList
  <2>1. Copied(ListCopies) /\ row' = 0
    BY <1>3 DEF ShowList
  <2>2. \A z \in Zone : Agreed(z, "num")' /\ Agreed(z, "delay")'
    BY <1>1, <2>1, CopiedAgree, ParamNames DEF ListCopies
  <2> QED
    BY <2>1, <2>2 DEF Copies
<1>4. CASE \E z \in Zone : OpenPage(z)
  <2>1. page = "list" /\ UNCHANGED <<tmp, row, touched>>
    BY <1>4 DEF OpenPage
  <2>2. \A z \in Zone : Agreed(z, "num") /\ Agreed(z, "delay")
    BY <1>2, <2>1 DEF Copies
  <2> QED
    BY <1>1, <2>1, <2>2 DEF Copies, Agreed
<1>5. CASE \E r \in DOMAIN Row : EnterEdit(r)
  <2>1. PICK r \in DOMAIN Row : EnterEdit(r)
    BY <1>5
  <2>2. Copied({"sens", Row[r]}) /\ page \in Zone /\ page' = page
    BY <2>1 DEF EnterEdit
  <2>3. \A z \in Zone : Agreed(z, "num") /\ Agreed(z, "delay")
    BY <1>2, <2>2 DEF Copies
  <2>4. \A z \in Zone : Agreed(z, "num")' /\ Agreed(z, "delay")' /\ Agreed(z, "sens")'
    BY <1>1, <2>2, <2>3, CopiedAgree, ParamNames
  <2> QED
    BY <2>4 DEF Copies
<1>6. CASE Change
  <2>1. page \in Zone /\ row \in 1..3 /\ row # 0 /\ Row[row] \in Param
    <3>1. page \in Zone /\ row \in 1..3 /\ row # 0
      BY <1>6 DEF Change, Sound
    <3> QED
      BY <3>1 DEF Row, Param
  <2> DEFINE q == Row[row]
  <2>2. PICK v \in Choice[q] : tmp' = [tmp EXCEPT ![page][q] = v]
    BY <1>6 DEF Change
  <2>3. touched' = touched \cup {<<q, page>>} /\ UNCHANGED <<page, row>>
    BY <1>6 DEF Change
  <2>4. q \in Param
    BY <2>1
  <2> HIDE DEF q
  <2>5. ASSUME NEW z \in Zone, NEW k \in Param, Agreed(z, k)
        PROVE  Agreed(z, k)'
    <3>1. CASE z = page /\ k = q
      BY <2>3, <3>1 DEF Agreed
    <3>2. CASE z # page \/ k # q
      <4>1. tmp'[z][k] = tmp[z][k]
        <5>1. tmp' = [y \in Zone |-> IF y = page THEN [tmp[page] EXCEPT ![q] = v] ELSE tmp[y]]
          BY <2>1, <2>2 DEF Sound
        <5>2. CASE z # page
          BY <5>1, <5>2
        <5>3. CASE z = page
          <6>1. k # q /\ tmp'[z] = [tmp[page] EXCEPT ![q] = v]
            BY <3>2, <5>1, <5>3
          <6>2. tmp[page] = [j \in Param |-> tmp[page][j]]
            BY <2>1, Fields DEF Sound
          <6> QED
            BY <5>3, <6>1, <6>2
        <5> QED
          BY <5>2, <5>3
      <4> QED
        BY <1>1, <2>3, <2>5, <4>1 DEF Agreed
    <3> QED
      BY <3>1, <3>2
  <2>6. \A z \in Zone : Agreed(z, "num") /\ Agreed(z, "delay") /\ Agreed(z, "sens")
    BY <1>2, <2>1 DEF Copies
  <2>7. \A z \in Zone : Agreed(z, "num")' /\ Agreed(z, "delay")' /\ Agreed(z, "sens")'
    BY <2>5, <2>6, ParamNames
  <2> QED
    BY <2>7 DEF Copies
<1>7. CASE Escape
  <2>1. row' = 0 /\ UNCHANGED <<tmp, page, touched>>
    BY <1>7 DEF Escape
  <2> QED
    BY <1>1, <2>1 DEF Copies, Agreed
<1> QED
  BY <1>3, <1>4, <1>5, <1>6, <1>7

\* Keys but ENTER at the end of an edit are only read between programs.
LEMMA KeyEditing ==
  ASSUME Editing,
         \/ ShowList
         \/ \E z \in Zone : OpenPage(z)
         \/ \E r \in DOMAIN Row : EnterEdit(r)
         \/ Change
         \/ Escape
  PROVE  Editing'
<1>1. prog' = prog /\ prog["lcd"] = <<>>
  BY DEF ShowList, OpenPage, EnterEdit, Change, Escape, Key, Idle
<1> QED
  BY <1>1, SavePageLeaves DEF Editing

\* A program begun by the web page or by a command.
LEMMA AskCopies ==
  ASSUME Sound, Typed, Copies, Editing, NEW c \in Task, c # "lcd", NEW p, Ask(c, p)
  PROVE  Copies' /\ Editing'
<1>1. UNCHANGED <<para, tmp, page, row, touched>> /\ prog' = [prog EXCEPT ![c] = p]
  BY DEF Ask, lcd
<1>2. "lcd" \in User => prog'["lcd"] = prog["lcd"]
  BY <1>1, Tasks DEF Typed
<1> QED
  BY <1>1, <1>2 DEF Copies, Agreed, Editing

LEMMA NextCopies ==
  ASSUME LInv, [Next]_vars
  PROVE  LInv'
<1> USE DEF LInv
<1>1. Sound' /\ Typed'
  BY NextSound
<1> SUFFICES Copies' /\ Editing'
  BY <1>1
<1>2. ASSUME NEW c \in Task,
             \/ Load(c) \/ Write(c) \/ Erase(c) \/ Form(c) \/ Renumber(c) \/ SetDelay(c)
             \/ SetSensitivity(c) \/ CopyBack(c) \/ Leave(c)
      PROVE  Copies' /\ Editing'
  BY <1>2, StepCopies, StepEditing
<1>3. ASSUME Started
      PROVE  Copies' /\ Editing'
  BY <1>3, StartCopies
<1>4. CASE WebSets
  BY <1>4, AskCopies, Tasks DEF WebSets
<1>5. CASE WebDefault
  BY <1>5, AskCopies, Tasks DEF WebDefault
<1>6. CASE TcpSets
  BY <1>6, AskCopies, Tasks DEF TcpSets
<1>7. CASE \/ ShowList \/ (\E z \in Zone : OpenPage(z)) \/ (\E r \in DOMAIN Row : EnterEdit(r))
           \/ Change \/ Escape
  BY <1>7, KeyCopies, KeyEditing
<1>8. CASE EnterSave
  <2>1. /\ row # 0 /\ prog' = [prog EXCEPT !["lcd"] = SavePage]
        /\ UNCHANGED <<para, tmp, page, row, touched>>
    BY <1>8 DEF EnterSave, lcd
  <2>2. "lcd" \in User => prog'["lcd"] = SavePage
    BY <2>1, Tasks DEF Typed
  <2> QED
    BY <2>1, <2>2, SavePageLeaves DEF Copies, Agreed, Editing
<1>9. CASE UNCHANGED vars
  BY <1>9 DEF Copies, Agreed, Editing, vars, lcd
<1>10. CASE PowerCycle \/ \E c \in Task : Reset(c)
  BY <1>3, <1>10 DEF PowerCycle, Reset
<1> QED
  BY <1>2, <1>4, <1>5, <1>6, <1>7, <1>8, <1>9, <1>10 DEF Next

\* An edit that is saved puts back no value but the edited one, except where
\* somebody changed the value since it was copied: the list of zones and the
\* beginning of an edit together copy all three, and no key can interrupt the
\* saving.
THEOREM SavingKeepsOthers == Spec => EditKeepsOthers
<1>1. ASSUME LInv, NEW c \in Task, CopyBack(c), NEW z \in Zone, NEW q \in Param,
             para'[z][q] # para[z][q]
      PROVE  <<q, z>> \in touched
  <2>1. c = "lcd" /\ q = Due(c).param /\ para'[z][q] = tmp[z][q]
    BY <1>1, CopyBackSets DEF LInv
  <2>2. "lcd" \in User /\ prog["lcd"] # <<>>
    BY <1>1, <2>1, Tasks DEF CopyBack, Step, Runs
  <2>3. row # 0 /\ page \in Zone
    BY <1>1, <2>2 DEF LInv, Editing, Sound
  <2>4. page # "out"
    BY <2>3 DEF Zone
  <2>5. Agreed(z, "num") /\ Agreed(z, "delay") /\ Agreed(z, "sens")
    BY <1>1, <2>3, <2>4 DEF LInv, Copies
  <2>6. Agreed(z, q)
    BY <1>1, <2>5 DEF Param
  <2> QED
    BY <1>1, <2>1, <2>6 DEF Agreed
<1>2. LInv /\ [Next]_vars =>
        [\A c \in Task : CopyBack(c) =>
           \A z \in Zone : \A q \in Param :
             para'[z][q] # para[z][q] => <<q, z>> \in touched]_vars
  BY <1>1
<1>3. Init => LInv
  BY InitSound, InitCopies DEF LInv
<1>4. LInv /\ [Next]_vars => LInv'
  BY NextCopies
<1> QED
  BY <1>2, <1>3, <1>4, PTL DEF Spec, EditKeepsOthers

-----------------------------------------------------------------------------
(* Commands of the TCP server                                               *)

\* What a command to the zone that is to have number m has left to do once the
\* zone has it.
Rest(m) == Transfer \cup [do : {"delay", "sens"}, to : {v \in Values : v.num = m}]

\* The command in hand is for zone z, which has the number m or gets it next,
\* and which alone has it.
AimedAt(z, m) ==
  /\ meant = {z}
  /\ \A y \in Zone \ {z} : para[y].num # m
  /\ \/ para[z].num = m /\ prog["tcp"] \in Seq(Rest(m))
     \/ /\ Head(prog["tcp"]).do = "renumber"
        /\ Head(prog["tcp"]).to.num = m
        /\ First(Head(prog["tcp"]).num) = {z}
        /\ Tail(prog["tcp"]) \in Seq(Rest(m))

Aim ==
  "tcp" \in User /\ prog["tcp"] # <<>> /\ meant # Zone => \E z \in Zone, m \in u8 : AimedAt(z, m)

CInv == Sound /\ Typed /\ Aim

\* Who is found by a number only one zone has.
LEMMA Found ==
  ASSUME NEW z \in Zone, NEW m, para[z].num = m, \A y \in Zone \ {z} : para[y].num # m
  PROVE  First(m) = {z} /\ FieldIndex(m) = z
<1>1. CASE z = "A"
  BY <1>1 DEF First, FieldIndex
<1>2. CASE z = "B"
  <2>1. para["A"].num # m
    BY <1>2 DEF Zone
  <2>2. {y \in {"B"} : para[y].num = m} = {"B"}
    BY <1>2
  <2> QED
    BY <1>2, <2>1, <2>2 DEF First, FieldIndex
<1> QED
  BY <1>1, <1>2 DEF Zone

\* A number some zone has finds exactly one.
LEMMA FoundOne ==
  ASSUME NEW n \in {para[z].num : z \in Zone}
  PROVE  \E z \in Zone : First(n) = {z}
<1>1. CASE para["A"].num = n
  BY <1>1 DEF First, Zone
<1>2. CASE para["A"].num # n
  <2>1. para["B"].num = n
    BY <1>2 DEF Zone
  <2>2. {z \in {"B"} : para[z].num = n} = {"B"}
    BY <2>1
  <2> QED
    BY <1>2, <2>2 DEF First, Zone
<1> QED
  BY <1>1, <1>2

LEMMA SameNumbers ==
  ASSUME \A z \in Zone : para'[z].num = para[z].num
  PROVE  \A n : First(n)' = First(n)
<1>1. para'["A"].num = para["A"].num /\ para'["B"].num = para["B"].num
  BY DEF Zone
<1> QED
  BY <1>1 DEF First

\* A step of another task: numbers stay, or nobody can tell whom the command is for.
LEMMA AimKept ==
  ASSUME CInv, NEW c \in Task, c # "tcp", Go(c), Runs(c),
         \/ UNCHANGED <<para, meant>>
         \/ \E p : Assign(c, p)
  PROVE  Aim'
<1> SUFFICES ASSUME "tcp" \in User, prog'["tcp"] # <<>>, meant' # Zone
             PROVE  \E z \in Zone, m \in u8 : AimedAt(z, m)'
  BY DEF Aim
<1>1. prog'["tcp"] = prog["tcp"]
  BY DueOwn, Tasks DEF CInv
<1>2. meant' = meant /\ \A z \in Zone : para'[z].num = para[z].num
  <2>1. CASE UNCHANGED <<para, meant>>
    BY <2>1
  <2>2. ASSUME NEW p, Assign(c, p)
        PROVE  meant' = meant /\ \A z \in Zone : para'[z].num = para[z].num
    <3>1. /\ para' = p
          /\ meant' = IF \E z \in Zone : <<"num", z>> \in Changed(p) THEN Zone ELSE meant
      BY <2>2 DEF Assign
    <3>2. \A z \in Zone : <<"num", z>> \notin Changed(p)
      BY <3>1
    <3>3. \A z \in Zone : p[z]["num"] = para[z]["num"]
      BY <3>2, ParamNames DEF Changed
    <3> QED
      BY <3>1, <3>2, <3>3
  <2> QED
    BY <2>1, <2>2
<1>3. PICK z \in Zone, m \in u8 : AimedAt(z, m)
  BY <1>1, <1>2 DEF CInv, Aim
<1>4. \A n : First(n)' = First(n)
  BY <1>2, SameNumbers
<1>5. AimedAt(z, m)'
  BY <1>1, <1>2, <1>3, <1>4 DEF AimedAt
<1> QED
  BY <1>5

\* What the command of the number, of the duration and of the sensitivity do.
LEMMA RenumberSets ==
  ASSUME CInv, NEW c \in Task, Renumber(c)
  PROVE  /\ c = "tcp" /\ Due(c).to.num \in u8 /\ meant' = meant
         /\ \A z \in Zone : para'[z].num = IF z \in First(Due(c).num) THEN Due(c).to.num
                                           ELSE para[z].num
<1>1. Runs(c) /\ Due(c).do = "renumber"
  BY DEF Renumber, Step
<1>2. c = "tcp" /\ Due(c).to \in Values
  BY <1>1, DueOwn, OwnKinds DEF CInv
<1> DEFINE n == Due(c).to.num
           F == First(Due(c).num)
<1>3. n \in u8
  BY <1>2, ChosenTypes, Fields
<1>4. para' = [z \in Zone |-> IF z \in F THEN [para[z] EXCEPT !.num = n] ELSE para[z]]
      /\ meant' = meant
  BY <1>2 DEF Renumber, Assign
<1> HIDE DEF n, F
<1>5. ASSUME NEW z \in Zone
      PROVE  para'[z].num = IF z \in F THEN n ELSE para[z].num
  <2>1. para[z] \in Setting
    BY DEF CInv, Sound
  <2>2. CASE z \in F
    <3>1. para'[z] = [para[z] EXCEPT !.num = n]
      BY <1>4, <2>2
    <3>2. [para[z] EXCEPT !.num = n]["num"] = n /\ [para[z] EXCEPT !.num = n] \in Setting
      BY <1>3, <2>1, PutInNum, ParamNames
    <3>3. para'[z]["num"] = n /\ para'[z] \in Setting
      BY <3>1, <3>2
    <3>4. para'[z].num = para'[z]["num"]
      BY <3>3, Fields
    <3> QED
      BY <2>2, <3>3, <3>4
  <2>3. CASE z \notin F
    BY <1>4, <2>3
  <2> QED
    BY <2>2, <2>3
<1> QED
  BY <1>2, <1>3, <1>4, <1>5 DEF n, F

LEMMA DelaySets ==
  ASSUME CInv, NEW c \in Task, SetDelay(c)
  PROVE  /\ c = "tcp" /\ meant' = meant
         /\ \A z \in Zone :
              /\ para'[z].num = para[z].num
              /\ para'[z]["delay"] = IF z \in First(Due(c).to.num) THEN Due(c).to["delay"]
                                     ELSE para[z]["delay"]
<1>1. Runs(c) /\ Due(c).do = "delay"
  BY DEF SetDelay, Step
<1>2. c = "tcp" /\ Due(c).to \in Values
  BY <1>1, DueOwn, OwnKinds DEF CInv
<1> DEFINE d == Due(c).to.delay
           F == First(Due(c).to.num)
<1>3. d \in u16 /\ d = Due(c).to["delay"]
  BY <1>2, ChosenTypes, Fields
<1>4. para' = [z \in Zone |-> IF z \in F THEN [para[z] EXCEPT !.delay = d] ELSE para[z]]
      /\ meant' = meant
  BY <1>2 DEF SetDelay, Assign
<1> HIDE DEF d, F
<1>5. ASSUME NEW z \in Zone
      PROVE  /\ para'[z].num = para[z].num
             /\ para'[z]["delay"] = IF z \in F THEN d ELSE para[z]["delay"]
  <2>1. para[z] \in Setting
    BY DEF CInv, Sound
  <2>2. CASE z \in F
    <3> DEFINE r == [para[z] EXCEPT !.delay = d]
    <3>1. para'[z] = r
      BY <1>4, <2>2
    <3>2. r["num"] = para[z]["num"] /\ r["delay"] = d /\ r \in Setting
      BY <1>3, <2>1, PutInDelay, ParamNames
    <3> HIDE DEF r
    <3>3. r.num = r["num"] /\ para[z].num = para[z]["num"]
      BY <2>1, <3>2, Fields
    <3> QED
      BY <2>2, <3>1, <3>2, <3>3
  <2>3. CASE z \notin F
    BY <1>4, <2>3
  <2> QED
    BY <2>2, <2>3
<1> QED
  BY <1>2, <1>3, <1>4, <1>5 DEF d, F

LEMMA SensitivitySets ==
  ASSUME CInv, NEW c \in Task, SetSensitivity(c)
  PROVE  /\ c = "tcp" /\ meant' = meant
         /\ \A z \in Zone :
              /\ para'[z].num = para[z].num
              /\ para'[z]["sens"] = IF z = FieldIndex(Due(c).to.num) THEN Due(c).to["sens"]
                                    ELSE para[z]["sens"]
<1>1. Runs(c) /\ Due(c).do = "sens"
  BY DEF SetSensitivity, Step
<1>2. c = "tcp" /\ Due(c).to \in Values
  BY <1>1, DueOwn, OwnKinds DEF CInv
<1> DEFINE s == Due(c).to.sens
           f == FieldIndex(Due(c).to.num)
<1>3. s \in u8 /\ s = Due(c).to["sens"] /\ f \in Zone
  BY <1>2, ChosenTypes, Fields, FirstIsZone
<1>4. para' = [para EXCEPT ![f].sens = s] /\ meant' = meant
  BY <1>2 DEF SetSensitivity, Assign
<1> HIDE DEF s, f
<1>5. para' = [y \in Zone |-> IF y = f THEN [para[f] EXCEPT !.sens = s] ELSE para[y]]
  BY <1>3, <1>4, SensSet DEF CInv
<1>6. ASSUME NEW z \in Zone
      PROVE  /\ para'[z].num = para[z].num
             /\ para'[z]["sens"] = IF z = f THEN s ELSE para[z]["sens"]
  <2>1. para[z] \in Setting
    BY DEF CInv, Sound
  <2>2. CASE z = f
    <3> DEFINE r == [para[z] EXCEPT !.sens = s]
    <3>1. para'[z] = r
      BY <1>5, <2>2
    <3>2. r["num"] = para[z]["num"] /\ r["sens"] = s /\ r \in Setting
      BY <1>3, <2>1, PutInSens, ParamNames
    <3> HIDE DEF r
    <3>3. r.num = r["num"] /\ para[z].num = para[z]["num"]
      BY <2>1, <3>2, Fields
    <3> QED
      BY <2>2, <3>1, <3>2, <3>3
  <2>3. CASE z # f
    BY <1>5, <2>3
  <2> QED
    BY <2>2, <2>3
<1> QED
  BY <1>2, <1>3, <1>4, <1>6 DEF s, f

LEMMA HeadOfCons ==
  ASSUME NEW S, NEW x \in S, NEW q \in Seq(S)
  PROVE  /\ <<x>> \o q \in Seq(S) /\ <<x>> \o q # <<>>
         /\ Head(<<x>> \o q) = x /\ Tail(<<x>> \o q) = q
<1> DEFINE s == <<x>>
<1>1. s \in Seq(S) /\ Len(s) = 1 /\ s[1] = x
  BY SingleTyped
<1> HIDE DEF s
<1> DEFINE p == s \o q
<1>2. /\ p \in Seq(S) /\ Len(p) = 1 + Len(q)
      /\ \A i \in 1 .. 1 + Len(q) : p[i] = IF i <= 1 THEN s[i] ELSE q[i - 1]
  <2>1. s \in Seq(S) /\ q \in Seq(S)
    BY <1>1
  <2>2. /\ p \in Seq(S) /\ Len(p) = Len(s) + Len(q)
        /\ \A i \in 1 .. Len(s) + Len(q) :
              p[i] = IF i <= Len(s) THEN s[i] ELSE q[i - Len(s)]
    BY <2>1, ConcatProperties, Zenon
  <2>3. Len(s) = 1
    BY <1>1
  <2> HIDE DEF p
  <2> QED
    BY <2>2, <2>3
<1>3. Len(q) \in Nat
  BY LenProperties
<1> HIDE DEF p
<1>4. p # <<>>
  BY <1>2, <1>3, EmptySeq
<1>5. /\ Head(p) = p[1] /\ Tail(p) \in Seq(S) /\ Len(Tail(p)) = Len(p) - 1
      /\ \A i \in 1 .. Len(p) - 1 : Tail(p)[i] = p[i + 1]
  BY <1>2, <1>4, TailIndices
<1>6. Head(p) = x
  BY <1>1, <1>2, <1>3, <1>5
<1>7. Tail(p) = q
  <2> DEFINE t == Tail(p)
  <2>1. t \in Seq(S) /\ Len(t) = Len(q) /\ \A i \in 1 .. Len(q) : t[i] = p[i + 1]
    BY <1>2, <1>3, <1>5
  <2>2. ASSUME NEW i \in 1 .. Len(q)
        PROVE  p[i + 1] = q[i]
    <3>1. i + 1 \in 1 .. 1 + Len(q) /\ ~ (i + 1 <= 1) /\ (i + 1) - 1 = i
      BY <1>3
    <3> QED
      BY <1>2, <3>1
  <2> HIDE DEF t
  <2>3. t = q
    BY <2>1, <2>2, SeqEqual
  <2> QED
    BY <2>3 DEF t
<1> QED
  BY <1>2, <1>4, <1>6, <1>7 DEF p, s

\* The command step by step: the number first.
LEMMA SetParasSteps ==
  ASSUME NEW n \in u8, NEW v \in Values
  PROVE  /\ Head(SetParas(n, v)) = [do |-> "renumber", num |-> n, to |-> v]
         /\ Tail(SetParas(n, v)) = WriteFieldPara \o << [do |-> "delay", to |-> v] >>
              \o WriteFieldPara \o << [do |-> "sens", to |-> v] >> \o WriteFieldPara
         /\ Tail(SetParas(n, v)) \in Seq(Rest(v.num))
         /\ SetParas(n, v) # <<>>
<1> DEFINE S == Own("tcp")
           R == Rest(v.num)
           W == WriteFieldPara
           x == [do |-> "renumber", num |-> n, to |-> v]
           y == [do |-> "delay", to |-> v]
           z == [do |-> "sens", to |-> v]
           q == W \o <<y>> \o W \o <<z>> \o W
<1>1. x \in S /\ y \in S /\ z \in S /\ Transfer \subseteq S
  <2>1. x \in Commanding /\ y \in Commanding /\ z \in Commanding
    BY DEF Commanding
  <2> QED
    BY <2>1 DEF Own
<1>2. y \in R /\ z \in R /\ Transfer \subseteq R
  BY DEF Rest
<1>3. SetParas(n, v) = <<x>> \o W \o <<y>> \o W \o <<z>> \o W
  BY DEF SetParas
<1> HIDE DEF S, R, x, y, z
<1>4. W \in Seq(S) /\ W \in Seq(R)
  BY <1>1, <1>2, SaveTyped, SeqMonotonic
<1> HIDE DEF W
<1>5. <<x>> \in Seq(S) /\ <<y>> \in Seq(S) /\ <<z>> \in Seq(S)
  BY <1>1, SingleTyped
<1>6. <<y>> \in Seq(R) /\ <<z>> \in Seq(R)
  BY <1>2, SingleTyped
<1>7. /\ W \o <<y>> \in Seq(S) /\ W \o <<y>> \o W \in Seq(S)
      /\ W \o <<y>> \o W \o <<z>> \in Seq(S) /\ q \in Seq(S)
  BY <1>4, <1>5, ConcatProperties
<1>8. q \in Seq(R)
  <2>1. W \o <<y>> \in Seq(R)
    BY <1>4, <1>6, ConcatProperties
  <2>2. W \o <<y>> \o W \in Seq(R)
    BY <1>4, <2>1, ConcatProperties
  <2>3. W \o <<y>> \o W \o <<z>> \in Seq(R)
    BY <1>6, <2>2, ConcatProperties
  <2> QED
    BY <1>4, <2>3, ConcatProperties
<1>9. <<x>> \o W \o <<y>> = <<x>> \o (W \o <<y>>)
  BY <1>4, <1>5, ConcatAssociative
<1>10. <<x>> \o W \o <<y>> \o W = <<x>> \o (W \o <<y>> \o W)
  BY <1>4, <1>5, <1>7, <1>9, ConcatAssociative
<1>11. <<x>> \o W \o <<y>> \o W \o <<z>> = <<x>> \o (W \o <<y>> \o W \o <<z>>)
  BY <1>5, <1>7, <1>10, ConcatAssociative
<1>12. <<x>> \o W \o <<y>> \o W \o <<z>> \o W = <<x>> \o q
  <2> DEFINE u == W \o <<y>> \o W \o <<z>>
  <2>1. u \in Seq(S) /\ q = u \o W
    BY <1>7
  <2>2. <<x>> \o W \o <<y>> \o W \o <<z>> = <<x>> \o u
    BY <1>11
  <2> HIDE DEF u, q
  <2>3. (<<x>> \o u) \o W = <<x>> \o (u \o W)
    BY <1>4, <1>5, <2>1, ConcatAssociative
  <2> QED
    BY <2>1, <2>2, <2>3
<1> HIDE DEF q
<1>13. Head(<<x>> \o q) = x /\ Tail(<<x>> \o q) = q /\ <<x>> \o q # <<>>
  BY <1>1, <1>7, HeadOfCons
<1>14. Head(SetParas(n, v)) = x /\ Tail(SetParas(n, v)) = q /\ SetParas(n, v) # <<>>
  BY <1>3, <1>12, <1>13
<1> QED
  BY <1>8, <1>14 DEF q, x, y, z, W, R

\* What the command has left to do but the renumbering keeps who it is for.
LEMMA RestSteps ==
  ASSUME NEW m, NEW p \in Seq(Rest(m)), p # <<>>
  PROVE  /\ Tail(p) \in Seq(Rest(m))
         /\ Head(p).do \in {"load", "write", "delay", "sens"}
         /\ Head(p).do \in {"delay", "sens"} => Head(p).to.num = m
<1>1. Head(p) \in Rest(m) /\ Tail(p) \in Seq(Rest(m))
  BY HeadTailProperties
<1> DEFINE x == Head(p)
<1>2. CASE x \in Transfer
  BY <1>1, <1>2 DEF Transfer
<1>3. CASE x \in [do : {"delay", "sens"}, to : {v \in Values : v.num = m}]
  BY <1>1, <1>3
<1> QED
  BY <1>1, <1>2, <1>3 DEF Rest

\* The command's own steps.
LEMMA AimMoves ==
  ASSUME CInv, Runs("tcp"), Go("tcp"), "tcp" \in User, meant' = meant,
         \/ /\ Due("tcp").do # "renumber"
            /\ \A z \in Zone : para'[z].num = para[z].num
         \/ /\ Due("tcp").do = "renumber"
            /\ \A z \in Zone : para'[z].num = IF z \in First(Due("tcp").num)
                                              THEN Due("tcp").to.num ELSE para[z].num
  PROVE  Aim'
<1> SUFFICES ASSUME meant # Zone
             PROVE  \E z \in Zone, m \in u8 : AimedAt(z, m)'
  BY DEF Aim
<1>1. prog["tcp"] # <<>> /\ prog'["tcp"] = Tail(prog["tcp"]) /\ Due("tcp") = Head(prog["tcp"])
  <2>1. "tcp" \in Task
    BY Tasks
  <2>2. prog["tcp"] # <<>> /\ Due("tcp") = Head(prog["tcp"])
    BY DEF Runs, Due
  <2>3. Typed
    BY DEF CInv
  <2>4. prog' = [d \in Task |-> IF d = "tcp" THEN Tail(prog["tcp"]) ELSE prog[d]]
    BY <2>1, <2>3, DueOwn
  <2> QED
    BY <2>1, <2>2, <2>4
<1>2. PICK z \in Zone, m \in u8 : AimedAt(z, m)
  BY <1>1 DEF CInv, Aim
<1>3. CASE para[z].num = m /\ prog["tcp"] \in Seq(Rest(m))
  <2>1. Tail(prog["tcp"]) \in Seq(Rest(m)) /\ Due("tcp").do # "renumber"
    BY <1>1, <1>3, RestSteps
  <2>2. \A y \in Zone : para'[y].num = para[y].num
    BY <2>1
  <2>3. AimedAt(z, m)'
    BY <1>1, <1>2, <1>3, <2>1, <2>2 DEF AimedAt
  <2> QED
    BY <2>3
<1>4. CASE /\ Head(prog["tcp"]).do = "renumber"
           /\ Head(prog["tcp"]).to.num = m
           /\ First(Head(prog["tcp"]).num) = {z}
           /\ Tail(prog["tcp"]) \in Seq(Rest(m))
  <2>1. \A y \in Zone : para'[y].num = IF y \in {z} THEN m ELSE para[y].num
    BY <1>1, <1>4
  <2>2. AimedAt(z, m)'
    BY <1>1, <1>2, <1>4, <2>1 DEF AimedAt
  <2> QED
    BY <2>2
<1> QED
  BY <1>2, <1>3, <1>4 DEF AimedAt

LEMMA StepAim ==
  ASSUME CInv, NEW c \in Task,
         \/ Load(c) \/ Write(c) \/ Erase(c) \/ Form(c) \/ Renumber(c) \/ SetDelay(c)
         \/ SetSensitivity(c) \/ CopyBack(c) \/ Leave(c)
  PROVE  Aim'
<1>1. Runs(c) /\ Go(c)
  BY DEF Load, Write, Erase, Form, Renumber, SetDelay, SetSensitivity, CopyBack, Leave, Step
<1>2. CASE Load(c) \/ Write(c) \/ Erase(c) \/ Leave(c)
  <2>1. UNCHANGED <<para, meant>> /\ Due(c).do # "renumber"
    BY <1>2 DEF Load, Write, Erase, Leave, Step
  <2>2. CASE c = "tcp"
    <3>1. "tcp" \in User
      BY <2>2, Tasks
    <3> QED
      BY <1>1, <2>1, <2>2, <3>1, AimMoves
  <2>3. CASE c # "tcp"
    BY <1>1, <2>1, <2>3, AimKept
  <2> QED
    BY <2>2, <2>3
<1>3. CASE Form(c)
  <2>1. c # "tcp"
    BY <1>1, <1>3, DueOwn, OwnKinds DEF Form, Step, CInv
  <2>2. \E p : Assign(c, p)
    BY <1>3, Zenon DEF Form
  <2> QED
    BY <1>1, <2>1, <2>2, AimKept
<1>4. CASE CopyBack(c)
  <2>1. c # "tcp"
    BY <1>1, <1>4, DueOwn, OwnKinds DEF CopyBack, Step, CInv
  <2>2. \E p : Assign(c, p)
    BY <1>4, Zenon DEF CopyBack
  <2> QED
    BY <1>1, <2>1, <2>2, AimKept
<1>5. CASE Renumber(c)
  <2>1. c = "tcp" /\ Due(c).do = "renumber"
    BY <1>5, RenumberSets DEF Renumber, Step
  <2>2. "tcp" \in User
    BY <2>1, Tasks
  <2> QED
    BY <1>1, <1>5, <2>1, <2>2, RenumberSets, AimMoves
<1>6. CASE SetDelay(c)
  <2>1. c = "tcp" /\ Due(c).do = "delay"
    BY <1>6, DelaySets DEF SetDelay, Step
  <2>2. "tcp" \in User
    BY <2>1, Tasks
  <2> QED
    BY <1>1, <1>6, <2>1, <2>2, DelaySets, AimMoves
<1>7. CASE SetSensitivity(c)
  <2>1. c = "tcp" /\ Due(c).do = "sens"
    BY <1>7, SensitivitySets DEF SetSensitivity, Step
  <2>2. "tcp" \in User
    BY <2>1, Tasks
  <2> QED
    BY <1>1, <1>7, <2>1, <2>2, SensitivitySets, AimMoves
<1> QED
  BY <1>2, <1>3, <1>4, <1>5, <1>6, <1>7

\* A command is only begun with a number some zone has; and whom it is for is
\* only lost if the new number is the other zone's.
LEMMA TcpAims ==
  ASSUME CInv, TcpSets
  PROVE  Aim'
<1>1. PICK n \in {para[z].num : z \in Zone}, v \in Values :
        /\ Ask("tcp", SetParas(n, v))
        /\ meant' = IF \E z \in Zone \ First(n) : para[z].num = v.num THEN Zone ELSE First(n)
  BY DEF TcpSets
<1>2. n \in u8 /\ v.num \in u8
  BY ChosenTypes, Fields DEF CInv, Sound
<1>3. PICK z \in Zone : First(n) = {z}
  BY FoundOne
<1>4. prog'["tcp"] = SetParas(n, v) /\ para' = para
  <2>1. "tcp" \in Task
    BY Tasks DEF TcpSets
  <2> QED
    BY <1>1, <2>1 DEF Ask, CInv, Typed
<1>5. ASSUME meant' # Zone
      PROVE  AimedAt(z, v.num)'
  <2>1. meant' = {z} /\ \A y \in Zone \ {z} : para[y].num # v.num
    BY <1>1, <1>3, <1>5
  <2>2. /\ Head(prog'["tcp"]) = [do |-> "renumber", num |-> n, to |-> v]
        /\ Tail(prog'["tcp"]) \in Seq(Rest(v.num))
    BY <1>2, <1>4, SetParasSteps
  <2>3. First(n)' = First(n)
    BY <1>4, SameNumbers
  <2> QED
    BY <1>3, <1>4, <2>1, <2>2, <2>3 DEF AimedAt
<1> QED
  BY <1>2, <1>5 DEF Aim

LEMMA NextAim ==
  ASSUME CInv, [Next]_vars
  PROVE  CInv'
<1>1. Sound' /\ Typed'
  BY NextSound DEF CInv
<1> SUFFICES Aim'
  BY <1>1 DEF CInv
<1>2. ASSUME NEW c \in Task,
             \/ Load(c) \/ Write(c) \/ Erase(c) \/ Form(c) \/ Renumber(c) \/ SetDelay(c)
             \/ SetSensitivity(c) \/ CopyBack(c) \/ Leave(c)
      PROVE  Aim'
  BY <1>2, StepAim
<1>3. CASE PowerCycle \/ \E c \in Task : Reset(c)
  <2>1. prog' = [c \in Task |-> IF c = "start" /\ LooksErased THEN WriteFieldPara ELSE <<>>]
    BY <1>3 DEF PowerCycle, Reset, Started
  <2>2. "tcp" \in User => prog'["tcp"] = <<>>
    BY <2>1, Tasks
  <2> QED
    BY <2>2 DEF Aim
<1>4. ASSUME UNCHANGED <<para, meant>>, "tcp" \in User => prog'["tcp"] = prog["tcp"]
      PROVE  Aim'
  <2>1. \A n : First(n)' = First(n)
    BY <1>4, SameNumbers
  <2>2. ASSUME NEW z \in Zone, NEW m \in u8, "tcp" \in User, AimedAt(z, m)
        PROVE  AimedAt(z, m)'
    BY <1>4, <2>1, <2>2 DEF AimedAt
  <2> QED
    BY <1>4, <2>2 DEF CInv, Aim
<1>5. ASSUME NEW c \in User, c # "tcp", NEW p, prog' = [prog EXCEPT ![c] = p]
      PROVE  "tcp" \in User => prog'["tcp"] = prog["tcp"]
  BY <1>5, Tasks DEF CInv, Typed
<1>6. CASE WebSets
  <2>1. UNCHANGED <<para, meant>> /\ "web" \in User
    BY <1>6 DEF WebSets, Ask
  <2>2. \E p : prog' = [prog EXCEPT !["web"] = p]
    BY <1>6, Zenon DEF WebSets, Ask
  <2> QED
    BY <1>4, <1>5, <2>1, <2>2
<1>7. CASE WebDefault
  <2>1. UNCHANGED <<para, meant>> /\ "web" \in User /\ prog' = [prog EXCEPT !["web"] = systemDefault]
    BY <1>7 DEF WebDefault, Ask
  <2> QED
    BY <1>4, <1>5, <2>1
<1>8. CASE TcpSets
  BY <1>8, TcpAims
<1>9. CASE \/ ShowList \/ (\E z \in Zone : OpenPage(z)) \/ (\E r \in DOMAIN Row : EnterEdit(r))
           \/ Change \/ Escape
  <2>1. UNCHANGED <<para, meant, prog>>
    BY <1>9 DEF ShowList, OpenPage, EnterEdit, Change, Escape, Key
  <2> QED
    BY <1>4, <2>1
<1>10. CASE EnterSave
  <2>1. UNCHANGED <<para, meant>> /\ "lcd" \in User /\ prog' = [prog EXCEPT !["lcd"] = SavePage]
    BY <1>10 DEF EnterSave
  <2> QED
    BY <1>4, <1>5, <2>1
<1>11. CASE UNCHANGED vars
  <2>1. UNCHANGED <<para, meant, prog>>
    BY <1>11 DEF vars
  <2> QED
    BY <1>4, <2>1
<1> QED
  BY <1>2, <1>3, <1>6, <1>7, <1>8, <1>9, <1>10, <1>11 DEF Next

\* The duration and the sensitivity of a command reach the zone that had its
\* number, and that zone only: until another task gives a zone a number, the
\* zone keeps the one the command gave it, and no other zone has it.
THEOREM CommandsHit == Spec => CommandHitsZone
<1>1. ASSUME CInv, NEW c \in Task, meant # Zone, SetDelay(c) \/ SetSensitivity(c)
      PROVE  \E z \in Zone : meant = {z} /\ First(Due(c).to.num) = {z}
                                         /\ FieldIndex(Due(c).to.num) = z
  <2>1. c = "tcp"
    BY <1>1, DelaySets, SensitivitySets
  <2>2. Due(c).do \in {"delay", "sens"} /\ prog[c] # <<>>
    BY <1>1 DEF SetDelay, SetSensitivity, Step, Runs
  <2>3. "tcp" \in User
    BY <2>1, Tasks
  <2>4. PICK z \in Zone, m \in u8 : AimedAt(z, m)
    BY <1>1, <2>1, <2>2, <2>3 DEF CInv, Aim
  <2>5. para[z].num = m /\ prog["tcp"] \in Seq(Rest(m))
    BY <2>1, <2>2, <2>4 DEF AimedAt, Due
  <2>6. Due(c).to.num = m
    BY <2>1, <2>2, <2>5, RestSteps DEF Due
  <2>7. meant = {z} /\ \A y \in Zone \ {z} : para[y].num # m
    BY <2>4 DEF AimedAt
  <2>8. First(m) = {z} /\ FieldIndex(m) = z
    BY <2>5, <2>7, Found
  <2> QED
    BY <2>6, <2>7, <2>8
<1>2. ASSUME CInv, NEW c \in Task, meant # Zone, SetDelay(c)
      PROVE  Only(c, "delay")
  <2>1. PICK z \in Zone : meant = {z} /\ First(Due(c).to.num) = {z}
    BY <1>1, <1>2
  <2> QED
    BY <1>2, <2>1, DelaySets DEF Only
<1>3. ASSUME CInv, NEW c \in Task, meant # Zone, SetSensitivity(c)
      PROVE  Only(c, "sens")
  <2>1. PICK z \in Zone : meant = {z} /\ FieldIndex(Due(c).to.num) = z
    BY <1>1, <1>3
  <2> QED
    BY <1>3, <2>1, SensitivitySets DEF Only
<1>4. CInv /\ [Next]_vars =>
        [\A c \in Task : meant # Zone => /\ SetDelay(c) => Only(c, "delay")
                                         /\ SetSensitivity(c) => Only(c, "sens")]_vars
  BY <1>2, <1>3
<1>5. Init => CInv
  <2> SUFFICES ASSUME Init
               PROVE  CInv
    OBVIOUS
  <2>1. prog = [c \in Task |-> IF c = "start" THEN WriteFieldPara ELSE <<>>]
    BY DEF Init
  <2>2. "tcp" \in User => prog["tcp"] = <<>>
    BY <2>1, Tasks
  <2>3. Sound /\ Typed
    BY InitSound
  <2> QED
    BY <2>2, <2>3 DEF CInv, Aim
<1>6. CInv /\ [Next]_vars => CInv'
  BY NextAim
<1> QED
  BY <1>4, <1>5, <1>6, PTL DEF Spec, CommandHitsZone

-----------------------------------------------------------------------------
(* What is stored                                                           *)

Assigning == {"form", "renumber", "delay", "sens", "copy"}

Writes(p, a) == \E i \in 1 .. Len(p) : p[i].do = "write" /\ p[i].at = a
WritesAll(p) == \A a \in Address : Writes(p, a)

\* Every assignment of parameters is followed by the writing of all bytes.
Followed(p) ==
  \A i \in 1 .. Len(p) : p[i].do \in Assigning =>
    \A a \in Address : \E j \in i + 1 .. Len(p) : p[j].do = "write" /\ p[j].at = a

\* A byte is the parameter's, or will be written, or was last written with
\* another value, or systemDefault is about to reset the host.
Synced(a) ==
  \/ bytes[a] = ByteOf(para, a)
  \/ a \in stale
  \/ \E c \in Task : Writes(prog[c], a)
  \/ "web" \in User /\ ~ Tame(prog["web"])

PInv ==
  /\ IInv /\ Sound /\ Typed
  /\ \A c \in Task : Followed(prog[c])
  /\ \A a \in Address : Synced(a)

-----------------------------------------------------------------------------
(* Programs                                                                *)

LEMMA SaveWritesAll == WritesAll(WriteFieldPara) /\ Followed(WriteFieldPara)
<1>1. /\ Len(WriteFieldPara) = 16
      /\ \A i \in 1 .. 16 : WriteFieldPara[i] = [do |-> IF i % 2 = 1 THEN "load" ELSE "write",
                                                 at |-> (i + 1) \div 2]
  <2> DEFINE e(i) == [do |-> IF i % 2 = 1 THEN "load" ELSE "write", at |-> (i + 1) \div 2]
  <2>1. WriteFieldPara = [i \in 1 .. 16 |-> e(i)] /\ WriteFieldPara \in Seq(Transfer)
    BY SaveTyped DEF WriteFieldPara
  <2> HIDE DEF e
  <2>2. Len(WriteFieldPara) = 16 /\ \A i \in 1 .. 16 : WriteFieldPara[i] = e(i)
    BY <2>1, LenProperties
  <2> QED
    BY <2>2 DEF e
<1>2. ASSUME NEW a \in Address
      PROVE  Writes(WriteFieldPara, a)
  <2>1. 2 * a \in 1 .. 16 /\ (2 * a) % 2 # 1 /\ (2 * a + 1) \div 2 = a
    BY DEF Address
  <2>2. WriteFieldPara[2 * a].do = "write" /\ WriteFieldPara[2 * a].at = a
    BY <1>1, <2>1
  <2> QED
    BY <1>1, <2>1, <2>2 DEF Writes
<1>3. \A i \in 1 .. 16 : WriteFieldPara[i].do \notin Assigning
  BY <1>1 DEF Assigning
<1> QED
  BY <1>1, <1>2, <1>3 DEF WritesAll, Followed

LEMMA FollowedConcat ==
  ASSUME NEW S, NEW p \in Seq(S), NEW q \in Seq(S), Followed(q), WritesAll(q) \/ Followed(p)
  PROVE  Followed(p \o q)
<1>1. /\ Len(p) \in Nat /\ Len(q) \in Nat
      /\ Len(p \o q) = Len(p) + Len(q)
      /\ \A i \in 1 .. Len(p) + Len(q) :
           (p \o q)[i] = IF i <= Len(p) THEN p[i] ELSE q[i - Len(p)]
  BY ConcatProperties, LenProperties
<1> SUFFICES ASSUME NEW i \in 1 .. Len(p \o q), (p \o q)[i].do \in Assigning, NEW a \in Address
             PROVE  \E j \in i + 1 .. Len(p \o q) : (p \o q)[j].do = "write" /\ (p \o q)[j].at = a
  BY DEF Followed
<1>2. ASSUME NEW k \in 1 .. Len(q), q[k].do = "write", q[k].at = a, Len(p) + k > i
      PROVE  \E j \in i + 1 .. Len(p \o q) : (p \o q)[j].do = "write" /\ (p \o q)[j].at = a
  <2>1. Len(p) + k \in i + 1 .. Len(p \o q) /\ (p \o q)[Len(p) + k] = q[k]
    <3>1. (Len(p) + k) - Len(p) = k /\ ~ (Len(p) + k <= Len(p)) /\ Len(p) + k \in 1 .. Len(p) + Len(q)
      BY <1>1
    <3> QED
      BY <1>1, <1>2, <3>1
  <2> QED
    BY <1>2, <2>1
<1>3. CASE i <= Len(p) /\ WritesAll(q)
  <2>1. PICK k \in 1 .. Len(q) : q[k].do = "write" /\ q[k].at = a
    BY <1>3 DEF WritesAll, Writes
  <2>2. Len(p) + k > i
    BY <1>1, <1>3
  <2> QED
    BY <1>2, <2>1, <2>2
<1>4. CASE i <= Len(p) /\ Followed(p)
  <2>1. i \in 1 .. Len(p) /\ (p \o q)[i] = p[i]
    BY <1>1, <1>4
  <2>2. PICK j \in i + 1 .. Len(p) : p[j].do = "write" /\ p[j].at = a
    BY <1>4, <2>1 DEF Followed
  <2>3. j \in i + 1 .. Len(p \o q) /\ (p \o q)[j] = p[j]
    BY <1>1, <2>1
  <2> QED
    BY <2>2, <2>3
<1>5. CASE i > Len(p)
  <2>1. i - Len(p) \in 1 .. Len(q) /\ (p \o q)[i] = q[i - Len(p)]
    BY <1>1, <1>5
  <2>2. PICK k \in (i - Len(p)) + 1 .. Len(q) : q[k].do = "write" /\ q[k].at = a
    BY <2>1 DEF Followed
  <2>3. k \in 1 .. Len(q) /\ Len(p) + k > i
    BY <1>1, <2>1
  <2> QED
    BY <1>2, <2>2, <2>3
<1> QED
  BY <1>1, <1>3, <1>4, <1>5

LEMMA FollowedQuiet ==
  ASSUME NEW S, NEW p \in Seq(S), \A x \in S : x.do \notin Assigning
  PROVE  Followed(p)
<1>1. \A i \in 1 .. Len(p) : p[i] \in S
  BY ElementOfSeq
<1> QED
  BY <1>1 DEF Followed

LEMMA FollowedTail ==
  ASSUME NEW S, NEW p \in Seq(S), p # <<>>
  PROVE  /\ Followed(p) => Followed(Tail(p))
         /\ Followed(p) /\ Head(p).do \in Assigning => WritesAll(Tail(p))
         /\ \A a : Writes(p, a) /\ ~ (Head(p).do = "write" /\ Head(p).at = a) => Writes(Tail(p), a)
<1> DEFINE t == Tail(p)
<1>1. /\ Head(p) = p[1] /\ Len(p) \in Nat /\ Len(p) >= 1
      /\ Len(t) = Len(p) - 1
      /\ \A i \in 1 .. Len(p) - 1 : t[i] = p[i + 1]
  BY TailIndices
<1> HIDE DEF t
<1>2. ASSUME NEW j \in 2 .. Len(p)
      PROVE  j - 1 \in 1 .. Len(t) /\ t[j - 1] = p[j]
  <2>1. j - 1 \in 1 .. Len(p) - 1 /\ (j - 1) + 1 = j
    BY <1>1
  <2> QED
    BY <1>1, <2>1
<1>3. ASSUME NEW a, Writes(p, a), ~ (Head(p).do = "write" /\ Head(p).at = a)
      PROVE  Writes(t, a)
  <2>1. PICK j \in 1 .. Len(p) : p[j].do = "write" /\ p[j].at = a
    BY <1>3 DEF Writes
  <2>2. j \in 2 .. Len(p)
    BY <1>1, <1>3, <2>1
  <2>3. j - 1 \in 1 .. Len(t) /\ t[j - 1].do = "write" /\ t[j - 1].at = a
    BY <1>2, <2>1, <2>2
  <2> QED
    BY <2>3 DEF Writes
<1>4. ASSUME Followed(p), Head(p).do \in Assigning, NEW a \in Address
      PROVE  Writes(t, a)
  <2>1. 1 \in 1 .. Len(p) /\ p[1].do \in Assigning
    BY <1>1, <1>4
  <2>2. PICK j \in 1 + 1 .. Len(p) : p[j].do = "write" /\ p[j].at = a
    BY <1>4, <2>1 DEF Followed
  <2>3. j \in 2 .. Len(p)
    BY <1>1
  <2>4. j - 1 \in 1 .. Len(t) /\ t[j - 1].do = "write" /\ t[j - 1].at = a
    BY <1>2, <2>2, <2>3
  <2> QED
    BY <2>4 DEF Writes
<1>5. ASSUME Followed(p), NEW i \in 1 .. Len(t), t[i].do \in Assigning, NEW a \in Address
      PROVE  \E j \in i + 1 .. Len(t) : t[j].do = "write" /\ t[j].at = a
  <2>1. i + 1 \in 1 .. Len(p) /\ t[i] = p[i + 1]
    BY <1>1
  <2>2. PICK j \in (i + 1) + 1 .. Len(p) : p[j].do = "write" /\ p[j].at = a
    BY <1>5, <2>1 DEF Followed
  <2>3. j \in 2 .. Len(p) /\ j - 1 \in i + 1 .. Len(t)
    BY <1>1
  <2>4. t[j - 1].do = "write" /\ t[j - 1].at = a
    BY <1>2, <2>2, <2>3
  <2> QED
    BY <2>3, <2>4
<1> QED
  BY <1>3, <1>4, <1>5 DEF t, WritesAll, Followed

LEMMA RequestsFollowed ==
  /\ \A p \in [Zone -> Values] : Followed(WebForm(p))
  /\ Followed(systemDefault)
  /\ \A n \in u8, v \in Values : Followed(SetParas(n, v))
  /\ Followed(SavePage)
  /\ Followed(<<>>)
<1>1. \A c : WriteFieldPara \in Seq(Own(c))
  BY RequestsTyped
<1>2. ASSUME NEW p \in [Zone -> Values]
      PROVE  Followed(WebForm(p))
  <2> DEFINE s == << [do |-> "form", to |-> p] >>
  <2>1. s \in Seq(Own("web"))
    <3>1. [do |-> "form", to |-> p] \in Own("web")
      BY DEF Own, Filling
    <3> QED
      BY <3>1, SingleTyped
  <2>2. WebForm(p) = s \o WriteFieldPara
    BY DEF WebForm
  <2> HIDE DEF s
  <2> QED
    BY <1>1, <2>1, <2>2, FollowedConcat, SaveWritesAll
<1>3. Followed(systemDefault)
  <2> DEFINE S == {x \in Own("web") : x.do \in Wiping}
             e(i) == [do |-> "erase", at |-> i]
  <2>2. \A i \in 1..4 : e(i) \in S
    <3>1. \A i \in 1..4 : i \in Address
      BY DEF Address
    <3>2. \A i \in 1..4 : e(i) \in Erasing
      BY <3>1 DEF Erasing
    <3> QED
      BY <3>2 DEF Own, Wiping
  <2>3. Do("reset") \in S
    BY DEF Own, Erasing, Wiping, Do
  <2>4. EraseFieldPara = [i \in 1..4 |-> e(i)]
    BY DEF EraseFieldPara
  <2>5. \A x \in S : x.do \notin Assigning
    BY DEF Wiping, Assigning
  <2> HIDE DEF S, e
  <2>6. EraseFieldPara \in Seq(S) /\ << Do("reset") >> \in Seq(S)
    BY <2>2, <2>3, <2>4, SingleTyped
  <2>7. systemDefault \in Seq(S)
    BY <2>6, ConcatProperties DEF systemDefault
  <2> QED
    BY <2>5, <2>7, FollowedQuiet
<1>4. ASSUME NEW n \in u8, NEW v \in Values
      PROVE  Followed(SetParas(n, v))
  <2> DEFINE S == Own("tcp")
             W == WriteFieldPara
             x == [do |-> "renumber", num |-> n, to |-> v]
             y == [do |-> "delay", to |-> v]
             z == [do |-> "sens", to |-> v]
             p == <<x>> \o W \o <<y>> \o W \o <<z>>
  <2>1. x \in S /\ y \in S /\ z \in S
    <3>1. x \in Commanding /\ y \in Commanding /\ z \in Commanding
      BY DEF Commanding
    <3> QED
      BY <3>1 DEF Own
  <2>2. SetParas(n, v) = p \o W
    BY DEF SetParas
  <2>3. W \in Seq(S) /\ Followed(W) /\ WritesAll(W)
    BY <1>1, SaveWritesAll
  <2> HIDE DEF S, x, y, z, W
  <2>4. <<x>> \in Seq(S) /\ <<y>> \in Seq(S) /\ <<z>> \in Seq(S)
    BY <2>1, SingleTyped
  <2>5. p \in Seq(S)
    <3>1. <<x>> \o W \in Seq(S)
      BY <2>3, <2>4, ConcatProperties
    <3>2. <<x>> \o W \o <<y>> \in Seq(S)
      BY <2>4, <3>1, ConcatProperties
    <3>3. <<x>> \o W \o <<y>> \o W \in Seq(S)
      BY <2>3, <3>2, ConcatProperties
    <3> QED
      BY <2>4, <3>3, ConcatProperties
  <2> HIDE DEF p
  <2> QED
    BY <2>2, <2>3, <2>5, FollowedConcat
<1>5. Followed(SavePage)
  <2> DEFINE S == Own("lcd")
             W == WriteFieldPara
             e(i) == [do |-> "copy", param |-> Row[i]]
             copies == [i \in 1..3 |-> e(i)]
             p == copies \o W \o W
             l == Do("leave")
  <2>1. \A i \in 1..3 : e(i) \in S
    <3>1. \A i \in 1..3 : Row[i] \in Param
      BY DEF Row, Param
    <3>2. \A i \in 1..3 : e(i) \in Copying
      BY <3>1 DEF Copying
    <3> QED
      BY <3>2 DEF Own
  <2>2. l \in S /\ l.do \notin Assigning
    BY DEF Own, Copying, Do, Assigning
  <2>3. SavePage = (p \o W) \o <<l>>
    BY DEF SavePage
  <2>4. W \in Seq(S) /\ Followed(W) /\ WritesAll(W)
    BY <1>1, SaveWritesAll
  <2> HIDE DEF S, e, W
  <2>5. copies \in Seq(S)
    BY <2>1
  <2> HIDE DEF copies
  <2>6. p \in Seq(S)
    <3>1. copies \o W \in Seq(S)
      BY <2>4, <2>5, ConcatProperties
    <3> QED
      BY <2>4, <3>1, ConcatProperties
  <2> HIDE DEF p, l
  <2>7. Followed(p \o W) /\ p \o W \in Seq(S)
    BY <2>4, <2>6, FollowedConcat, ConcatProperties
  <2>8. <<l>> \in Seq(S) /\ Followed(<<l>>)
    <3> DEFINE T == {l}
    <3>1. l \in T /\ \A x \in T : x.do \notin Assigning
      BY <2>2
    <3> HIDE DEF T
    <3>2. <<l>> \in Seq(T)
      BY <3>1, SingleTyped
    <3>3. Followed(<<l>>)
      BY <3>1, <3>2, FollowedQuiet
    <3> QED
      BY <2>2, <3>3, SingleTyped
  <2>9. Followed((p \o W) \o <<l>>)
    BY <2>7, <2>8, FollowedConcat
  <2> QED
    BY <2>3, <2>9
<1>6. Followed(<<>>)
  BY EmptySeq DEF Followed
<1> QED
  BY <1>2, <1>3, <1>4, <1>5, <1>6

-----------------------------------------------------------------------------
(* Bytes                                                                   *)

LEMMA EightBytes ==
  ASSUME NEW p
  PROVE  /\ ByteOf(p, 1) = p["A"].num /\ ByteOf(p, 2) = p["A"].delay \div 256
         /\ ByteOf(p, 3) = p["A"].delay % 256 /\ ByteOf(p, 4) = p["A"].sens
         /\ ByteOf(p, 5) = p["B"].num /\ ByteOf(p, 6) = p["B"].delay \div 256
         /\ ByteOf(p, 7) = p["B"].delay % 256 /\ ByteOf(p, 8) = p["B"].sens
<1>1. ASSUME NEW r, NEW b, b = <<r.num, r.delay \div 256, r.delay % 256, r.sens>>
      PROVE  /\ b[1] = r.num /\ b[2] = r.delay \div 256
             /\ b[3] = r.delay % 256 /\ b[4] = r.sens
  BY <1>1
<1>2. /\ ((1 - 1) % 4) + 1 = 1 /\ ((2 - 1) % 4) + 1 = 2
      /\ ((3 - 1) % 4) + 1 = 3 /\ ((4 - 1) % 4) + 1 = 4
      /\ ((5 - 1) % 4) + 1 = 1 /\ ((6 - 1) % 4) + 1 = 2
      /\ ((7 - 1) % 4) + 1 = 3 /\ ((8 - 1) % 4) + 1 = 4
  OBVIOUS
<1>3. /\ \A a \in {1, 2, 3, 4} : ZoneOf(a) = "A"
      /\ \A a \in {5, 6, 7, 8} : ZoneOf(a) = "B"
  BY DEF ZoneOf
<1> DEFINE b(z) == <<p[z].num, p[z].delay \div 256, p[z].delay % 256, p[z].sens>>
<1>4. /\ \A a \in {1, 2, 3, 4} : ByteOf(p, a) = b("A")[((a - 1) % 4) + 1]
      /\ \A a \in {5, 6, 7, 8} : ByteOf(p, a) = b("B")[((a - 1) % 4) + 1]
  BY <1>3 DEF ByteOf
<1>5. \A z : /\ b(z)[1] = p[z].num /\ b(z)[2] = p[z].delay \div 256
             /\ b(z)[3] = p[z].delay % 256 /\ b(z)[4] = p[z].sens
  BY <1>1
<1> HIDE DEF b
<1> QED
  BY <1>2, <1>4, <1>5

LEMMA EightRead ==
  /\ ReadFieldPara = [z \in Zone |-> ReadFieldPara[z]]
  /\ ReadFieldPara["A"] = [num |-> bytes[1], delay |-> 256 * bytes[2] + bytes[3], sens |-> bytes[4]]
  /\ ReadFieldPara["B"] = [num |-> bytes[5], delay |-> 256 * bytes[6] + bytes[7], sens |-> bytes[8]]
<1>1. AddressOf("A") = 1 /\ AddressOf("B") = 5
  BY DEF AddressOf
<1>2. /\ 1 + 1 = 2 /\ 1 + 2 = 3 /\ 1 + 3 = 4
      /\ 5 + 1 = 6 /\ 5 + 2 = 7 /\ 5 + 3 = 8
  OBVIOUS
<1>3. \A z \in Zone : ReadFieldPara[z] =
        [num |-> bytes[AddressOf(z)],
         delay |-> 256 * bytes[AddressOf(z) + 1] + bytes[AddressOf(z) + 2],
         sens |-> bytes[AddressOf(z) + 3]]
  BY DEF ReadFieldPara
<1>4. ReadFieldPara = [z \in Zone |-> ReadFieldPara[z]]
  BY DEF ReadFieldPara
<1>5. "A" \in Zone /\ "B" \in Zone
  BY DEF Zone
<1> QED
  BY <1>1, <1>2, <1>3, <1>4, <1>5

\* What was read is what is stored.
LEMMA ReadBack ==
  ASSUME bytes \in [Address -> u8], NEW a \in Address
  PROVE  ByteOf(ReadFieldPara, a) = bytes[a]
<1>1. \A i \in {1, 2, 3, 4, 5, 6, 7, 8} : bytes[i] \in u8
  BY DEF Address
<1>2. /\ (256 * bytes[2] + bytes[3]) \div 256 = bytes[2]
      /\ (256 * bytes[2] + bytes[3]) % 256 = bytes[3]
      /\ (256 * bytes[6] + bytes[7]) \div 256 = bytes[6]
      /\ (256 * bytes[6] + bytes[7]) % 256 = bytes[7]
  BY <1>1, Halves
<1> DEFINE p == ReadFieldPara
<1>3. /\ p["A"].num = bytes[1] /\ p["A"].delay = 256 * bytes[2] + bytes[3] /\ p["A"].sens = bytes[4]
      /\ p["B"].num = bytes[5] /\ p["B"].delay = 256 * bytes[6] + bytes[7] /\ p["B"].sens = bytes[8]
  BY EightRead
<1> HIDE DEF p
<1>4. \A i \in {1, 2, 3, 4, 5, 6, 7, 8} : ByteOf(p, i) = bytes[i]
  BY <1>2, <1>3, EightBytes
<1>5. a \in {1, 2, 3, 4, 5, 6, 7, 8}
  BY DEF Address
<1> QED
  BY <1>4, <1>5 DEF p

\* What is stored byte by byte is read as it was.
LEMMA ReadSame ==
  ASSUME para \in [Zone -> Setting], \A a \in Address : bytes[a] = ByteOf(para, a)
  PROVE  ReadFieldPara = para
<1>1. \A i \in {1, 2, 3, 4, 5, 6, 7, 8} : bytes[i] = ByteOf(para, i)
  BY DEF Address
<1>2. /\ bytes[1] = para["A"].num /\ bytes[2] = para["A"].delay \div 256
      /\ bytes[3] = para["A"].delay % 256 /\ bytes[4] = para["A"].sens
      /\ bytes[5] = para["B"].num /\ bytes[6] = para["B"].delay \div 256
      /\ bytes[7] = para["B"].delay % 256 /\ bytes[8] = para["B"].sens
  BY <1>1, EightBytes
<1>3. para["A"] \in Setting /\ para["B"] \in Setting
  BY DEF Zone
<1>4. ASSUME NEW r \in Setting
      PROVE  [num |-> r.num, delay |-> 256 * (r.delay \div 256) + (r.delay % 256), sens |-> r.sens] = r
  <2>1. 256 * (r.delay \div 256) + (r.delay % 256) = r.delay
    BY Fields, Halves
  <2>2. r = [num |-> r.num, delay |-> r.delay, sens |-> r.sens]
    BY DEF Setting
  <2> QED
    BY <2>1, <2>2
<1>5. ReadFieldPara["A"] = para["A"] /\ ReadFieldPara["B"] = para["B"]
  BY <1>2, <1>3, <1>4, EightRead
<1>6. \A z \in Zone : ReadFieldPara[z] = para[z]
  BY <1>5 DEF Zone
<1>7. para = [z \in Zone |-> para[z]]
  OBVIOUS
<1> QED
  BY <1>6, <1>7, EightRead

-----------------------------------------------------------------------------
(* Steps                                                                   *)

LEMMA StepFollowed ==
  ASSUME Typed, \A d \in Task : Followed(prog[d]), NEW c \in Task, Runs(c), Go(c)
  PROVE  \A d \in Task : Followed(prog'[d])
<1>1. prog' = [d \in Task |-> IF d = c THEN Tail(prog[c]) ELSE prog[d]]
  BY DueOwn
<1>2. Followed(Tail(prog[c]))
  BY FollowedTail DEF Typed, Runs
<1> QED
  BY <1>1, <1>2

\* What is still to be written, as long as the step due is not the writing.
LEMMA WritesStay ==
  ASSUME Typed, NEW c \in Task, Runs(c), Go(c), NEW a,
         ~ (Due(c).do = "write" /\ Due(c).at = a), \E d \in Task : Writes(prog[d], a)
  PROVE  \E d \in Task : Writes(prog'[d], a)
<1>1. PICK d \in Task : Writes(prog[d], a)
  OBVIOUS
<1>2. prog' = [e \in Task |-> IF e = c THEN Tail(prog[c]) ELSE prog[e]]
  BY DueOwn
<1>3. CASE d = c
  <2>1. Writes(Tail(prog[c]), a)
    BY <1>1, <1>3, FollowedTail DEF Typed, Runs, Due
  <2> QED
    BY <1>2, <2>1
<1>4. CASE d # c
  <2>1. prog'[d] = prog[d]
    BY <1>2, <1>4
  <2> QED
    BY <1>1, <2>1
<1> QED
  BY <1>3, <1>4

\* systemDefault goes on erasing until it resets.
LEMMA WipingStays ==
  ASSUME IInv, Typed, NEW c \in Task, Runs(c), Go(c), Due(c).do # "reset",
         "web" \in User, ~ Tame(prog["web"])
  PROVE  ~ Tame(prog'["web"])
<1>1. prog' = [e \in Task |-> IF e = c THEN Tail(prog[c]) ELSE prog[e]]
  BY DueOwn
<1>2. CASE c # "web"
  BY <1>1, <1>2, Tasks
<1>3. CASE c = "web"
  <2>1. PICK k \in 0 .. 4 : prog["web"] = Wipe(k)
    BY DEF IInv, Programs
  <2>2. Head(Wipe(k)).do = "erase"
    BY <1>3, <2>1, WipeSteps DEF Due, Wiping
  <2>3. k \in 0 .. 3 /\ Tail(Wipe(k)) = Wipe(k + 1)
    BY <2>2, WipeSteps
  <2>4. prog'["web"] = Wipe(k + 1)
    BY <1>1, <1>3, <2>1, <2>3
  <2>5. k + 1 \in 0 .. 4
    BY <2>3
  <2>6. Wipe(k + 1) # <<>> /\ Head(Wipe(k + 1)).do \in Wiping
    BY <2>5, WipeSteps
  <2>7. ~ Tame(Wipe(k + 1))
    BY <2>6, TameTail
  <2> QED
    BY <2>4, <2>7
<1> QED
  BY <1>2, <1>3

LEMMA StepSynced ==
  ASSUME PInv, NEW c \in Task,
         \/ Load(c) \/ Write(c) \/ Erase(c) \/ Form(c) \/ Renumber(c) \/ SetDelay(c)
         \/ SetSensitivity(c) \/ CopyBack(c) \/ Leave(c)
  PROVE  (\A d \in Task : Followed(prog[d]))' /\ (\A a \in Address : Synced(a))'
<1>1. Runs(c) /\ Go(c) /\ Due(c).do # "reset"
  BY DEF Load, Write, Erase, Form, Renumber, SetDelay, SetSensitivity, CopyBack, Leave, Step
<1>2. \A d \in Task : Followed(prog'[d])
  BY <1>1, StepFollowed DEF PInv
<1>3. "web" \in User /\ ~ Tame(prog["web"]) => "web" \in User /\ ~ Tame(prog'["web"])
  BY <1>1, WipingStays DEF PInv
<1> SUFFICES ASSUME NEW a \in Address
             PROVE  Synced(a)'
  BY <1>2
<1>4. CASE Load(c) \/ Leave(c)
  <2>1. UNCHANGED <<bytes, para, stale>> /\ Due(c).do # "write"
    BY <1>4 DEF Load, Leave, Step
  <2>2. (\E d \in Task : Writes(prog[d], a)) => \E d \in Task : Writes(prog'[d], a)
    BY <1>1, <2>1, WritesStay DEF PInv
  <2> QED
    BY <1>3, <2>1, <2>2 DEF PInv, Synced
<1>5. CASE Write(c)
  <2>1. /\ Due(c).do = "write" /\ para' = para
        /\ bytes' = [bytes EXCEPT ![Due(c).at] = held[c]]
        /\ stale' = IF held[c] = ByteOf(para, Due(c).at) THEN stale \ {Due(c).at}
                    ELSE stale \cup {Due(c).at}
    BY <1>5 DEF Write, Step
  <2>2. CASE a = Due(c).at
    <3>1. bytes'[a] = held[c]
      BY <2>1, <2>2 DEF PInv, Sound
    <3>2. bytes'[a] = ByteOf(para', a) \/ a \in stale'
      BY <2>1, <2>2, <3>1
    <3> QED
      BY <3>2 DEF Synced
  <2>3. CASE a # Due(c).at
    <3>1. bytes'[a] = bytes[a] /\ (a \in stale => a \in stale')
      BY <2>1, <2>3 DEF PInv, Sound
    <3>2. (\E d \in Task : Writes(prog[d], a)) => \E d \in Task : Writes(prog'[d], a)
      BY <1>1, <2>3, WritesStay DEF PInv
    <3> QED
      BY <1>3, <2>1, <3>1, <3>2 DEF PInv, Synced
  <2> QED
    BY <2>2, <2>3
<1>6. CASE Erase(c)
  <2>1. Due(c).do = "erase"
    BY <1>6 DEF Erase, Step
  <2>2. c = "web"
    BY <1>1, <2>1, DueOwn, OwnKinds DEF PInv
  <2>3. "web" \in User
    BY <2>2, Tasks
  <2>4. ~ Tame(prog["web"])
    BY <1>1, <2>1, <2>2, TameTail DEF Runs, Due, Wiping
  <2> QED
    BY <1>3, <2>3, <2>4 DEF Synced
<1>7. CASE Form(c) \/ Renumber(c) \/ SetDelay(c) \/ SetSensitivity(c) \/ CopyBack(c)
  <2>1. Due(c).do \in Assigning
    BY <1>7 DEF Form, Renumber, SetDelay, SetSensitivity, CopyBack, Step, Assigning
  <2>2. WritesAll(Tail(prog[c]))
    BY <1>1, <2>1, FollowedTail DEF PInv, Typed, Runs, Due
  <2>3. prog'[c] = Tail(prog[c])
    BY <1>1, DueOwn DEF PInv
  <2>4. \E d \in Task : Writes(prog'[d], a)
    BY <2>2, <2>3 DEF WritesAll
  <2> QED
    BY <2>4 DEF Synced
<1> QED
  BY <1>4, <1>5, <1>6, <1>7

LEMMA StartSynced ==
  ASSUME Sound, Started
  PROVE  (\A d \in Task : Followed(prog[d]))' /\ (\A a \in Address : Synced(a))'
<1>1. /\ para' = IF LooksErased THEN Factory ELSE ReadFieldPara
      /\ prog' = [c \in Task |-> IF c = "start" /\ LooksErased THEN WriteFieldPara ELSE <<>>]
      /\ bytes' = bytes
  BY DEF Started
<1>2. \A d \in Task : Followed(prog'[d])
  BY <1>1, SaveWritesAll, RequestsFollowed
<1>3. ASSUME NEW a \in Address
      PROVE  Synced(a)'
  <2>1. CASE LooksErased
    <3>1. prog'["start"] = WriteFieldPara
      BY <1>1, <2>1, Tasks
    <3>2. \E d \in Task : Writes(prog'[d], a)
      BY <3>1, SaveWritesAll, Tasks DEF WritesAll
    <3> QED
      BY <3>2 DEF Synced
  <2>2. CASE ~ LooksErased
    <3>1. bytes'[a] = ByteOf(para', a)
      BY <1>1, <2>2, ReadBack DEF Sound
    <3> QED
      BY <3>1 DEF Synced
  <2> QED
    BY <2>1, <2>2
<1> QED
  BY <1>2, <1>3

LEMMA InitSynced ==
  ASSUME Init
  PROVE  (\A d \in Task : Followed(prog[d])) /\ (\A a \in Address : Synced(a))
<1>1. prog = [c \in Task |-> IF c = "start" THEN WriteFieldPara ELSE <<>>]
  BY DEF Init
<1>2. \A d \in Task : Followed(prog[d])
  BY <1>1, SaveWritesAll, RequestsFollowed
<1>3. prog["start"] = WriteFieldPara
  BY <1>1, Tasks
<1>4. \A a \in Address : \E d \in Task : Writes(prog[d], a)
  BY <1>3, SaveWritesAll, Tasks DEF WritesAll
<1> QED
  BY <1>2, <1>4 DEF Synced

\* A task that had nothing to do, nothing to write either, is given a program.
LEMMA BegunSynced ==
  ASSUME PInv, NEW c \in User, Idle(c), NEW p, Followed(p),
         prog' = [prog EXCEPT ![c] = p], UNCHANGED <<para, bytes, stale>>
  PROVE  (\A d \in Task : Followed(prog[d]))' /\ (\A a \in Address : Synced(a))'
<1>1. prog' = [d \in Task |-> IF d = c THEN p ELSE prog[d]] /\ prog[c] = <<>>
  BY DEF PInv, Typed, Idle
<1>2. \A d \in Task : Followed(prog'[d])
  BY <1>1 DEF PInv
<1>3. ASSUME NEW a \in Address, \E d \in Task : Writes(prog[d], a)
      PROVE  \E d \in Task : Writes(prog'[d], a)
  <2>1. PICK d \in Task : Writes(prog[d], a)
    BY <1>3
  <2>2. d # c
    BY <1>1, <2>1, EmptySeq DEF Writes
  <2>3. prog'[d] = prog[d]
    BY <1>1, <2>2
  <2> QED
    BY <2>1, <2>3
<1>4. ASSUME "web" \in User, ~ Tame(prog["web"])
      PROVE  ~ Tame(prog'["web"])
  <2>1. c # "web"
    BY <1>1, <1>4, TameEmpty
  <2> QED
    BY <1>1, <1>4, <2>1, Tasks
<1>5. ASSUME NEW a \in Address
      PROVE  Synced(a)'
  BY <1>3, <1>4 DEF PInv, Synced
<1> QED
  BY <1>2, <1>5

LEMMA NextSynced ==
  ASSUME PInv, [Next]_vars
  PROVE  PInv'
<1>1. IInv' /\ Sound' /\ Typed'
  BY Kept, NextSound DEF PInv
<1> SUFFICES (\A d \in Task : Followed(prog[d]))' /\ (\A a \in Address : Synced(a))'
  BY <1>1 DEF PInv
<1>2. ASSUME NEW c \in Task,
             \/ Load(c) \/ Write(c) \/ Erase(c) \/ Form(c) \/ Renumber(c) \/ SetDelay(c)
             \/ SetSensitivity(c) \/ CopyBack(c) \/ Leave(c)
      PROVE  (\A d \in Task : Followed(prog[d]))' /\ (\A a \in Address : Synced(a))'
  BY <1>2, StepSynced
<1>3. CASE PowerCycle \/ \E c \in Task : Reset(c)
  BY <1>3, StartSynced DEF PowerCycle, Reset, PInv
<1>4. CASE WebSets
  <2>1. PICK p \in [Zone -> Values] : Ask("web", WebForm(p))
    BY <1>4 DEF WebSets
  <2>2. "web" \in User /\ Followed(WebForm(p))
    BY <1>4, RequestsFollowed DEF WebSets
  <2> QED
    BY <2>1, <2>2, BegunSynced DEF Ask
<1>5. CASE WebDefault
  <2>1. "web" \in User /\ Followed(systemDefault) /\ Ask("web", systemDefault)
    BY <1>5, RequestsFollowed DEF WebDefault
  <2> QED
    BY <2>1, BegunSynced DEF Ask
<1>6. CASE TcpSets
  <2>1. PICK n \in {para[z].num : z \in Zone}, v \in Values : Ask("tcp", SetParas(n, v))
    BY <1>6 DEF TcpSets
  <2>2. n \in u8
    BY Fields DEF PInv, Sound
  <2>3. "tcp" \in User /\ Followed(SetParas(n, v))
    BY <1>6, <2>2, RequestsFollowed DEF TcpSets
  <2> QED
    BY <2>1, <2>3, BegunSynced DEF Ask
<1>7. ASSUME UNCHANGED <<para, bytes, stale, prog>>
      PROVE  (\A d \in Task : Followed(prog[d]))' /\ (\A a \in Address : Synced(a))'
  BY <1>7 DEF PInv, Synced
<1>8. CASE \/ ShowList \/ (\E z \in Zone : OpenPage(z)) \/ (\E r \in DOMAIN Row : EnterEdit(r))
           \/ Change \/ Escape
  <2>1. UNCHANGED <<para, bytes, stale, prog>>
    BY <1>8 DEF ShowList, OpenPage, EnterEdit, Change, Escape, Key
  <2> QED
    BY <1>7, <2>1
<1>9. CASE EnterSave
  <2>1. "lcd" \in User /\ Idle("lcd") /\ prog' = [prog EXCEPT !["lcd"] = SavePage]
        /\ UNCHANGED <<para, bytes, stale>>
    BY <1>9 DEF EnterSave
  <2> QED
    BY <2>1, BegunSynced, RequestsFollowed
<1>10. CASE UNCHANGED vars
  <2>1. UNCHANGED <<para, bytes, stale, prog>>
    BY <1>10 DEF vars
  <2> QED
    BY <1>7, <2>1
<1> QED
  BY <1>2, <1>3, <1>4, <1>5, <1>6, <1>8, <1>9, <1>10 DEF Next

\* A power failure while nobody is saving changes no parameter, whoever set
\* them and in which turn, but for bytes known to be written late and a zone A
\* that looks erased: every assignment is followed by the writing of every
\* byte, and what is read back from the bytes of a value is the value.
THEOREM PowerCycleIsHarmless == Spec => PowerCycleKeeps
<1>1. ASSUME PInv, PowerCycle, AtRest, stale = {}, ~ LooksErased
      PROVE  para' = para
  <2>1. para' = ReadFieldPara
    BY <1>1 DEF PowerCycle, Started
  <2>2. \A c \in Task : prog[c] = <<>>
    BY <1>1 DEF AtRest
  <2>3. ASSUME NEW a \in Address
        PROVE  bytes[a] = ByteOf(para, a)
    <3>1. \A c \in Task : ~ Writes(prog[c], a)
      BY <2>2, EmptySeq DEF Writes
    <3>2. "web" \in User => Tame(prog["web"])
      BY <2>2, TameEmpty, Tasks
    <3>3. Synced(a)
      BY <1>1 DEF PInv
    <3> QED
      BY <1>1, <3>1, <3>2, <3>3 DEF Synced
  <2> QED
    BY <1>1, <2>1, <2>3, ReadSame DEF PInv, Sound
<1>2. PInv /\ [Next]_vars =>
        [PowerCycle /\ AtRest /\ stale = {} /\ ~ LooksErased => para' = para]_vars
  BY <1>1
<1>3. Init => PInv
  BY Beginning, InitSound, InitSynced DEF PInv
<1>4. PInv /\ [Next]_vars => PInv'
  BY NextSynced
<1> QED
  BY <1>2, <1>3, <1>4, PTL DEF Spec, PowerCycleKeeps
=============================================================================
