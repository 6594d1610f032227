------------------------------- MODULE Params -------------------------------
(***************************************************************************)
(* The parameters of the two zones: number, duration of the siren,         *)
(* sensitivity.  They stand in memory and, byte by byte, in the EEPROM.    *)
(* The web page sets all of them, the TCP server those of the zone with a  *)
(* number, the LCD pages by way of edit copies.  Every change writes all   *)
(* the bytes, one transfer each, and more urgent tasks and power failures  *)
(* come in between.  A start that finds the duration of zone A erased goes *)
(* back to the factory's parameters.                                       *)
(***************************************************************************)
EXTENDS Integers, Sequences, FiniteSets

CONSTANTS
  Number,      (* BOUND: zone numbers the operators choose from (1..80)      *)
  Delay,       (* BOUND: durations they choose from (u16; 1..999 on the LCD) *)
  Sensitivity, (* BOUND: sensitivities they choose from (u8; 1..10)          *)
  User,        (* who uses the host, out of "web", "lcd", "tcp"              *)
  Requests     (* BOUND: settings in a behaviour, edits included             *)

ERASED == 255

ASSUME ParamsAssumption ==
  /\ Number \subseteq Nat \ {0} /\ Number # {} /\ \A n \in Number : n < ERASED
  /\ Delay \subseteq Nat /\ Delay # {} /\ \A d \in Delay : d < 65536
  /\ Sensitivity \subseteq Nat /\ Sensitivity # {} /\ \A s \in Sensitivity : s < 256
  /\ User \subseteq {"web", "lcd", "tcp"}
  /\ Requests \in Nat

Zone == {"A", "B"}
Param == {"num", "delay", "sens"}
Row == <<"num", "delay", "sens">>           \* the rows of a zone's LCD page
Choice == [num |-> Number, delay |-> Delay, sens |-> Sensitivity]
\* "start" is ALARM_Init, before any task runs.
Task == {"start"} \cup User

VARIABLES
  para,     (* field_num, alarm_delay, alarm_sensitivity                     *)
  bytes,    (* the EEPROM from FieldParaAddr on                              *)
  prog,     (* per task: what it still has to do                             *)
  held,     (* per task: the byte it is about to write                       *)
  tmp,      (* field_num_temp, alarm_delay_temp, alarm_sensitivity_temp      *)
  page,     (* the LCD: the list of zones, or a zone's page                  *)
  row,      (* the row under edit; 0: flag_PageState is NormalState          *)
  (* history: *)
  stale,    (* bytes whose last writing was of an older value                *)
  touched,  (* values changed since the LCD copied them, on either side      *)
  meant,    (* whom the TCP command in hand is for; both: nobody can tell    *)
  fresh,    (* systemDefault was the last setting                            *)
  asked

lcd == <<tmp, page, row, touched>>
vars == <<para, bytes, prog, held, lcd, stale, meant, fresh, asked>>

-----------------------------------------------------------------------------
(* The EEPROM                                                              *)

\* Number, higher and lower byte of the duration, sensitivity: the first four
\* of the eight bytes of each zone.  ten_val_range follows and is left out:
\* it scales tensions.
Address == 1..8
ZoneOf(a) == IF a <= 4 THEN "A" ELSE "B"
AddressOf(z) == IF z = "A" THEN 1 ELSE 5

ByteOf(p, a) ==
  LET of == p[ZoneOf(a)] IN
  <<of.num, of.delay \div 256, of.delay % 256, of.sens>>[((a - 1) % 4) + 1]

\* ReadFieldParaFromEEProm.
ReadFieldPara ==
  [z \in Zone |->
    LET a == AddressOf(z) IN
    [num |-> bytes[a], delay |-> 256 * bytes[a + 1] + bytes[a + 2],
     sens |-> bytes[a + 3]]]

\* The values the variables are initialised with, numbers and durations set
\* again by the default branch of ALARM_Init.
Factory == [z \in Zone |-> [num |-> 0, delay |-> 30, sens |-> 4]]

LooksErased == bytes[2] = ERASED \/ bytes[3] = ERASED

-----------------------------------------------------------------------------
(* Programs                                                                *)

Do(what) == [do |-> what]

\* Mutant: the parameters of zone A alone are written.
WriteFieldPara_OneZone ==
  [i \in 1..8 |-> [do |-> IF i % 2 = 1 THEN "load" ELSE "write", at |-> (i + 1) \div 2]]

\* WriteFieldParaToEEProm.
WriteFieldPara ==
  [i \in 1..16 |-> [do |-> IF i % 2 = 1 THEN "load" ELSE "write", at |-> (i + 1) \div 2]]

\* Mutant: only the zone's number is erased.
EraseFieldPara_NumberOnly == << [do |-> "erase", at |-> 1] >>

\* EraseEEProm(FieldParaAddr, 4).
EraseFieldPara == [i \in 1..4 |-> [do |-> "erase", at |-> i]]

systemDefault == EraseFieldPara \o << Do("reset") >>

\* Control_CGI_Handler: the whole form, saved once.
WebForm(p) == << [do |-> "form", to |-> p] >> \o WriteFieldPara

\* Mutant: the duration set before the zone has its new number.
SetParas_DelayFirst(n, v) ==
  << [do |-> "delay", to |-> v] >> \o WriteFieldPara \o
  << [do |-> "renumber", num |-> n, to |-> v] >> \o WriteFieldPara \o
  << [do |-> "sens", to |-> v] >> \o WriteFieldPara

\* parse_reply_data, MSG_TYPE_SET_PARAS: modifyFieldNum, modifyAlarmDelay and
\* setAlarmSensitivity, the latter two by the new number.
SetParas(n, v) ==
  << [do |-> "renumber", num |-> n, to |-> v] >> \o WriteFieldPara \o
  << [do |-> "delay", to |-> v] >> \o WriteFieldPara \o
  << [do |-> "sens", to |-> v] >> \o WriteFieldPara

\* ENTER under edit: the three copies, then setFieldNum, setAlarmDelay and
\* WriteFieldParaToEEProm, each of which saves everything.
SavePage ==
  [i \in 1..3 |-> [do |-> "copy", param |-> Row[i]]] \o
  WriteFieldPara \o WriteFieldPara \o WriteFieldPara \o << Do("leave") >>

-----------------------------------------------------------------------------
(* Scheduling: the waits of a transfer do not give up the processor, so a  *)
(* task is only cut by more urgent ones, between any two steps.            *)

MoreUrgent(c) ==
  CASE c = "start" -> {}
    [] c = "web"   -> {"start"}
    [] c = "lcd"   -> {"start", "web"}
    [] c = "tcp"   -> {"start", "web", "lcd"}

Free(c) == \A d \in MoreUrgent(c) \cap Task : prog[d] = <<>>

Runs(c) == prog[c] # <<>> /\ Free(c)

Idle(c) == prog[c] = <<>> /\ Free(c)

Due(c) == Head(prog[c])

Step(c, what) == Runs(c) /\ Due(c).do = what

Go(c) == prog' = [prog EXCEPT ![c] = Tail(@)]

-----------------------------------------------------------------------------
(* The steps                                                               *)

Changed(p) == {v \in Param \X Zone : p[v[2]][v[1]] # para[v[2]][v[1]]}

\* The parameters become p: the LCD's copies are outdated, and a command that
\* goes by numbers loses its way.
Assign(c, p) ==
  /\ para' = p
  /\ touched' = IF c = "lcd" THEN touched \ ({Due(c).param} \X Zone)
                ELSE touched \cup Changed(p)
  /\ meant' = IF c # "tcp" /\ \E z \in Zone : <<"num", z>> \in Changed(p)
              THEN Zone ELSE meant

\* A byte is taken from memory before the bus is waited for.
Load(c) ==
  /\ Step(c, "load")
  /\ held' = [held EXCEPT ![c] = ByteOf(para, Due(c).at)]
  /\ Go(c)
  /\ UNCHANGED <<para, bytes, lcd, stale, meant, fresh, asked>>

Write(c) ==
  /\ Step(c, "write")
  /\ LET a == Due(c).at IN
       /\ bytes' = [bytes EXCEPT ![a] = held[c]]
       /\ stale' = IF held[c] = ByteOf(para, a) THEN stale \ {a} ELSE stale \cup {a}
  /\ held' = [held EXCEPT ![c] = 0]
  /\ Go(c)
  /\ UNCHANGED <<para, lcd, meant, fresh, asked>>

Erase(c) ==
  /\ Step(c, "erase")
  /\ bytes' = [bytes EXCEPT ![Due(c).at] = ERASED]
  /\ Go(c)
  /\ UNCHANGED <<para, held, lcd, stale, meant, fresh, asked>>

Form(c) ==
  /\ Step(c, "form")
  /\ Assign(c, Due(c).to)
  /\ Go(c)
  /\ UNCHANGED <<bytes, held, tmp, page, row, stale, fresh, asked>>

\* The zone a number stands for, as modifyFieldNum, modifyAlarmDelay,
\* modifyBFFlag and removeAlarmRL look it up: the first that has it, if any.
First(n) == IF para["A"].num = n THEN {"A"} ELSE {z \in {"B"} : para[z].num = n}

\* getFieldIndex: the second zone, if the first has another number.
FieldIndex(n) == IF para["A"].num = n THEN "A" ELSE "B"

Renumber(c) ==
  /\ Step(c, "renumber")
  /\ Assign(c, [z \in Zone |-> IF z \in First(Due(c).num)
                               THEN [para[z] EXCEPT !.num = Due(c).to.num] ELSE para[z]])
  /\ Go(c)
  /\ UNCHANGED <<bytes, held, tmp, page, row, stale, fresh, asked>>

SetDelay(c) ==
  /\ Step(c, "delay")
  /\ Assign(c, [z \in Zone |-> IF z \in First(Due(c).to.num)
                               THEN [para[z] EXCEPT !.delay = Due(c).to.delay] ELSE para[z]])
  /\ Go(c)
  /\ UNCHANGED <<bytes, held, tmp, page, row, stale, fresh, asked>>

SetSensitivity(c) ==
  /\ Step(c, "sens")
  /\ Assign(c, [para EXCEPT ![FieldIndex(Due(c).to.num)].sens = Due(c).to.sens])
  /\ Go(c)
  /\ UNCHANGED <<bytes, held, tmp, page, row, stale, fresh, asked>>

\* memcpy of one of the three arrays of copies, both zones'.
CopyBack(c) ==
  /\ Step(c, "copy")
  /\ Assign(c, [z \in Zone |-> [para[z] EXCEPT ![Due(c).param] = tmp[z][Due(c).param]]])
  /\ Go(c)
  /\ UNCHANGED <<bytes, held, tmp, page, row, stale, fresh, asked>>

Leave(c) ==
  /\ Step(c, "leave")
  /\ row' = 0
  /\ Go(c)
  /\ UNCHANGED <<para, bytes, held, tmp, page, touched, stale, meant, fresh, asked>>

-----------------------------------------------------------------------------
(* Starting                                                                *)

\* ALARM_Init.
Started ==
  /\ para' = IF LooksErased THEN Factory ELSE ReadFieldPara
  /\ prog' = [c \in Task |-> IF c = "start" /\ LooksErased THEN WriteFieldPara ELSE <<>>]
  /\ held' = [c \in Task |-> 0]
  /\ tmp' = [z \in Zone |-> [num |-> 0, delay |-> 30, sens |-> 0]]
  /\ page' = "out" /\ row' = 0
  /\ stale' = {} /\ touched' = {} /\ meant' = {}
  /\ UNCHANGED <<bytes, asked>>

Init ==
  /\ bytes = [a \in Address |-> ERASED]
  /\ para = Factory
  /\ prog = [c \in Task |-> IF c = "start" THEN WriteFieldPara ELSE <<>>]
  /\ held = [c \in Task |-> 0]
  /\ tmp = [z \in Zone |-> [num |-> 0, delay |-> 30, sens |-> 0]]
  /\ page = "out" /\ row = 0
  /\ stale = {} /\ touched = {} /\ meant = {}
  /\ fresh = FALSE
  /\ asked = 0

\* systemDefault ends in a reset.
Reset(c) == Step(c, "reset") /\ Started /\ fresh' = TRUE

\* The power fails and comes back, or any other reset.
PowerCycle ==
  /\ Started
  /\ fresh' = (fresh /\ \A c \in Task : prog[c] = <<>>)

-----------------------------------------------------------------------------
(* Operators                                                               *)

Ask(c, p) ==
  /\ asked < Requests /\ asked' = asked + 1
  /\ Idle(c)
  /\ prog' = [prog EXCEPT ![c] = p]
  /\ fresh' = FALSE
  /\ UNCHANGED <<para, bytes, held, stale, lcd>>

Values == [num : Number, delay : Delay, sens : Sensitivity]

WebSets ==
  /\ "web" \in User
  /\ \E p \in [Zone -> Values] : Ask("web", WebForm(p))
  /\ UNCHANGED meant

WebDefault ==
  /\ "web" \in User
  /\ Ask("web", systemDefault)
  /\ UNCHANGED meant

\* A number that no zone has is refused.
TcpSets ==
  /\ "tcp" \in User
  /\ \E n \in {para[z].num : z \in Zone} : \E v \in Values :
       /\ Ask("tcp", SetParas(n, v))
       /\ meant' = IF \E z \in Zone \ First(n) : para[z].num = v.num
                   THEN Zone ELSE First(n)

-----------------------------------------------------------------------------
(* The LCD pages                                                           *)

Key ==
  /\ "lcd" \in User
  /\ Idle("lcd")
  /\ UNCHANGED <<para, bytes, prog, held, stale, meant>>

\* Mutant: the list does not refresh the copies.
ListCopies_None == {}

\* DiaplaySetFangQuPara refreshes the copies of numbers and durations, so
\* that changing the number alone does not bring back another duration.
ListCopies == {"num", "delay"}

Copied(params) ==
  /\ tmp' = [z \in Zone |-> [q \in Param |-> IF q \in params THEN para[z][q] ELSE tmp[z][q]]]
  /\ touched' = touched \ (params \X Zone)

\* The list is shown: from the menu, on UP and DOWN, on ESC from a zone's page.
ShowList ==
  /\ Key
  /\ row = 0
  /\ page' = "list"
  /\ Copied(ListCopies)
  /\ UNCHANGED <<row, fresh, asked>>

OpenPage(z) ==
  /\ Key
  /\ page = "list"
  /\ page' = z
  /\ UNCHANGED <<tmp, row, touched, fresh, asked>>

\* ENTER on a row: the sensitivities are copied, and the row's own values.
EnterEdit(r) ==
  /\ Key
  /\ page \in Zone /\ row = 0
  /\ asked < Requests /\ asked' = asked + 1
  /\ row' = r
  /\ Copied({"sens", Row[r]})
  /\ fresh' = FALSE
  /\ UNCHANGED page

\* UP and DOWN, as often as it takes.
Change ==
  /\ Key
  /\ row # 0
  /\ \E v \in Choice[Row[row]] : tmp' = [tmp EXCEPT ![page][Row[row]] = v]
  /\ touched' = touched \cup {<<Row[row], page>>}
  /\ UNCHANGED <<page, row, fresh, asked>>

\* ESC gives the edit up: the copies stay as they are.
Escape ==
  /\ Key
  /\ row # 0
  /\ row' = 0
  /\ UNCHANGED <<tmp, page, touched, fresh, asked>>

EnterSave ==
  /\ "lcd" \in User
  /\ Idle("lcd")
  /\ row # 0
  /\ prog' = [prog EXCEPT !["lcd"] = SavePage]
  /\ UNCHANGED <<para, bytes, held, lcd, stale, meant, fresh, asked>>

-----------------------------------------------------------------------------
Next ==
  \/ \E c \in Task :
       \/ Load(c)
       \/ Write(c)
       \/ Erase(c)
       \/ Form(c)
       \/ Renumber(c)
       \/ SetDelay(c)
       \/ SetSensitivity(c)
       \/ CopyBack(c)
       \/ Leave(c)
       \/ Reset(c)
  \/ PowerCycle
  \/ WebSets
  \/ WebDefault
  \/ TcpSets
  \/ ShowList
  \/ \E z \in Zone : OpenPage(z)
  \/ \E r \in DOMAIN Row : EnterEdit(r)
  \/ Change
  \/ Escape
  \/ EnterSave

Spec == Init /\ [][Next]_vars

-----------------------------------------------------------------------------
(* Properties                                                              *)

u8 == 0..255
u16 == 0..65535
Setting == [num : u8, delay : u16, sens : u8]

TypeOK ==
  /\ para \in [Zone -> Setting]
  /\ bytes \in [Address -> u8]
  /\ \A c \in Task : \A i \in DOMAIN prog[c] :
       prog[c][i].do \in {"load", "write", "erase", "form", "renumber", "delay",
                          "sens", "copy", "leave", "reset"}
  /\ held \in [Task -> u8]
  /\ tmp \in [Zone -> Setting]
  /\ page \in {"out", "list"} \cup Zone
  /\ row \in 0..3 /\ (row # 0 => page \in Zone)
  /\ stale \in SUBSET Address
  /\ touched \in SUBSET (Param \X Zone)
  /\ meant \in SUBSET Zone
  /\ fresh \in BOOLEAN
  /\ asked \in 0..Requests

AtRest == \A c \in Task : prog[c] = <<>>

\* A power failure while nobody is saving changes no parameter, whoever set
\* them and in which turn: excepted are a byte written late, over that of a
\* more urgent task, and a duration of zone A one of whose bytes is 0xFF
\* (255 s): ALARM_Init takes it for an erased EEPROM.
PowerCycleKeeps ==
  [][PowerCycle /\ AtRest /\ stale = {} /\ ~ LooksErased => para' = para]_vars

\* After systemDefault both zones have the factory's parameters until somebody
\* sets others, also after further starts, though only four of the sixteen
\* bytes are erased; unless the power fails while the start is saving them.
DefaultHolds == fresh => para = Factory

Only(c, q) ==
  \A z \in Zone : para'[z][q] = IF z \in meant THEN Due(c).to[q] ELSE para[z][q]

\* The duration and the sensitivity of a TCP command reach the zone that had
\* its number, and that zone only; unless the new number is the other zone's,
\* or another task changes a number meanwhile (parse_reply_data).
CommandHitsZone ==
  [][\A c \in Task : meant # Zone =>
       /\ SetDelay(c) => Only(c, "delay")
       /\ SetSensitivity(c) => Only(c, "sens")]_vars

\* Saving an edit changes another value than the edited one only if somebody
\* changed that value since the LCD copied it, be it the same operator in an
\* edit given up (SetAFangQuParaScreen, SetBFangQuParaScreen).
EditKeepsOthers ==
  [][\A c \in Task : CopyBack(c) =>
       \A z \in Zone : \A q \in Param :
         para'[z][q] # para[z][q] => <<q, z>> \in touched]_vars

\* The list of zones refreshes the copies for this: an edit of one row, saved,
\* changes that row alone.
EditChangesItsRow ==
  [][\A c \in Task : CopyBack(c) =>
       \A z \in Zone : \A q \in Param :
         para'[z][q] # para[z][q] => z = page /\ q = Row[row]]_vars
=============================================================================
