------------------------------ MODULE Control ------------------------------
(***************************************************************************)
(* Arming, the tamper watch and the remote shutdown, as the tasks that     *)
(* serve the operators work them, and the bus they share.  A handler is a  *)
(* short program of accesses to what other tasks see too (flags, lamp,     *)
(* bus, EEPROM); a task runs its next access when no more urgent task that *)
(* is ready has one, so it can be cut between any two of them.             *)
(*                                                                         *)
(* The bus is guarded by a mutex: a task that finds it taken waits for     *)
(* ever (the timeout is 0), its holder inherits the urgency 1, and who     *)
(* gives it back hands it to the most urgent task that waits.              *)
(***************************************************************************)
EXTENDS Integers, Sequences, FiniteSets

CONSTANTS
  Flag,      (* the settings looked at, out of "A", "B" (zones) and "FC"     *)
  Single,    (* FIELD_FLAG_S0D1, a strap of the board: it has zone A only    *)
  Web, Tcp,  (* whether the web pages, the TCP server are used, and what     *)
  Sensing,   (* tasks read the temperature                                   *)
  Requests   (* BOUND: requests (edits of the page included) between starts  *)

WATCH == 3
WEB == 5
LCD == 6     (* main_task                                                    *)
TCP == 7
Task == {LCD} \cup Sensing \cup (IF Web THEN {WEB} ELSE {})
              \cup (IF Tcp THEN {TCP} ELSE {})
Zones == Flag \cap {"A", "B"}
Visible == Flag \ (IF Single THEN {"B"} ELSE {})  \* what the LCD page offers

ASSUME ControlAssumption ==
  /\ Flag \subseteq {"A", "B", "FC"}
  /\ {Single, Web, Tcp} \subseteq BOOLEAN
  /\ Sensing \subseteq {WATCH, WEB}
  /\ Requests \in Nat

FACTORY == {"0xFF"}   \* the control byte of an erased EEPROM
NOBODY == 0

VARIABLES
  on,              (* BU_FANG_A_FLAG, BU_FANG_B_FLAG, flag_fcgjsn that are ON*)
  lamp,            (* LED_BU_FANG                                            *)
  remote_shutdown,
  stored,          (* the control byte in the EEPROM                         *)
  prog,            (* per task: the accesses it still has to make            *)
  byte,            (* per task: the control byte it has assembled            *)
  owner, waiting,  (* iicMutexSem                                            *)
  row,             (* the row under edit on the LCD page; 0: normal state    *)
  tmp,             (* the page's edit copies that are ON                     *)
  (* history: *)
  before,          (* what was on when the host was shut down                *)
  cut,             (* tasks that others overtook since they last read a flag *)
  lost,            (* the last byte stored was an overtaken one              *)
  dim,             (* the last setting of the lamp was an overtaken one      *)
  inDark,          (* settings were saved while shut down                    *)
  toggled,         (* copies the operator changed in this edit               *)
  touched,         (* flags others changed in this edit                      *)
  unanswered,      (* the temperature sensor has not acknowledged, once      *)
  asked            (* requests made since the start                          *)

host == <<on, lamp, remote_shutdown, stored>>
bus == <<owner, waiting>>
page == <<row, tmp, toggled, touched>>
past == <<before, cut, lost, dim, inDark, unanswered>>
vars == <<host, prog, byte, bus, page, past, asked>>

-----------------------------------------------------------------------------
(* The programs                                                            *)

Do(what, f) == [do |-> what, flag |-> f]

\* Mutant: a reading never gives the bus back.
Transfer_SenseKeeps(what) ==
  <<Do("pend", ""), Do(what, "")>> \o IF what = "sense" THEN <<>> ELSE <<Do("post", "")>>

\* Every access to the bus: the mutex taken, the transfer, the mutex given.
Transfer(what) == <<Do("pend", ""), Do(what, ""), Do("post", "")>>

WriteControlParaToEEProm == <<Do("byte", "")>> \o Transfer("write")

Lamp(what, f) == IF f \in Zones THEN <<Do(what, f)>> ELSE <<>>

\* Mutant: a start that is not saved.
Start_Unsaved(f) == <<Do("on", f)>> \o Lamp("lampOn", f)

\* Push_A_Start, Push_B_Start, FangChai_Start.
Start(f) == <<Do("on", f)>> \o Lamp("lampOn", f) \o WriteControlParaToEEProm

\* Mutant: the lamp put out though the other zone is armed.
Stop_Dark(f) == <<Do("off", f), Do("dark", f)>> \o WriteControlParaToEEProm

\* Push_A_Stop, Push_B_Stop, FangChai_Stop.
Stop(f) == <<Do("off", f)>> \o Lamp("lampOther", f) \o WriteControlParaToEEProm

DoIf(f, S, what) == IF f \in S THEN <<Do(what, f)>> ELSE <<>>

Each(what, S) == DoIf("FC", S, what) \o DoIf("A", S, what) \o DoIf("B", S, what)

\* remoteShutdown(1): the flags go off in memory only.
Shutdown == <<Do("down", "")>> \o Each("off", Flag) \o <<Do("dark", "")>>

\* remoteShutdown(0) is a reset.
PowerOn == <<Do("reset", "")>>

systemDefault == Transfer("erase") \o <<Do("reset", "")>>

LM75_ReadTemp == Transfer("sense")

\* The page's ENTER under edit: each flag that differs from its copy, B too where
\* the page does not offer it.
SavePage == Each("copy", Flag) \o <<Do("leave", "")>>

-----------------------------------------------------------------------------
(* Scheduling                                                              *)

Urgency(c) == IF owner = c /\ \E d \in waiting : d < c THEN 1 ELSE c

Ready(c) == prog[c] # <<>> /\ c \notin waiting

Runs(c) == Ready(c) /\ \A d \in Task : Ready(d) => Urgency(c) <= Urgency(d)

\* A task that has nothing to do begins when nobody as urgent runs.
Idle(c) == prog[c] = <<>> /\ \A d \in Task : Ready(d) => c < Urgency(d)

Due(c) == Head(prog[c])

Step(c, what) == Runs(c) /\ Due(c).do = what

Go(c) == prog' = [prog EXCEPT ![c] = Tail(@)]

-----------------------------------------------------------------------------
(* The accesses                                                            *)

\* The flag f is about to change: whoever has read it is overtaken.
Overtake(c, f) ==
  /\ cut' = cut \cup {d \in Task \ {c} : prog[d] # <<>>}
  /\ touched' = IF c = LCD \/ row = 0 THEN touched ELSE touched \cup {f}

SetFlag(c) ==
  /\ \/ /\ Step(c, "on")
        /\ on' = on \cup {Due(c).flag}
     \/ /\ Step(c, "off")
        /\ on' = on \ {Due(c).flag}
  /\ Overtake(c, Due(c).flag)
  /\ Go(c)
  /\ UNCHANGED <<lamp, remote_shutdown, stored, byte, bus, row, tmp, toggled,
                 before, lost, dim, inDark, unanswered>>

SetLamp(c) ==
  /\ \/ Step(c, "lampOn") /\ lamp' = TRUE
     \/ Step(c, "lampOther") /\ lamp' = (Zones \cap (on \ {Due(c).flag}) # {})
     \/ Step(c, "dark") /\ lamp' = FALSE
  /\ dim' = (c \in cut)
  /\ Go(c)
  /\ UNCHANGED <<on, remote_shutdown, stored, byte, bus, page,
                 before, cut, lost, inDark, unanswered>>

\* remoteShutdown(1) begins.
GoDown(c) ==
  /\ Step(c, "down")
  /\ remote_shutdown' = TRUE
  /\ before' = IF remote_shutdown THEN before ELSE on
  /\ Go(c)
  /\ UNCHANGED <<on, lamp, stored, byte, bus, page, cut, lost, dim, inDark, unanswered>>

\* WriteControlParaToEEProm assembles the byte before it has the bus.
Assemble(c) ==
  /\ Step(c, "byte")
  /\ byte' = [byte EXCEPT ![c] = on]
  /\ cut' = cut \ {c}
  /\ inDark' = (inDark \/ remote_shutdown)
  /\ Go(c)
  /\ UNCHANGED <<host, bus, page, before, lost, dim, unanswered>>

\* Mutant: the wait times out, and its error is not looked at.
OSMutexPend_TimesOut(c) ==
  /\ Step(c, "pend")
  /\ owner' = IF owner = NOBODY THEN c ELSE owner
  /\ Go(c)
  /\ UNCHANGED <<waiting, host, byte, page, past>>

OSMutexPend(c) ==
  /\ Step(c, "pend")
  /\ \/ /\ owner = NOBODY
        /\ owner' = c
        /\ Go(c)
        /\ UNCHANGED waiting
     \/ /\ owner # NOBODY
        /\ waiting' = waiting \cup {c}
        /\ UNCHANGED <<owner, prog>>
  /\ UNCHANGED <<host, byte, page, past>>

MostUrgent(S) == CHOOSE d \in S : \A e \in S : d <= e

OSMutexPost(c) ==
  /\ Step(c, "post")
  /\ \/ /\ waiting = {}
        /\ owner' = NOBODY
        /\ Go(c)
        /\ UNCHANGED waiting
     \/ /\ waiting # {}
        /\ owner' = MostUrgent(waiting)
        /\ waiting' = waiting \ {owner'}
        /\ prog' = [prog EXCEPT ![c] = Tail(@), ![owner'] = Tail(@)]
  /\ UNCHANGED <<host, byte, page, past>>

Write(c) ==
  /\ \/ Step(c, "write") /\ stored' = byte[c]
     \/ Step(c, "erase") /\ stored' = FACTORY
  /\ lost' = (c \in cut)
  /\ byte' = [byte EXCEPT ![c] = {}]
  /\ Go(c)
  /\ UNCHANGED <<on, lamp, remote_shutdown, bus, page,
                 before, cut, dim, inDark, unanswered>>

\* LM75_ReadTemp: a sensor that does not acknowledge ends the reading where
\* it stands, the mutex still held.
Sense(c) ==
  /\ Step(c, "sense")
  /\ \/ Go(c) /\ UNCHANGED unanswered
     \/ unanswered' = TRUE /\ prog' = [prog EXCEPT ![c] = <<>>]
  /\ UNCHANGED <<host, byte, bus, page, before, cut, lost, dim, inDark>>

\* One flag of the page's ENTER: flag = copy, and then the flag, as it is
\* now, chooses between start and stop.
Copy(c) ==
  /\ Step(c, "copy")
  /\ LET f == Due(c).flag IN
       IF f \in on <=> f \in tmp
       THEN Go(c) /\ UNCHANGED <<on, cut, touched>>
       ELSE /\ on' = IF f \in tmp THEN on \cup {f} ELSE on \ {f}
            /\ Overtake(c, f)
            /\ prog' = [prog EXCEPT ![c] = <<Do("again", f)>> \o Tail(@)]
  /\ UNCHANGED <<lamp, remote_shutdown, stored, byte, bus, row, tmp, toggled,
                 before, lost, dim, inDark, unanswered>>

Again(c) ==
  /\ Step(c, "again")
  /\ LET f == Due(c).flag IN
       prog' = [prog EXCEPT ![c] = (IF f \in on THEN Start(f) ELSE Stop(f)) \o Tail(@)]
  /\ cut' = cut \ {c}
  /\ UNCHANGED <<host, byte, bus, page, before, lost, dim, inDark, unanswered>>

\* The normal state: only the tamper flag's copy is looked at again.
ShowPage(copies) ==
  /\ row' = 0
  /\ tmp' = copies \ Zones
  /\ toggled' = {} /\ touched' = {}

\* ENTER is done.
Leave(c) ==
  /\ Step(c, "leave")
  /\ ShowPage(tmp)
  /\ Go(c)
  /\ UNCHANGED <<host, byte, bus, past>>

-----------------------------------------------------------------------------
(* Starting                                                                *)

\* ALARM_Init: the flags as saved, or all of them; a single zone has no B.
Restored(saved) == (IF saved = FACTORY THEN Flag ELSE saved) \cap Visible

Started(saved) ==
  /\ on = Restored(saved)
  /\ stored = IF saved = FACTORY THEN on ELSE saved
  /\ lamp = (on \cap Zones # {})
  /\ remote_shutdown = FALSE
  /\ prog = [c \in Task |-> <<>>]
  /\ byte = [c \in Task |-> {}]
  /\ owner = NOBODY /\ waiting = {}
  /\ row = 0 /\ tmp = {} /\ toggled = {} /\ touched = {}
  /\ before = {} /\ cut = {}
  /\ lost = FALSE /\ dim = FALSE /\ inDark = FALSE /\ unanswered = FALSE
  /\ asked = 0

Init == \E saved \in (SUBSET Flag) \cup {FACTORY} : Started(saved)

\* The power fails, or NVIC_SystemReset.
Restart ==
  /\ on' = Restored(stored)
  /\ stored' = IF stored = FACTORY THEN on' ELSE stored
  /\ lamp' = (on' \cap Zones # {})
  /\ remote_shutdown' = FALSE
  /\ prog' = [c \in Task |-> <<>>]
  /\ byte' = [c \in Task |-> {}]
  /\ owner' = NOBODY /\ waiting' = {}
  /\ row' = 0 /\ tmp' = {} /\ toggled' = {} /\ touched' = {}
  /\ before' = {} /\ cut' = {}
  /\ lost' = FALSE /\ dim' = FALSE /\ inDark' = FALSE /\ unanswered' = FALSE
  /\ asked' = 0

Reset(c) == Step(c, "reset") /\ Restart

-----------------------------------------------------------------------------
(* Operators                                                               *)

Counted == asked < Requests /\ asked' = asked + 1

Ask(c, p) ==
  /\ Idle(c)
  /\ prog' = [prog EXCEPT ![c] = p]
  /\ cut' = cut \ {c}
  /\ UNCHANGED <<host, byte, bus, page, before, lost, dim, inDark, unanswered>>

\* Control_CGI_Handler, Shutdown_Handler, Default_CGI_Handler.
WebAsks ==
  /\ Web
  /\ Counted
  /\ \E p \in {Start(f) : f \in Flag} \cup {Stop(f) : f \in Flag}
                \cup {Shutdown, PowerOn, systemDefault} : Ask(WEB, p)

\* parse_reply_data: MSG_TYPE_SET_BUFANG, refused while shut down.
TcpAsks ==
  /\ Tcp
  /\ Counted
  /\ \E p \in (IF remote_shutdown THEN {}
               ELSE {Start(f) : f \in Zones} \cup {Stop(f) : f \in Zones})
                \cup {Shutdown, PowerOn} : Ask(TCP, p)

\* The temperature: watch_task once a minute, the web page whenever shown.
Measure == Counted /\ \E c \in Sensing : Ask(c, LM75_ReadTemp)

Rows == {r \in 1..3 : <<"A", "B", "FC">>[r] \in Visible}
RowFlag(r) == <<"A", "B", "FC">>[r]

\* main_task reacts to a key when nobody as urgent runs.
Key == Idle(LCD) /\ UNCHANGED <<host, prog, byte, bus, past>>

\* Mutant: only the row under edit is copied.
Copied_RowOnly(r) == {RowFlag(r)}

\* ENTER copies both zones' flags, the tamper flag only when on its row.
Copied(r) == Zones \cup {RowFlag(r)}

EnterEdit(r) ==
  /\ row = 0
  /\ Counted
  /\ Key
  /\ row' = r
  /\ tmp' = (tmp \ Copied(r)) \cup (on \cap Copied(r))
  /\ toggled' = {} /\ touched' = {}

\* UP and DOWN under edit turn the row's copy over.
Toggle ==
  /\ row # 0
  /\ Key
  /\ tmp' = (tmp \cup {RowFlag(row)}) \ (tmp \cap {RowFlag(row)})
  /\ toggled' = toggled \cup {RowFlag(row)}
  /\ UNCHANGED <<row, touched, asked>>

\* ESC under edit gives the edit up, and copies all three.
Escape ==
  /\ row # 0
  /\ Key
  /\ ShowPage(on)
  /\ UNCHANGED asked

EnterSave ==
  /\ row # 0
  /\ Ask(LCD, SavePage)
  /\ UNCHANGED asked

-----------------------------------------------------------------------------
Access(c) ==
  \/ SetFlag(c)
  \/ SetLamp(c)
  \/ GoDown(c)
  \/ Assemble(c)
  \/ OSMutexPend(c)
  \/ Write(c)
  \/ Sense(c)
  \/ OSMutexPost(c)
  \/ Copy(c)
  \/ Again(c)
  \/ Leave(c)

Act(c) == (Access(c) /\ UNCHANGED asked) \/ Reset(c)

Next ==
  \/ \E c \in Task : Act(c)
  \/ WebAsks
  \/ TcpAsks
  \/ Measure
  \/ \E r \in Rows : EnterEdit(r)
  \/ Toggle
  \/ Escape
  \/ EnterSave
  \/ Restart

\* The processor never idles while a task is ready.
Fairness == WF_vars(\E c \in Task : Act(c))

Spec == Init /\ [][Next]_vars /\ Fairness

-----------------------------------------------------------------------------
(* Properties                                                              *)

Accesses == {"on", "off", "lampOn", "lampOther", "dark", "down", "byte", "pend",
             "write", "erase", "sense", "post", "copy", "again", "leave", "reset"}

TypeOK ==
  /\ on \in SUBSET Flag
  /\ {lamp, remote_shutdown, lost, dim, inDark, unanswered} \subseteq BOOLEAN
  /\ stored \in SUBSET Flag \/ stored = FACTORY
  /\ prog \in [Task -> Seq([do : Accesses, flag : Flag \cup {""}])]
  /\ byte \in [Task -> SUBSET Flag]
  /\ owner \in Task \cup {NOBODY}
  /\ waiting \in SUBSET Task
  /\ row \in Rows \cup {0}
  /\ {tmp, before, toggled, touched} \subseteq SUBSET Flag
  /\ cut \in SUBSET Task
  /\ asked \in 0..Requests

\* Nobody is in the middle of a change of settings.
Settled ==
  \A c \in Task : \A i \in DOMAIN prog[c] :
    prog[c][i].do \in {"pend", "sense", "post", "leave"}

\* What is saved is what the operators have set, so that the next start (the
\* end of a remote shutdown included) restores it.  Excepted are a byte
\* assembled before a more urgent task's change and stored after it, and what
\* is saved while shut down (WriteControlParaToEEProm, remoteShutdown).
SettingsStored ==
  Settled /\ ~ lost /\ ~ inDark =>
    stored \cap Visible = (IF remote_shutdown THEN before ELSE on) \cap Visible

\* The lamp tells whether a zone is armed, also in and after a shutdown,
\* unless another task's change came between a flag and its lamp
\* (Push_A_Start, Push_A_Stop, remoteShutdown).
LampTruthful == Settled /\ ~ dim => (lamp <=> on \cap Zones # {})

\* Only the holder of iicMutexSem is ever on the bus.
BusGuarded ==
  \A c \in Task :
    prog[c] # <<>> /\ Due(c).do \in {"write", "erase", "sense", "post"} => owner = c

SavedAsSeen(f) ==
  \A c \in Task : Copy(c) /\ ~ (f \in on' <=> f \in on) => f \in toggled \cup touched

\* Leaving an edit of the page with ENTER changes a zone's flag only if the
\* operator has turned it over in this edit, or another task has changed it
\* meanwhile (SetBuFangParaScreen).
EditKeepsZones == [][\A f \in Zones : SavedAsSeen(f)]_vars

\* The same of the tamper watch: its edit copy is taken over whenever the page
\* goes back to its normal display, or the next edit would be wrong.
EditKeepsTamper == [][SavedAsSeen("FC")]_vars

\* Every task that has something to do gets done with it, whoever else is at
\* the bus, unless the temperature sensor has once failed to acknowledge:
\* that is the only way to hold up the host (LM75_ReadTemp).
EveryRequestServed ==
  \A c \in Task : prog[c] # <<>> ~> prog[c] = <<>> \/ unanswered
=============================================================================
