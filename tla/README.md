# VectorFence: a verification project

VectorFence is the firmware of a tension-fence alarm host: an STM32F407 with
uC/OS-II and lwIP that samples the wires of two protected zones (A and B), a
tamper contact and two external switches, confirms alarms, rings a siren for
each zone, logs alarms in an EEPROM, and is operated from an LCD panel, a web
page and a binary TCP protocol.

This directory holds TLA+ models of its alarm path, TLC configurations that
check them on small instances, and TLAPS proofs of theorems about them. Source
references are to `src/`.

## 1. The system

### Contexts

Everything runs on one processor. What can cut into what decides every
interleaving of the models:

| context | priority | what it does |
|---|---|---|
| EXTI9_5, EXTI15_10 | interrupt | switch inputs changed (alarm.c:563-605) |
| TIM5, 100 ms | interrupt | rings and expires the sirens (timer.c:236) |
| TIM3, 500 ms | interrupt | advances the verification counters (timer.c:71) |
| TIM4, 10 us | interrupt | raises the flags that request the checks |
| watch_task | 3 | runs the checks (main.c:5602) |
| key_task | 4 | posts keys |
| tcpip_thread | 5 | serves the web page's CGI handlers |
| main_task | 6 | the LCD menu |
| tcp_server_thread | 7 | the TCP command protocol |

The interrupts have one preemption priority and do not nest. A smaller number
is more urgent; a task is cut only by interrupts and by more urgent tasks. A
delay shorter than an OS tick (5 ms) is busy and keeps the processor
(delay.c), so a check of watch_task, which samples for 40 ms in such delays, is
atomic for every other task, and only for tasks. There are no locks around the
alarm words: the one mutex of the system guards the IIC bus.

### Components

| component | state | operations | who calls it |
|---|---|---|---|
| Sirens | `ALARM_STATE_DELAY`, `alarmingCnt[z]`, relays `RL_A/B`, `alarm_delay[z]`, `config_code` | TIM5; silence (`removeAlarmRL`); latch; set duration | TIM5, web, LCD, TCP |
| Alarm detection | `ALARM_STATE`, verification counters, `adc_*_crt`, flags `BU_FANG_x`, `flag_fcgjsn`, lamps | `FANG_CHAI_Check`, `ADC_Check(_Handler)`, TIM3, arm, disarm, remote shutdown | watch_task, TIM3, operators |
| External switches | switch bits of both words, `SW_Type` | `updateSWAlarmState`, `setSWValue` | EXTI, web, LCD |
| Event log | ring of records and next address in the EEPROM, address in RAM, read cursors | `WriteLog`, `Log_Init`, `FastClearLog`, page readers | watch_task, web, LCD, reset |
| Operator control | flags in RAM and in the EEPROM, LCD edit copies | `Push_x`, `FangChai_x`, `remoteShutdown`, `updateCtrByte` | web, LCD, TCP |
| Parameters | delays, sensitivities, zone numbers, network settings in the EEPROM | load, store, `systemDefault` | start-up, all operators |
| IIC bus | mutex | EEPROM, clock and temperature access | every task |
| Sampling and calibration | readings, base and zero values, `calibrating_flag` | `sampleAdc`, `updateBaseVal`, automatic calibration | watch_task, TIM3, operators |
| TCP server, web, keys and menu | connection, mailbox, menu page | parse and dispatch to the above | network, panel |
| LCD and Ethernet drivers, memory pools, demos, vendored code | | | |

Components meet in shared variables, not in messages. `ALARM_STATE` is written
by the checks, the switch handlers and the setting tasks and read by TIM5 and
by the silences; `ALARM_STATE_DELAY` is written by all of these; the flags and
`alarm_delay` are written by every operator task and read by watch_task and
TIM5.

### What is hard in it, and what makes a component correct

* **Sirens.** A period ends by an *equality* test on a counter that other
  contexts reset and whose limit they change. The silence procedure is three
  stores that TIM5 and watch_task can cut. Correct means: an alarm that lasts
  rings, and rings again after a period or a silence; a period ends once the
  alarm is gone; live alarms are covered by the latched word.
* **Detection.** Counters are set by checks, advanced by an interrupt, and
  compared with a sensitivity that can change at any time, in `u8` arithmetic.
  Correct means: a lasting condition becomes an alarm, and one that is gone or
  unwatched stops being one and is verified anew; one record for each onset; the lamps tell the
  truth, also through a remote shutdown.
* **Switches.** Read, load and store are three accesses, in handlers and tasks,
  on words everybody writes. Correct means: the word tells a switch as it reads;
  a settled switch is followed; what a race undoes is made good.
* **Event log.** Records and addresses are written byte by byte, the power may
  fail, and a clear that takes seconds is cut by new records; at its end it reads
  the addresses of all types back. Correct means:
  records in order, none lost but the oldest; the stored address is the one in
  use; a clear ends.
* **Paging of the log.** Two readers turn pages over one cursor per log, with a
  direction and a count of their own, on a ring that a page may straddle.
  Correct means: a reader alone sees every record once, in order, and is told
  the ends; what moves the cursor out of its ring is known.
* **Operator control.** A flag, its lamp and its bit in the EEPROM are changed
  one after another by four tasks, and an LCD page keeps edit copies of all
  flags. Correct means: what was set is what is saved; the lamp tells the
  truth; an edit changes what the operator changed; whoever uses the bus holds
  its mutex, and everyone is served.
* **Parameters.** Two zones, in memory and in sixteen bytes, saved as a whole by
  each of several tasks; factory values are told by two bytes; a TCP command
  finds its zone by a number it may change. Correct means: a restart changes
  nothing; a command reaches the zone it was meant for; `systemDefault` is one.
* **Calibration.** Two interrupts, a task and the operators share one flag, one
  count and one sum; the test of the end is misspelt (`& 80` for `& 0x80`).
  Correct means: a mean is of the zone's own samples; a calibration ends; an
  armed and quiet zone is calibrated again and again.

`PROJECT.json` lists each hazard at its line with the properties about it.

## 2. Modules

```
AlarmWord            the bits of the alarm words, siren masks, latching
 |- Siren            --implements-->  SirenContract
 |- Detection         Verification: with the history of each verification
 |- AlarmHost        = Detection + Siren on one ALARM_STATE (implements each)
SwitchInput          the same words, access by access
EventLog             --implements-->  LogContract
LogPager             the page readers over the ring
Control              flags, lamp, control byte, edit copies, the bus and its mutex
Params               the zones' parameters, in memory and in the EEPROM
Calibration          calibrating_flag between TIM3, TIM4, watch_task and operators
```

Each component has an MC module that TLC runs. Proofs are in `SirenProof`,
`DetectionProof`, `SwitchProof`, `ControlProof`, `CalibrationProof`,
`EventLogProof`, `ParamsProof` and, for AlarmHost and LogPager, which share no
state, `HostProof`. Operators whose comment
says *Mutant* are plausible bugs of the definition that follows them; each
checked property was seen to fail when one of them takes its place.

**AlarmWord.** A 16-bit word is the set of its 1 bits. A bit is
`<<zone, kind>>` or `<<"AB", name>>` for the alarms both zones share. `Latch`
is `Set_Alarm_State_Util_Clear`, `RingMask` the masks 0x13/0x113 and 0x1C/0x21C.

**Siren.** `TIM5_IRQHandler` is one action: an interrupt is not cut. A silence
is four, one for each store and for the load of `ALARM_STATE`; the C code of
`Remove_Alarm_RL_x` in the interrupt itself is part of the interrupt's action.
`Runs` lets a task step only while no more urgent one is in a silence.
`StateUpdate` is what a check or a switch does to the words.
**SirenContract** promises, without a counter: a siren begins only for an alarm
of its zone; while the alarm lasts the clock does not stop it, and of a silence
only the beginning does, for the zone that is silenced. Who is in a silence of
which zone is part of what the contract sees, so a step of TIM5 cannot pass for
a silence.

**Detection.** `Judge` is the common shape of the checks: what rises, what
falls, counters, records, lamps. A zone's check is two actions, because its
40 ms of sampling let TIM3 and switch interrupts in before the judgement;
tasks wait (`Operate`, `check = "none"`). What a wire's reading means is the
variable `condition`, moved by `World`; while calibrating, readings are stale
and thresholds may be new, so anything may be found. The tamper counter is
compared by `=`, the slack counter counts seconds, the others count TIM3 ticks
up to sensitivity + 1 modulo `CntMax + 1`. **Verification** is Detection with a
history, `since`: the ticks of TIM3 since an alarm of the fence was last on, its
zone last checked disarmed, or the host started. It changes nothing of
Detection's steps.

**AlarmHost.** Both instances over one `ALARM_STATE`. A judgement is a
`Judge` step of one and a `StateUpdate` of the other; tasks step only between
checks; switches move their bits in both. Its specification is `HostSpec`; the
parts keep their names as `D!Spec` and `S!Spec`.

**SwitchInput.** A context is named by its priority; `Runs` is preemption.
Every context does read, load, store, latch load, latch store; watch_task
confirms and withdraws an alarm of the fence (`Confirm`) as its checks find one
(`fence`). `OwnLine` says
which switches have their interrupt on the pin they are read from: in the code
SW2 has, SW1 has not (it is read from PA11 and its EXTI line is PA8, the
multiplexer output `ADC_CTRL2`), so the sampling of a six-wire host triggers
it. The LCD menu edits `SW_Type` in place (`EditType`), `setSWValue` takes the
switches one after the other (`Both`). The history `stray` names the switches
whose last update was overtaken (`Overtaken`): begun while a less urgent context
stood between what it read of the switch, or of the word, and its store; or whose
input moved with no handler still to read it; or whose type the LCD edited since.
The web and the LCD task set switches; the TCP commands have none that does.

**EventLog.** One type of record. `WriteLog` is atomic for tasks (watch_task)
and `CutWrite(n)` is the same cut by a power failure after n bytes.
`FastClearLog` is one action for each EEPROM access, then `Log_Init` the same
way, with the address taken up in a step of its own (`Take`). Log_Init reads the
addresses of all five types (log.c:40-46), so the clear of *another* type is, for
this one, a Log_Init without an erasure: `OtherHigh`, `ReadLow`, `Take`, with
watch_task's writes and the other task's clears in between. `PowerFails` is a
loss of power between two accesses of anyone. Two histories, `mixed` and `torn`,
remember that something cut into a clear, or a write or a clear into such a
reading, and that the power failed in the middle of a write or a clear.
**LogContract** is a bounded queue that drops its oldest.

**LogPager.** The ring is its number of records and the cursor a slot of it;
`ReadNextLog` and `ReadPreviousLog` move the cursor and set the flags of both
readers, `ReadPage` is the loop of the page readers, `Back` the move over the
page that was read the other way. The browser's buttons and the keys of the LCD
are the guards (`Turns`); an empty page makes the web read the first one. A page
is one step: a write in the middle of it disturbs no more than one after it.
`top` and `kept` remember which page an undisturbed reader is on.

**Control.** A handler is a program: the sequence of its accesses to what other
tasks see (`on`, `off`, `lampOn`, `byte`, `pend`, `write`, `post` ...), taken one
at a time by the most urgent task that is ready. `OSMutexPend` and
`OSMutexPost` are uC/OS-II's, with the waiting list, the hand-over to the most
urgent waiter and the raised priority of the owner. `Sense` is
`LM75_ReadTemp`, which keeps the mutex when the sensor does not acknowledge.
An edit on the LCD page begins with copies of the zones' flags (of the tamper
flag only on its own row), ESC copies all three, ENTER writes all three back.
`Restart` and `Reset` read the saved byte.

**Params.** The same shape: `WriteFieldPara` is a load and a write of each
byte, `SetParas` the TCP command with its three saves, `SavePage` the ENTER of
a zone's page, `systemDefault` four erased bytes and a reset, `Started`
`ALARM_Init`, `PowerCycle` a power failure between any two steps.

**Calibration.** TIM4 marks, requests and ends; TIM3 counts the minutes of each
zone and begins a calibration or stands back; `Begin` to `Clear` are a round of
watch_task. A sum is the set of the zones sampled into it.

## 3. Runs

| run | instance | shows |
|---|---|---|
| MCSiren_safety | zone A; intrusion and slack; one silencing task; durations 0, 1, 2 | a window is kept unless its duration changes; only a torn silence orphans a siren; when latched alarms drop and live ones are uncovered; SirenContract: no counter cuts off a siren whose alarm lasts; an alarm that lasts rings; a period ends; the latch follows the siren |
| MCSiren_runaway | zone A; durations 1, 2 | *violation*: a duration lowered below the running count is never met |
| MCDetection_safety | intrusion and tamper; sensitivities 2 and the largest; resets | counters and lamps; one record for each onset; an alarm that went out is verified anew; a lasting condition becomes an alarm; alarms end |
| MCSwitchInput_safety | SW1 off its own line, six-wire, LCD menu, watch_task confirming alarms, bouncing input | the word tells a switch as it reads unless its update was overtaken; a settled switch is followed; an alarm that a race undid comes back |
| MCAlarmHost_live | zone A; tamper and SW2; one silencing task | the host implements Detection and Siren; a lasting condition rings; a host switched off falls silent and dark |
| MCControl_safety | both zones and the tamper watch; web, LCD, TCP, and watch_task reading the sensor; 2 requests; restarts | what is set is saved; the lamp is truthful; the bus is guarded; an edit keeps the zones it did not touch; everyone is served unless the sensor fell silent |
| MCControl_tamper | the LCD page alone | *violation*: an edit of a zone's row turns the tamper watch off |
| MCCalibration_safety | two zones; operators; intervals 0, 1, 2; resets | means are of a zone's own samples; a calibration ends; automatic calibration recurs |
| MCLogPager_safety | rings of 6, pages of 3 and 2; one log fills and wraps; clears | pages in order; the flags tell the ends; the cursor strays only at the seam or with two readers |
| MCEventLog_safety | ring of 3; 5 records; a task that clears this log or another; resets; power cuts at every byte | LogContract; the stored address agrees; a clear ends |
| MCParams_safety | numbers 1, 2; web, LCD, TCP; 2 settings; power cuts at every step | systemDefault holds; a restart at rest changes nothing; a command hits its zone; an edit keeps what it did not touch |
| MCParams_edit | the LCD page alone; durations 30, 60 | *violation*: an edit given up is saved with another row |

Deadlock is checked in every run.

**Bounds, and why they suffice.** `TicksPerSecond` = 1 instead of 10 and
durations up to 2: a period then has a first, a middle and a last tick, and
0 is the special case. `RunawayCap` is above every limit, so a counter that
stops there has already missed its test. `CntMax` = 5 (or 4) stands for 255:
it leaves the tamper limit 4 below the wrap, and the sensitivity equal to it
wraps as 255 does. `RingSlots` = 2 tells one record from none and from two,
which is what its property asks. A log ring of three records of two bytes is
filled and written over; with `BASE` = 4 and `BYTE` = 4 the second and third
record lie on either side of a carry into the high byte of the address, so a
torn address is one that differs from both. One task of the two that clear is
enough to cut into, and be cut by, watch_task; that two of them (web and LCD)
keep the same promises is proved (`AddressesAgree`, `LogKeepsContract`). A ring of 6 with pages of 3 and 2
lets both readers meet the seam of a ring that wraps with its seventh record;
`Stray` lets a cursor go one slot out, from where it is already somebody else's
data. Two requests (with edits and restarts in between) let every pair of tasks
meet in Control and Params; a duration of 258 differs from the factory's in both
bytes and has 0xFF, the mark of an erased byte, in neither, so that nothing of
`PowerCycleKeeps` is excused there. The history of Verification remembers one tick, which
is what sensitivity 2 asks for after the check that finds the condition. In the
switches' run nothing counts; one switch is enough, as each is set by accesses of
its own, and SW2, which has its own line, differs from it only in missing edges
(section 4); the invariant is proved for both. A calibration
of two seconds has a first and a last sample, an interval of up to two minutes
is longer than a calibration, and 0 is "never". One zone is enough where zones
do not meet; they meet in the latched word, and there the theorems hold for both.

**Fairness, and why.** TIM3, TIM4 and TIM5 are free-running hardware timers:
weak fairness. watch_task comes round to every requested check twice a second,
and one check disables another: strong fairness for beginning each, weak for
ending one that has begun. A task in the middle of a silence or a clear is ready
and more urgent tasks sleep between their rounds: it goes on (strong where
checks disable it again and again). A pending interrupt is taken and its handler
returns; watch_task confirms or withdraws what its checks find, however often it
is interrupted: strong. In Control all that is assumed is that the processor does not idle
while a task is ready: *some* task takes a step; that each is served follows
from the mutex, the priorities and the finite programs. Nothing is assumed of
operators, the world, resets or calibration.

**Limits written into the properties.** The liveness of Detection excludes
the largest sensitivity (its counter wraps, so whether a check sees it at its
peak is luck) and calibration (no samples are taken). `AlarmRings` and
`RingingStops` ask for a counter that has not passed its limit, which
MCSiren_runaway shows to be needed. `CalibrationEnds` asks that operators do not
begin one calibration over another for ever. `EveryRequestServed` excepts a
sensor that did not acknowledge (lm75.c:78): the mutex is then kept, and every
task that needs the bus, watch_task with it, waits for ever. `PowerCycleKeeps`
excepts a duration of zone A with a byte 0xFF, which a start takes for an erased
EEPROM, and a byte that a less urgent task wrote late. That a calibration ends
at all rests on the misspelt mask: the mutant `Counting_Masked` has the mask the
code means, and with it watch_task is never asked to see the end.

## 4. Divergences

Where the code does not do what its own comments say. Three have a run:

* **SirenStops** (MCSiren_runaway; timer.c:249). Ringing with a duration of 2,
  count 2; the duration is set to 1; the counter never equals the limit again.
  The alarm goes away, and the siren stays on (timer.c:254 says it stops).
* **EditKeepsTamper** (MCControl_tamper; main.c:1149). The edit copy of the
  tamper watch is OFF after a start and is taken only when an edit begins on its
  own row or is left by ESC; ENTER saves all three copies. An edit of zone A's
  row, saved as it was, switches the tamper watch off (main.c:1222).
* **EditChangesItsRow** (MCParams_edit; main.c:3047). ESC leaves the edit
  copies as they are: a duration edited and given up is saved with the next
  edit of the zone's number (DisplayMenu.c:286).

The others are stated in the modules and can be seen with the constants below;
the passing properties next to them say exactly how far the code does keep the
promise. Constants not named are those of the component's run.

| property (module) | constants that show it | what happens | kept instead |
|---|---|---|---|
| SirenStops (Siren) | Kind {IVD}, Delays {1}, Silencer {5} | TIM5 rings between `RL = 0` and `alarmingCnt = -1`; the siren sounds and counts nothing (alarm.c:200) | OrphanOnlyByTornSilence |
| LatchHeldWhileRinging (Siren) | Zone {A, B}, Kind {IVD}, Delays {2}, Silencer {5} | silencing A drops the latched alarms of B, which still rings (alarm.c:202; alarm.h:269) | LatchDropsOnlyDead |
| LiveStaysLatched (Siren) | Kind {IVD}, Delays {2}, Silencer {5} | an alarm confirmed between load and store of a silence is live, not latched (alarm.c:202; alarm.c:231) | LatchCoversLive |
| LatchReleased (Siren) | Kind {}, Switch {SW1}, Silencer {} | no switch rings, so no expiry releases its latched bit (timer.c:245; alarm.c:231) | LatchFollowsSiren |
| SlackNeverRings (Siren) | Kind {IVD, RLX} | the mask is 0x113 unless bit 3 is set; the comment at timer.c:245 says slack does not ring for now | |
| GlitchForgotten (Detection) | Sens {2}, MayReset FALSE | the counter survives a check that found nothing: two short disturbances make an alarm (alarm.c:449; DOC/菜单.txt:36) | VerifiedAnew, of an alarm that went out |
| SwitchFollowsInput (SwitchInput) | Setter {}, SixWire, Bouncing, FenceAlarms FALSE | on a four-wire host nothing triggers the interrupt of SW1 (alarm.c:584) | holds with SixWire TRUE |
| OwnLineFollowed (SwitchInput) | Switch = OwnLine = {SW2}, Setter {}, SixWire, FenceAlarms FALSE | an edge after the read is cleared with the pending bit (alarm.c:574) | holds with Bouncing FALSE |
| OwnLineFollowed (SwitchInput) | Switch = OwnLine = {SW2}, Setter {}, SixWire, Bouncing FALSE | watch_task loads the word to change another bit, an EXTI sets the switch bit, watch_task stores: the switch is closed and no alarm (alarm.h:63; alarm.h:131) | SwitchInStep |
| FenceAlarmKept (SwitchInput) | those of the run | setSWValue stores a word loaded before watch_task confirmed (alarm.h:63; alarm.c:231) | UndoneAlarmReturns |
| NoPhantoms (EventLog) | those of the run | a record written during a clear: its first byte is erased or its address forgotten, and the log shows an entry without a record (log.c:432; log.c:53); the clear of another type does as much, if a record is written while it reads this type's address (log.c:42) | ContractKept, AddressAgrees |

## 5. Theorems

Proved by TLAPS for all values of the constants that satisfy the named
assumptions: `WordAssumption` (zones, kinds and shared names do not collide),
`SirenAssumption` (every duration is below `RunawayCap`),
`DetectionAssumption` (sensitivities are `u8`s, `CntMax` at least 4),
`VerificationAssumption`, `SwitchAssumption`, `HostAssumption`, `ControlAssumption`,
`CalibrationAssumption` (a calibration takes more than a second and less than a
minute, and there is a longest interval, the type being `u16`), `LogAssumption`
(the ring fits into 16-bit addresses), `ParamsAssumption`, `PagerAssumption` (a
page is shorter than the ring and fills it evenly, as 10 and 3 do 300). TLC
evaluates them in every run. Every invariant and every action property of the
passing runs is the statement of one of these theorems.

* **SirenProof.** `SirenTypes`. `SirenBootWindow`: inductive together with
  `TypeOK`; TIM5 starts a siren with the counter at 1, and from there counts up
  or decides, so a sounding siren never has the counter 0. `SirenWindowKept`:
  by `LimitBounds`, in a window 1 <= limit < `RunawayCap`, so the counter meets
  the equality before it stops. `SirenOrphans`, `SirenLatchDrops`,
  `SirenLatchCovers`: by action, from what each does to the latched word
  (`LatchStep`). `SirenKeepsContract`: a step of TIM5 is a `Clock` and never a
  silence, the first store of a silence a `Silence` of its zone, its last one
  `Silenced`, what the checks do `Alarms`, and the rest a stutter of
  SirenContract.
* **DetectionProof.** `DetectionTypes`, `DetectionCounters` (from
  `CounterWriters`: who writes a counter), `DetectionLeds` (from `JudgeLeds`
  and `LedsIgnoreSwitches`), `DetectionRecords` (from `JudgeRecords`), and
  `DetectionVerifiesAnew`, of Verification: a counter is never ahead of the
  ticks since its alarm was last on, or its zone last checked disarmed
  (`VerifiedInTime`, with `TypeOK` and the history's type inductive): whoever
  withdraws a fence alarm brings its counter back to 0 in the same judgement
  (`JudgeCounts`), a check sets it to 1, and only a tick takes it further. So a
  counter that meets its test, whatever sensitivity it meets (`OnsetVerified`),
  has been counted for as long. `HistoryImplementsSpec`: a run with
  the history is a run of Detection, so Detection's theorems hold of it.
* **HostProof, the alarm host.** `HostIsDetection`, `HostIsSirens`: initial states
  map to initial states and every step to a step or a stutter. `SameWord` and
  `JudgedApart` say that both instances speak of the same bits and that what
  rises and falls in a check are disjoint parts of one group. They carry the
  safety theorems of the parts over to the host.
* **SwitchProof.** `SwitchTypes`, and `SwitchToldAsRead`: `SwitchInStep` says
  something of a switch that nobody is about to update, so the invariant
  (`StepInv`) says of each context in the middle of an update what it still has
  the right to write: a word it loaded has every switch but its own as the word has it now
  (`Copies`), the value it read is still the reading unless an interrupt is due
  (`Wants`), and a more urgent context that is to change a switch under it has
  made that switch stray (`Overtakes`); with nobody left to store, the word tells
  the switch as it reads (`Told`). A handler updates one switch (`Single`).
* **ControlProof.** `ControlTypes` and `BusIsGuarded`. The invariant says that
  what is left of every program is well formed (`Program`: an access to the
  bus follows upon the pend or upon another access), that a task that stands before
  such an access owns the mutex, and that who waits for it stands before its
  pend (`Queued`). `BusGuarded` alone says nothing of a task before its pend, so
  a hand-over could break it. `WhatIsSetIsStored` and `LampTellsArmed` say
  something of the moments at which no program is under way, so the invariant
  (`Work`) says what is still owed while one is: each program is of its task's
  kind (`Kinds`), a flag that differs from its bit in the EEPROM has a task
  with a save before it (`SavedOrDue`), a lamp that is wrong has one that will
  switch it (`LitOrDue`), and the byte a task is about to write, or the lamp it
  is about to switch, is right unless another overtook it (`BytesFresh`,
  `LampsFresh`). `EditsKeepZones` adds that the edit copies differ from the flags
  only where the operator or another task changed something (`EditSeen`).
  `NobodyWaitsInVain` and `HostNeverStalls`: no deadlock over the bus. What is left
  of every handler gives the bus back (`GivesBack`: after the pend and after
  each access follows another access or the post, and nothing else), so the owner of
  the mutex is about to use the bus or to give it back and never pends itself
  (`Owned`); it is ready, and runs with the priority it inherits. The one exception
  is `unanswered`: after an access that the sensor did not acknowledge
  `LM75_ReadTemp` returns with the mutex, and without the exception TLC
  finds a task that waits for an owner with nothing left to do.
* **CalibrationProof.** `CalibrationTypes`, `JobIsKept`, `MeansAreOwn`. A round
  of watch_task begins and ends between two ticks of TIM4 (`Rounds`), the sum is
  empty between calibrations (`Cleared`), the count stands at most at 1 when one
  begins (`Counted`), so the last request before the end has been sampled
  (`Sampled`): the mean is never the quotient of nothing.
* **EventLogProof.** `EventLogTypes` and `AddressesAgree`, for a ring of any
  size at any address. `StoredAddress` (an address cut into two bytes and put
  together is the same) makes every completed write agree. `AddressAgrees` alone is
  not inductive: of what a Log_Init under way will take up, be it of this type's
  clear or of another's, the invariant adds that the bytes read so far are those
  of the EEPROM, and that memory has the base while the base is stored
  (`Reading`); that an undisturbed clear is the only one, while several tasks may
  be in Log_Inits of other types (`Sole`); and that no address is erased when this
  log is not being cleared, so that another type's Log_Init never makes a new
  ring of it (`Addressed`).
  `LogKeepsContract` is the refinement: each step shows LogContract one of its
  steps or none. Its invariant (`OInv`) says which records are in which slots:
  in the order of their writing from the write address on (`InOrder`), where
  nothing has cut into a clear and the power has not failed; in the middle of a
  clear, how far it has come (`Clearing`, `Erasing`): only the slots it has still
  to erase hold records, and the count of bytes left, which ends at exactly zero
  only if it began with whole records, is that of those slots. The same invariant
  gives `LogKeepsToSlots`, that an undisturbed log is written and erased at slots of
  its ring and nowhere else, and `ClearGoesDown`, that each turn of a clear leaves
  one slot less until the `u16` count is exactly zero.
* **ParamsProof.** `DefaultIsKept`. The invariant follows systemDefault byte by
  byte to the reset, where the start must find the EEPROM erased (`Programs`),
  and the save of that start, load by load and write by write, while nobody else
  is at work (`Saving`). `ParamsTypes`: what a value is read back as from its
  bytes has the value's type (`Sound`, `Typed`). `SavingKeepsOthers` (`LInv`): the
  edit copies that a page began with are still the parameters where nobody has
  set any. `CommandsHit` (`CInv`): while a TCP command still has its number to
  find, its zone is the only one with it until another task renumbers
  one. `PowerCycleIsHarmless` (`PInv`): a byte of the EEPROM that differs from
  memory is known to be late, or is one that a program under way will write
  (`Synced`), because an assignment is followed by the writing of every byte in
  every program (`Followed`); with no program under way all bytes agree, and
  a start reads back what was there.
* **HostProof, the pager.** `PagerTypes`, `PagesKeepOrder`, `EndsAreTold`,
  `CursorStrays`, for rings and pages of any size. The page readers are loops, a
  recursive function in the model; what they read is found turn by turn, by
  induction over the number of turns (`SetInduction`, from the least element of
  a set of naturals that is not empty). Downwards, i turns after the cursor
  stood above record x have read the i records below it, or all there are
  (`DownAt`); upwards likewise (`UpAt`). Records that follow each other are in
  slots that do, over the seam (`SlotOfNext`), and two in the ring are never in
  one (`SlotOfOwn`), so a loop marks an end at the oldest or the newest record
  and nowhere else. The invariant `Typed /\ (kept => On)` then says of a
  reader that nothing has disturbed: its page are the records from `top` down;
  the cursor is at the end of the page at which the last turn left it; `top`
  is a whole number of pages below the newest record; and the flags are those
  of that place (`Reads`). `PagesInOrder` alone is not inductive: without the
  cursor, the direction and the count of the last page nothing is known of the
  next. That a full ring is divided into whole pages (`WholePages`) needs that
  TOTAL is a multiple of the page: nothing stops the loop at the oldest record
  of a full ring, and from a page that is not whole it would go on into the
  newest ones. The bounds `Records` and `Stray` may have any value.

**Only model-checked:** all liveness (the prover has no rules for ENABLED). For
two of these properties the safety they rest on is proved: `EveryRequestServed` needs
that some task can always go on (`HostNeverStalls`), `ClearEnds` that the
loop comes nearer to its end with every turn (`ClearGoesDown`); that turns are
taken is fairness and stays with TLC. What these theorems and the type invariants
(other than LogPager's) state is proved, not run.

## 6. What is not modelled, and why

* Thresholds, filtering and unit conversions of the sampled values: a reading
  is the condition it stands for. With them goes the page that edits thresholds
  (main.c:1466).
* The read-modify-write race on `ALARM_STATE` is in SwitchInput only; Detection
  and AlarmHost update the word in one step. Their results hold for runs in
  which no such race is lost.
* A clear of one type that erases what belongs to another: if the address of the
  log being cleared was torn by a power failure, the length of the erasure is
  counted from an address outside its ring (log.c:438) and reaches into other
  rings. EventLog has the clear's own log only, where `torn` excuses it.
* `timerHandlerFlag`, whose bits tasks clear and interrupts set without protection
  (main.c:5639): a request that is lost delays a check until the next tick, and
  the fairness of the checks stands for that.
* Network settings, passwords, dates: stored like the parameters of Params, in
  blocks that nothing else modelled here reads.
* The framing of the TCP protocol and its connection loop: what a receive on a
  closed connection returns is lwIP's to say (tcp_server.c:81).
* Navigation between the screens of the menu, the key mailbox and key_task: a
  screen changes nothing that others see until one of the pages modelled saves.
* LCD drawing, SSI output, Ethernet descriptors, memory pools, the pin drivers
  and the demo clients change no alarm state.
* uC/OS-II (but for its mutex and its priorities), lwIP, the STM32 peripheral
  library, USMART and the generated `fsdata.c` are vendored or generated. They
  are nearly all of the repository's lines: the firmware's own logic is a few
  thousand of them, which is what these modules are about.

## 7. What is left

Inside the scope above: sampling order and filtering of `sampleAdc` with the
thresholds as data; the connection loop of the TCP server, once its library is
given a contract; menu navigation. Of the properties that runs check, only the
liveness ones are without a theorem.
