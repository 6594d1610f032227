------------------------------ MODULE EventLog ------------------------------
(***************************************************************************)
(* The event log of one type of alarm (log.c): a ring of records in the    *)
(* EEPROM, the address of the next one in RAM and, as two bytes, in the    *)
(* EEPROM, written byte by byte.  watch_task writes records (WriteLog);    *)
(* the web and the LCD task erase the log (FastClearLog), which takes      *)
(* seconds, and watch_task, being more urgent, may write in the middle of  *)
(* it.  A clear ends in Log_Init, which reads the addresses of all five    *)
(* types back: the clear of another type is, for this one, its Log_Init.   *)
(* The power may fail at any byte.                                         *)
(*                                                                         *)
(* The bytes of a record carry the number of the record, 0 for 0xFF: the   *)
(* records of a log are numbered in the order of their writing.            *)
(***************************************************************************)
EXTENDS Integers, Sequences

CONSTANTS
  TOTAL,      (* EACH_TYPE_LOG_TOTAL, records in the ring: 300               *)
  SIZE,       (* EACH_LOG_SIZE, bytes of a record: 20                        *)
  BASE,       (* EACH_TYPE_LOG_BASED_ADDR, where the ring begins             *)
  BYTE,       (* values of a byte: 256                                       *)
  Records,    (* BOUND: records ever written                                 *)
  Clearer     (* uC/OS-II priorities of the tasks that clear: 5, 6           *)

MAX == BASE + (TOTAL - 1) * SIZE             \* EACH_TYPE_LOG_MAX_ADDR
Ring == BASE .. MAX + SIZE - 1
WORD == BYTE * BYTE
BLANK == 0                                   \* the byte 0xFF in the ring
FF == BYTE - 1                               \* the byte 0xFF in an address

ASSUME LogAssumption ==
  /\ {TOTAL, SIZE, BASE, BYTE, Records} \subseteq Nat \ {0}
  /\ BYTE > 1
  /\ MAX + SIZE < WORD
  /\ Clearer \subseteq {5, 6}

VARIABLES
  eeprom,             (* the bytes of the ring                               *)
  stored,             (* the two bytes of the next address in the EEPROM     *)
  nextWriteAddrVal,   (* the next address in RAM                             *)
  written,            (* records written so far                              *)
  pc, at, left,       (* per clearing task: next access, erasing from, for   *)
  high, low,          (* per clearing task: the bytes read by Log_Init; 0    *)
                      (* when it has taken them up                           *)
  mixed,              (* HISTORY: a clear was cut into by a write, another   *)
                      (* clear or a reset, or the Log_Init of another type's *)
                      (* clear by a write or a clear                         *)
  torn                (* HISTORY: the power failed in a write or a clear     *)

history == <<mixed, torn>>
ringVars == <<eeprom, stored, nextWriteAddrVal, written>>
taskVars == <<pc, at, left, high, low>>
vars == <<ringVars, taskVars, history>>

Steps == {"idle", "high", "test", "erase", "init", "low", "take", "base", "baseHigh",
          "otherLow", "otherTake"}

TypeOK ==
  /\ eeprom \in [Ring -> 0 .. Records]
  /\ stored \in [low : 0 .. FF, high : 0 .. FF]
  /\ nextWriteAddrVal \in 0 .. WORD - 1
  /\ written \in 0 .. Records
  /\ pc \in [Clearer -> Steps]
  /\ at \in [Clearer -> Nat]
  /\ left \in [Clearer -> 0 .. WORD - 1]
  /\ high \in [Clearer -> 0 .. FF]
  /\ low \in [Clearer -> 0 .. FF]
  /\ {mixed, torn} \subseteq BOOLEAN

Bytes(a) == [low |-> a % BYTE, high |-> a \div BYTE]
Address(b) == b.high * BYTE + b.low
Erased == [low |-> FF, high |-> FF]

\* Log_Init when nothing else runs: what the EEPROM says, or a new ring.
Booted(b) == IF b = Erased THEN BASE ELSE Address(b)

\* The EEPROM as delivered, after its first Log_Init.
Init ==
  /\ eeprom = [a \in Ring |-> BLANK]
  /\ nextWriteAddrVal = Booted(Erased)
  /\ stored = Bytes(BASE)
  /\ written = 0
  /\ pc = [t \in Clearer |-> "idle"]
  /\ at = [t \in Clearer |-> BASE]
  /\ left = [t \in Clearer |-> 0]
  /\ high = [t \in Clearer |-> 0]
  /\ low = [t \in Clearer |-> 0]
  /\ mixed = FALSE
  /\ torn = FALSE

Quiet == \A t \in Clearer : pc[t] = "idle"

\* The task clears this log; it may also be in the Log_Init of another clear.
Clears(t) == pc[t] \notin {"idle", "otherLow", "otherTake"}
ClearUnderWay == \E t \in Clearer : Clears(t)

CutsInto(something) == mixed' = (mixed \/ something) /\ UNCHANGED torn

-----------------------------------------------------------------------------
(* WriteLog, in watch_task: no other task runs until it is done.           *)

Advance(a) == IF a + SIZE > MAX THEN BASE ELSE a + SIZE

\* The first n bytes of record r written at a.
Written(a, r, n) ==
  [x \in Ring |-> IF x \in a .. a + n - 1 THEN r ELSE eeprom[x]]

WriteLog ==
  /\ CutsInto(~Quiet)
  /\ written < Records
  /\ written' = written + 1
  /\ eeprom' = Written(nextWriteAddrVal, written + 1, SIZE)
  /\ nextWriteAddrVal' = Advance(nextWriteAddrVal)
  /\ stored' = Bytes(Advance(nextWriteAddrVal))
  /\ UNCHANGED taskVars

-----------------------------------------------------------------------------
(* FastClearLog, in the web or the LCD task, one EEPROM access at a time   *)

Runs(t) == \A u \in Clearer : u < t => pc[u] = "idle"

Step(t, from, to) ==
  /\ Runs(t)
  /\ pc[t] = from
  /\ pc' = [pc EXCEPT ![t] = to]

EraseLow(t) ==
  /\ CutsInto(~Quiet)
  /\ Step(t, "idle", "high")
  /\ stored' = [stored EXCEPT !.low = FF]
  /\ UNCHANGED <<eeprom, nextWriteAddrVal, written, at, left, high, low>>

EraseHigh(t) ==
  /\ Step(t, "high", "test")
  /\ stored' = [stored EXCEPT !.high = FF]
  /\ UNCHANGED <<eeprom, nextWriteAddrVal, written, at, left, high, low>>

\* Mutants: a log that was filled erased only up to the next address; one byte
\* short.
ToErase_Partly(full) == (nextWriteAddrVal - BASE) % WORD

ToErase_Odd(full) == IF full THEN TOTAL * SIZE - 1 ELSE (nextWriteAddrVal - BASE) % WORD

\* The whole ring if it was filled and written over, else what was written
\* (u16 arithmetic).
ToErase(full) == IF full THEN TOTAL * SIZE ELSE (nextWriteAddrVal - BASE) % WORD

\* An address outside the ring holds a byte of something else.
Measure(t) ==
  /\ \E full \in IF nextWriteAddrVal \in Ring
                 THEN {eeprom[nextWriteAddrVal] # BLANK} ELSE BOOLEAN :
       /\ left' = [left EXCEPT ![t] = ToErase(full)]
       /\ Step(t, "test", IF ToErase(full) = 0 THEN "init" ELSE "erase")
  /\ at' = [at EXCEPT ![t] = BASE]
  /\ UNCHANGED <<ringVars, high, low>>

\* FastEraseLogEEProm: the first byte of each record; ends when exactly
\* nothing is left.
EraseRecord(t) ==
  /\ Step(t, "erase", IF left[t] = SIZE THEN "init" ELSE "erase")
  /\ eeprom' = Written(at[t], BLANK, 1)
  /\ at' = [at EXCEPT ![t] = (@ + SIZE) % WORD]
  /\ left' = [left EXCEPT ![t] = (@ - SIZE) % WORD]
  /\ UNCHANGED <<stored, nextWriteAddrVal, written, high, low>>

\* Log_Init: the next address read back, high byte first.
ReadHigh(t) ==
  /\ Step(t, "init", "low")
  /\ high' = [high EXCEPT ![t] = stored.high]
  /\ UNCHANGED <<ringVars, at, left, low>>

\* The clear of another type has come to its Log_Init, and to this type's
\* address (log.c:441, 40-46).
OtherHigh(t) ==
  /\ CutsInto(ClearUnderWay)
  /\ Step(t, "idle", "otherLow")
  /\ high' = [high EXCEPT ![t] = stored.high]
  /\ UNCHANGED <<ringVars, at, left, low>>

ReadLow(t) ==
  /\ Step(t, "low", "take") \/ Step(t, "otherLow", "otherTake")
  /\ low' = [low EXCEPT ![t] = stored.low]
  /\ UNCHANGED <<ringVars, at, left, high>>

Read(t) == [low |-> low[t], high |-> high[t]]
Dropped(t) == /\ high' = [high EXCEPT ![t] = 0]
              /\ low' = [low EXCEPT ![t] = 0]

\* Mutant: the base address taken up but not stored.
Take_Unstored(t) ==
  /\ Step(t, "take", "idle") \/ Step(t, "otherTake", "idle")
  /\ nextWriteAddrVal' = Booted(Read(t))
  /\ Dropped(t)
  /\ UNCHANGED <<eeprom, stored, written, at, left>>

\* The address taken up; two erased bytes make a new ring.
Take(t) ==
  /\ \E from \in {"take", "otherTake"} :
       Step(t, from, IF Read(t) = Erased THEN "base" ELSE "idle")
  /\ nextWriteAddrVal' = Address(Read(t))
  /\ Dropped(t)
  /\ UNCHANGED <<eeprom, stored, written, at, left>>

StoreBaseLow(t) ==
  /\ Step(t, "base", "baseHigh")
  /\ nextWriteAddrVal' = BASE
  /\ stored' = [stored EXCEPT !.low = Bytes(BASE).low]
  /\ UNCHANGED <<eeprom, written, at, left, high, low>>

StoreBaseHigh(t) ==
  /\ Step(t, "baseHigh", "idle")
  /\ stored' = [stored EXCEPT !.high = Bytes(BASE).high]
  /\ UNCHANGED <<eeprom, nextWriteAddrVal, written, at, left, high, low>>

GoesOn(t) ==
  /\ \/ EraseHigh(t) \/ Measure(t) \/ EraseRecord(t)
     \/ ReadHigh(t) \/ ReadLow(t) \/ Take(t) \/ StoreBaseLow(t) \/ StoreBaseHigh(t)
  /\ UNCHANGED history

-----------------------------------------------------------------------------
(* Resets                                                                  *)

\* The EEPROM left as b and the ring as it is, the host starts again.
Boot(b) ==
  /\ nextWriteAddrVal' = Booted(b)
  /\ stored' = Bytes(Booted(b))
  /\ pc' = [t \in Clearer |-> "idle"]
  /\ at' = [t \in Clearer |-> BASE]
  /\ left' = [t \in Clearer |-> 0]
  /\ high' = left'
  /\ low' = left'

\* remoteShutdown(0), systemDefault: a task asks for a reset, between two
\* records and, if the less urgent task clears, between two of its accesses.
Reset ==
  /\ CutsInto(ClearUnderWay)
  /\ \E t \in {5, 6, 7} : \A u \in Clearer : u <= t => pc[u] = "idle"
  /\ Boot(stored)
  /\ UNCHANGED <<eeprom, written>>

\* The power fails after n of the bytes WriteLog writes.
CutWrite(n) ==
  /\ torn' = TRUE
  /\ mixed' = (mixed \/ ClearUnderWay)
  /\ written < Records
  /\ written' = written + 1
  /\ eeprom' = Written(nextWriteAddrVal, written + 1, IF n < SIZE THEN n ELSE SIZE)
  /\ Boot(IF n <= SIZE THEN stored
          ELSE [stored EXCEPT !.low = Bytes(Advance(nextWriteAddrVal)).low])

\* The power fails between two records and, if a task clears, between two of
\* its accesses.
PowerFails ==
  /\ torn' = (torn \/ ClearUnderWay)
  /\ UNCHANGED mixed
  /\ Boot(stored)
  /\ UNCHANGED <<eeprom, written>>

Next ==
  \/ WriteLog
  \/ \E t \in Clearer : EraseLow(t)
  \/ \E t \in Clearer : OtherHigh(t)
  \/ \E t \in Clearer : GoesOn(t)
  \/ Reset
  \/ \E n \in 0 .. SIZE + 1 : CutWrite(n)
  \/ PowerFails

(***************************************************************************)
(* A task that clears goes on: the mutex of the bus is never held for      *)
(* longer than a byte, and watch_task sleeps between its rounds.           *)
(***************************************************************************)
Fairness == \A t \in Clearer : WF_vars(GoesOn(t))

Spec == Init /\ [][Next]_vars /\ Fairness

-----------------------------------------------------------------------------
(* What a reader sees                                                      *)

isLogFull == eeprom[MAX] # BLANK

Slot(i) == eeprom[BASE + (i % TOTAL) * SIZE]
NextSlot == (nextWriteAddrVal - BASE) \div SIZE

\* The records that ReadFirstLog and ReadNextLog walk through, oldest first.
Visible ==
  IF isLogFull THEN [i \in 1 .. TOTAL |-> Slot(NextSlot + i - 1)]
  ELSE [i \in 1 .. NextSlot |-> Slot(i - 1)]

-----------------------------------------------------------------------------
(* Properties                                                              *)

Orderly == ~ClearUnderWay /\ ~mixed /\ ~torn

Contract ==
  INSTANCE LogContract
    WITH Capacity <- TOTAL, records <- IF Orderly THEN Visible ELSE <<>>

\* log.h:9 "when a block of the log is full it rolls back to its first address
\* and overwrites the oldest": records in order, none lost but the oldest; a
\* clear that nothing disturbs takes them all, the ring filled or not; a reset
\* or a loss of power between two records changes nothing, nor does the clear
\* of another type, wherever it is.  So it goes until a write or a reset cuts
\* into a clear (the record then written may be erased, and the log show
\* blanks), a write into another type's Log_Init (the address taken up is then
\* the one before it, or half of each) or the power fails in the middle of a
\* record or a clear.
ContractKept == Contract!Spec

\* The next address a restart would read is the one in use (WriteLog, Log_Init),
\* at whatever byte the power failed: a torn address is taken up as it is; and
\* while the clear of another type reads it back.  Only a write between the
\* bytes Log_Init reads, or before it takes them up, can part them.
AddressAgrees == ~ClearUnderWay /\ ~mixed => nextWriteAddrVal = Address(stored)

\* A clear that has begun ends, or the host is started again, as long as the
\* log is whole (the loop of FastEraseLogEEProm tests for exactly nothing left;
\* from an address that is none it would go round the whole EEPROM).
ClearEnds ==
  \A t \in Clearer : Clears(t) ~> ~Clears(t) \/ mixed \/ torn

\* log.c:53 "each record holds only the time the alarm happened": what the log
\* shows while nobody clears it are records.  Not so once a record was written
\* into a clear, or into the Log_Init of another type's.
NoPhantoms ==
  Quiet /\ nextWriteAddrVal \in Ring => \A i \in DOMAIN Visible : Visible[i] # BLANK
=============================================================================
