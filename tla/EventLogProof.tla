---------------------------- MODULE EventLogProof ----------------------------
(***************************************************************************)
(* The log in a ring of any size at any address.  The next address in      *)
(* memory and its two bytes in the EEPROM agree, at whatever byte the      *)
(* power fails and wherever tasks are in clears of other types (IInv: what *)
(* Log_Init has read so far is what the EEPROM says).  And the log         *)
(* keeps what LogContract promises: of the invariant that needs, OInv,     *)
(* the larger part is what each access of a clear leaves, the count of     *)
(* what is left to erase above all, which ends at exactly zero only if it  *)
(* began with whole records.  The same invariant says where an             *)
(* undisturbed log is written and erased, and that a clear goes down.      *)
(***************************************************************************)
EXTENDS EventLog, SequenceTheorems, TLAPS

Word == 0 .. WORD - 1
TwoBytes == [low : 0 .. FF, high : 0 .. FF]

\* While a clear that nothing cuts into is under way, no other task reads or
\* erases; several may be in the Log_Init of other clears.
Sole == \A t, u \in Clearer : Clears(t) /\ pc[u] # "idle" => t = u

\* While Log_Init reads, the EEPROM keeps what it has read, and while it stores
\* the base, memory has the base.
Reading ==
  \A t \in Clearer :
    /\ pc[t] \in {"low", "take", "otherLow", "otherTake"} => high[t] = stored.high
    /\ pc[t] \in {"take", "otherTake"} => low[t] = stored.low
    /\ pc[t] = "baseHigh" => nextWriteAddrVal = BASE /\ stored.low = Bytes(BASE).low

\* Only a clear leaves both bytes erased: another type's Log_Init finds an
\* address.
Addressed == ~ ClearUnderWay => stored # Erased

Undisturbed == Sole /\ Reading /\ Addressed

IInv == TypeOK /\ AddressAgrees /\ (~ mixed => Undisturbed)

-----------------------------------------------------------------------------
(* Addresses and bytes                                                     *)

LEMMA Division ==
  ASSUME NEW a \in Nat, NEW b \in Nat \ {0}
  PROVE  /\ a \div b \in Nat /\ a % b \in 0 .. b - 1
         /\ a = (a \div b) * b + (a % b)
OBVIOUS

LEMMA Sizes ==
  /\ BYTE \in Nat /\ BYTE > 1 /\ FF \in Nat /\ FF = BYTE - 1
  /\ WORD \in Nat /\ WORD = FF * BYTE + BYTE
  /\ SIZE \in Nat \ {0} /\ BASE \in Nat \ {0} /\ MAX \in Nat /\ BASE <= MAX /\ MAX < WORD
  /\ TOTAL \in Nat \ {0} /\ TOTAL * SIZE \in Nat /\ TOTAL * SIZE < WORD
  /\ Records \in Nat
<1>1. /\ {TOTAL, SIZE, BASE, BYTE, Records} \subseteq Nat \ {0} /\ BYTE > 1
      /\ MAX + SIZE < WORD
  BY LogAssumption
<1>2. TOTAL \in Nat /\ TOTAL >= 1 /\ SIZE \in Nat /\ SIZE >= 1 /\ BASE \in Nat /\ BASE >= 1
      /\ BYTE \in Nat /\ Records \in Nat
  BY <1>1
<1>3. (TOTAL - 1) * SIZE \in Nat /\ TOTAL * SIZE = (TOTAL - 1) * SIZE + SIZE
  BY <1>2
<1>4. MAX \in Nat /\ BASE <= MAX /\ MAX + SIZE = BASE + TOTAL * SIZE
  BY <1>2, <1>3 DEF MAX
<1>5. FF \in Nat /\ FF = BYTE - 1 /\ WORD \in Nat /\ WORD = FF * BYTE + BYTE
  BY <1>1, <1>2 DEF FF, WORD
<1>6. MAX < WORD /\ TOTAL * SIZE < WORD /\ TOTAL * SIZE \in Nat
  <2>1. \A m, s, w, b, p \in Nat : m + s < w /\ m + s = b + p => m < w /\ p < w
    OBVIOUS
  <2>2. TOTAL * SIZE \in Nat
    BY <1>2, <1>3
  <2> QED
    BY <1>1, <1>2, <1>4, <1>5, <2>1, <2>2
<1> QED
  BY <1>1, <1>2, <1>4, <1>5, <1>6

LEMMA AddressInWord ==
  ASSUME NEW b \in TwoBytes
  PROVE  Address(b) \in Word
<1>1. b.low \in 0 .. FF /\ b.high \in 0 .. FF
  BY DEF TwoBytes
<1>2. b.high * BYTE \in Nat /\ b.high * BYTE <= FF * BYTE
  <2>1. \A h, f, y \in Nat : h <= f => h * y \in Nat /\ h * y <= f * y
    OBVIOUS
  <2> QED
    BY <1>1, <2>1, Sizes
<1>3. \A p, q, w, l, y \in Nat : p <= q /\ w = q + y /\ l <= y - 1 => p + l \in 0 .. w - 1
  OBVIOUS
<1>4. FF * BYTE \in Nat
  BY Sizes
<1> QED
  BY <1>1, <1>2, <1>3, <1>4, Sizes DEF Address, Word

\* Stored and read back, an address is the same.
LEMMA StoredAddress ==
  ASSUME NEW a \in Word
  PROVE  Bytes(a) \in TwoBytes /\ Address(Bytes(a)) = a
<1>1. a \in Nat /\ a < FF * BYTE + BYTE
  BY Sizes DEF Word
<1>2. /\ a \div BYTE \in Nat /\ a % BYTE \in 0 .. BYTE - 1
      /\ a = (a \div BYTE) * BYTE + (a % BYTE)
  <2>1. BYTE \in Nat \ {0}
    BY Sizes
  <2>2. a \in Nat
    BY <1>1
  <2> QED
    BY <2>1, <2>2, Division
<1>3. a \div BYTE <= FF
  <2>1. \A h, f, y \in Nat : f < h => f * y + y <= h * y
    OBVIOUS
  <2> SUFFICES ASSUME FF < a \div BYTE
               PROVE  FALSE
    BY <1>2, Sizes
  <2>2. FF * BYTE + BYTE <= (a \div BYTE) * BYTE
    BY <1>2, <2>1, Sizes
  <2> QED
    BY <1>1, <1>2, <2>2, Sizes
<1>4. a \div BYTE \in 0 .. FF /\ a % BYTE \in 0 .. FF
  BY <1>2, <1>3, Sizes
<1> QED
  BY <1>2, <1>4 DEF Bytes, Address, TwoBytes

LEMMA InWord ==
  /\ BASE \in Word
  /\ \A a \in Word : Advance(a) \in Word
  /\ \A b \in TwoBytes : Booted(b) \in Word
<1>1. BASE \in Word
  BY Sizes DEF Word
<1>2. ASSUME NEW a \in Word
      PROVE  Advance(a) \in Word
  BY <1>1, Sizes DEF Advance, Word
<1>3. ASSUME NEW b \in TwoBytes
      PROVE  Booted(b) \in Word
  BY <1>1, AddressInWord DEF Booted
<1> QED
  BY <1>1, <1>2, <1>3

\* No address in use, and none a restart stores, reads as erased.
LEMMA NotErased ==
  /\ Erased \in TwoBytes
  /\ Bytes(BASE) # Erased
  /\ \A a \in Word : Bytes(Advance(a)) # Erased
  /\ \A b \in TwoBytes : Bytes(Booted(b)) # Erased
<1>1. /\ FF \in Nat /\ BYTE \in Nat /\ FF = BYTE - 1 /\ FF * BYTE \in Nat
      /\ WORD = FF * BYTE + BYTE /\ WORD \in Nat
  BY Sizes
<1>2. Erased \in TwoBytes /\ Address(Erased) = WORD - 1
  BY <1>1 DEF Erased, TwoBytes, Address
<1>3. ASSUME NEW b \in TwoBytes, Address(b) = WORD - 1
      PROVE  b = Erased
  <2>1. b.low \in 0 .. FF /\ b.high \in 0 .. FF /\ b = [low |-> b.low, high |-> b.high]
    BY DEF TwoBytes
  <2>2. b.high * BYTE + b.low = FF * BYTE + FF
    BY <1>1, <1>3 DEF Address
  <2>3. \A h, f, y \in Nat : h < f => h * y + y <= f * y /\ h * y \in Nat
    OBVIOUS
  <2>4. b.high = FF
    <3> SUFFICES ASSUME b.high < FF
                 PROVE  FALSE
      BY <1>1, <2>1
    <3>1. b.high * BYTE + BYTE <= FF * BYTE /\ b.high * BYTE \in Nat
      BY <1>1, <2>1, <2>3
    <3> QED
      BY <1>1, <2>1, <2>2, <3>1
  <2>5. b.low = FF
    BY <1>1, <2>1, <2>2, <2>4
  <2> QED
    BY <2>1, <2>4, <2>5 DEF Erased
<1>4. ASSUME NEW a \in Word, a # WORD - 1
      PROVE  Bytes(a) # Erased
  BY <1>2, <1>4, StoredAddress
<1>5. MAX \in Nat /\ BASE \in Nat /\ BASE <= MAX /\ MAX < WORD - 1 /\ SIZE \in Nat
  <2>1. MAX + SIZE < WORD /\ SIZE \in Nat /\ SIZE >= 1
    BY LogAssumption, Sizes
  <2> QED
    BY <1>1, <2>1, Sizes
<1>6. Bytes(BASE) # Erased
  <2>1. BASE \in Word /\ BASE # WORD - 1
    BY <1>1, <1>5, InWord
  <2> QED
    BY <1>4, <2>1
<1>7. ASSUME NEW a \in Word
      PROVE  Bytes(Advance(a)) # Erased
  <2>1. Advance(a) \in Word /\ Advance(a) # WORD - 1
    BY <1>1, <1>5, InWord DEF Advance, Word
  <2> QED
    BY <1>4, <2>1
<1>8. ASSUME NEW b \in TwoBytes
      PROVE  Bytes(Booted(b)) # Erased
  <2>1. CASE b = Erased
    BY <1>6, <2>1 DEF Booted
  <2>2. CASE b # Erased
    <3>1. Address(b) \in Word /\ Address(b) # WORD - 1
      BY <1>3, <2>2, AddressInWord
    <3> QED
      BY <1>4, <2>2, <3>1 DEF Booted
  <2> QED
    BY <2>1, <2>2
<1> QED
  BY <1>2, <1>6, <1>7, <1>8

\* The number of a record, or blank, written over some bytes of the ring.
LEMMA RingKept ==
  ASSUME eeprom \in [Ring -> 0 .. Records], NEW a, NEW n, NEW r \in 0 .. Records
  PROVE  Written(a, r, n) \in [Ring -> 0 .. Records]
BY DEF Written

\* What fits in a word after unsigned arithmetic.
LEMMA Modulo ==
  ASSUME NEW i \in Int
  PROVE  i % WORD \in Word
<1>1. \A x \in Int, w \in Nat \ {0} : x % w \in 0 .. w - 1
  OBVIOUS
<1>2. WORD \in Nat \ {0}
  BY Sizes
<1> QED
  BY <1>1, <1>2 DEF Word

-----------------------------------------------------------------------------
(* The invariant                                                           *)

LEMMA Start == Init => IInv
<1> SUFFICES ASSUME Init
             PROVE  IInv
  OBVIOUS
<1>1. BASE \in Word /\ Bytes(BASE) \in TwoBytes /\ Address(Bytes(BASE)) = BASE
  BY InWord, StoredAddress
<1>2. nextWriteAddrVal = BASE
  <2>1. Erased \in TwoBytes
    BY Sizes DEF Erased, TwoBytes
  <2> QED
    BY <2>1 DEF Init, Booted
<1>3. TypeOK
  <2>1. 0 \in 0 .. Records /\ BASE \in Nat /\ 0 \in 0 .. WORD - 1 /\ 0 \in 0 .. FF
    BY <1>1, Sizes DEF Word
  <2>2. eeprom \in [Ring -> 0 .. Records] /\ written \in 0 .. Records
    BY <2>1 DEF Init, BLANK
  <2>3. nextWriteAddrVal \in 0 .. WORD - 1 /\ stored \in [low : 0 .. FF, high : 0 .. FF]
    BY <1>1, <1>2 DEF Init, Word, TwoBytes
  <2>4. /\ pc \in [Clearer -> Steps] /\ at \in [Clearer -> Nat]
        /\ left \in [Clearer -> 0 .. WORD - 1] /\ high \in [Clearer -> 0 .. FF]
        /\ low \in [Clearer -> 0 .. FF]
    BY <2>1 DEF Init, Steps
  <2>5. {mixed, torn} \subseteq BOOLEAN
    BY DEF Init
  <2> QED
    BY <2>2, <2>3, <2>4, <2>5 DEF TypeOK
<1>4. AddressAgrees
  BY <1>1, <1>2 DEF Init, AddressAgrees
<1>5. Undisturbed
  BY NotErased DEF Init, Undisturbed, Sole, Reading, Addressed, Clears
<1> QED
  BY <1>3, <1>4, <1>5 DEF IInv

\* A start of the host, whatever two bytes of the address it finds.
LEMMA BootKeeps ==
  ASSUME TypeOK, NEW b \in TwoBytes, Boot(b)
  PROVE  /\ nextWriteAddrVal' \in Word /\ stored' \in TwoBytes
         /\ nextWriteAddrVal' = Address(stored')
         /\ pc' = [t \in Clearer |-> "idle"]
         /\ pc' \in [Clearer -> Steps] /\ at' \in [Clearer -> Nat]
         /\ left' \in [Clearer -> Word] /\ high' \in [Clearer -> 0 .. FF]
         /\ low' \in [Clearer -> 0 .. FF]
         /\ Undisturbed'
<1>1. Booted(b) \in Word
  BY InWord
<1>2. Bytes(Booted(b)) \in TwoBytes /\ Address(Bytes(Booted(b))) = Booted(b)
  BY <1>1, StoredAddress
<1>3. pc' = [t \in Clearer |-> "idle"]
  BY DEF Boot
<1>4. Undisturbed'
  <2>1. Sole' /\ Reading'
    BY <1>3 DEF Sole, Reading, Clears
  <2>2. stored' # Erased'
    BY NotErased DEF Boot, Erased, FF
  <2> QED
    BY <2>1, <2>2 DEF Undisturbed, Addressed
<1>5. /\ at' \in [Clearer -> Nat] /\ left' \in [Clearer -> Word]
      /\ high' \in [Clearer -> 0 .. FF] /\ low' \in [Clearer -> 0 .. FF]
  <2>1. BASE \in Nat /\ 0 \in Word /\ 0 \in 0 .. FF
    BY <1>1, Sizes DEF Word
  <2> QED
    BY <2>1 DEF Boot
<1> QED
  BY <1>1, <1>2, <1>3, <1>4, <1>5 DEF Boot, Steps

LEMMA WriteKeeps == IInv /\ WriteLog => IInv'
<1> SUFFICES ASSUME IInv, WriteLog
             PROVE  IInv'
  OBVIOUS
<1> USE DEF IInv
<1>1. nextWriteAddrVal \in Word /\ Advance(nextWriteAddrVal) \in Word
  BY InWord DEF TypeOK, Word
<1>2. /\ nextWriteAddrVal' \in Word /\ stored' \in TwoBytes
      /\ nextWriteAddrVal' = Address(stored')
  BY <1>1, StoredAddress DEF WriteLog
<1>3. written' \in 0 .. Records
  BY Sizes DEF WriteLog, TypeOK
<1>4. eeprom' \in [Ring -> 0 .. Records]
  <2>1. written + 1 \in 0 .. Records
    BY <1>3 DEF WriteLog
  <2> QED
    BY <2>1, RingKept DEF WriteLog, TypeOK
<1>5. mixed' \in BOOLEAN /\ torn' = torn
  BY DEF WriteLog, CutsInto, TypeOK
<1>6. TypeOK'
  BY <1>2, <1>3, <1>4, <1>5 DEF TypeOK, WriteLog, taskVars, Word, TwoBytes
<1>7. AddressAgrees'
  BY <1>2 DEF AddressAgrees
<1>8. ~ mixed' => Undisturbed'
  <2> SUFFICES ASSUME ~ mixed'
               PROVE  Undisturbed'
    OBVIOUS
  <2>1. pc' = pc /\ \A t \in Clearer : pc[t] = "idle"
    BY DEF WriteLog, CutsInto, Quiet, taskVars
  <2>2. stored' # Erased'
    BY <1>1, NotErased DEF WriteLog, Erased, FF
  <2> QED
    BY <2>1, <2>2 DEF Undisturbed, Sole, Reading, Addressed, Clears
<1> QED
  BY <1>6, <1>7, <1>8

LEMMA ResetKeeps == IInv /\ Reset => IInv'
<1> SUFFICES ASSUME IInv, Reset
             PROVE  IInv'
  OBVIOUS
<1> USE DEF IInv
<1>1. stored \in TwoBytes
  BY DEF TypeOK, TwoBytes
<1>2. Boot(stored) /\ eeprom' = eeprom /\ written' = written
  BY DEF Reset
<1>3. mixed' \in BOOLEAN /\ torn' = torn
  BY DEF Reset, CutsInto, TypeOK
<1>4. TypeOK'
  BY <1>1, <1>2, <1>3, BootKeeps DEF TypeOK, Word, TwoBytes
<1> QED
  BY <1>1, <1>2, <1>4, BootKeeps DEF AddressAgrees

LEMMA CutWriteKeeps ==
  ASSUME IInv, NEW n \in 0 .. SIZE + 1, CutWrite(n)
  PROVE  IInv'
<1> USE DEF IInv
<1> DEFINE new == Bytes(Advance(nextWriteAddrVal))
           found == IF n <= SIZE THEN stored ELSE [stored EXCEPT !.low = new.low]
<1>1. stored \in TwoBytes /\ new \in TwoBytes
  BY InWord, StoredAddress DEF TypeOK, TwoBytes, Word
<1>2. found \in TwoBytes
  BY <1>1 DEF TwoBytes
<1>3. Boot(found)
  BY DEF CutWrite
<1>4. written' \in 0 .. Records
  BY Sizes DEF CutWrite, TypeOK
<1>5. eeprom' \in [Ring -> 0 .. Records]
  <2>1. written + 1 \in 0 .. Records
    BY <1>4 DEF CutWrite
  <2> QED
    BY <2>1, RingKept DEF CutWrite, TypeOK
<1>6. {mixed', torn'} \subseteq BOOLEAN
  BY DEF CutWrite, TypeOK
<1> HIDE DEF found
<1>7. TypeOK'
  BY <1>2, <1>3, <1>4, <1>5, <1>6, BootKeeps DEF TypeOK, Word, TwoBytes
<1> QED
  BY <1>2, <1>3, <1>7, BootKeeps DEF AddressAgrees

LEMMA PowerFailsKeeps == IInv /\ PowerFails => IInv'
<1> SUFFICES ASSUME IInv, PowerFails
             PROVE  IInv'
  OBVIOUS
<1> USE DEF IInv
<1>1. stored \in TwoBytes
  BY DEF TypeOK, TwoBytes
<1>2. Boot(stored) /\ eeprom' = eeprom /\ written' = written /\ mixed' = mixed
  BY DEF PowerFails
<1>3. torn' \in BOOLEAN
  BY DEF PowerFails, TypeOK
<1>4. TypeOK'
  BY <1>1, <1>2, <1>3, BootKeeps DEF TypeOK, Word, TwoBytes
<1> QED
  BY <1>1, <1>2, <1>4, BootKeeps DEF AddressAgrees

-----------------------------------------------------------------------------
(* The clear, access by access                                             *)

\* An access that writes at most the two bytes of the address, in a clear that
\* goes on.
LEMMA AccessKeeps ==
  ASSUME IInv, NEW t \in Clearer, NEW from \in Steps,
         NEW to \in Steps \ {"idle", "otherLow", "otherTake"},
         Step(t, from, to), stored' \in TwoBytes,
         UNCHANGED <<eeprom, written, at, left, torn>>, nextWriteAddrVal' \in Word,
         high' \in [Clearer -> 0 .. FF], low' \in [Clearer -> 0 .. FF], mixed' \in BOOLEAN
  PROVE  TypeOK' /\ AddressAgrees' /\ Addressed'
<1> USE DEF IInv
<1>1. pc' = [pc EXCEPT ![t] = to] /\ pc' \in [Clearer -> Steps] /\ pc'[t] = to
  BY DEF Step, TypeOK
<1>2. TypeOK'
  BY <1>1 DEF TypeOK, TwoBytes, Word
<1>3. ClearUnderWay'
  BY <1>1 DEF ClearUnderWay, Clears
<1> QED
  BY <1>2, <1>3 DEF AddressAgrees, Addressed

\* If nothing cut into the clear, its task is the only one with a step to take.
LEMMA Alone ==
  ASSUME IInv, ~ mixed, NEW t \in Clearer, Clears(t)
  PROVE  \A u \in Clearer : u # t => pc[u] = "idle"
BY DEF IInv, Undisturbed, Sole

\* Nor is there a clear under way while a task is in the Log_Init of another;
\* what it reads is the address in use.
LEMMA OtherAlone ==
  ASSUME IInv, ~ mixed, NEW t \in Clearer, pc[t] \in {"otherLow", "otherTake"}
  PROVE  ~ ClearUnderWay /\ nextWriteAddrVal = Address(stored) /\ stored # Erased
<1>1. ~ ClearUnderWay
  BY DEF IInv, Undisturbed, Sole, ClearUnderWay, Clears
<1> QED
  BY <1>1 DEF IInv, AddressAgrees, Undisturbed, Addressed

LEMMA EraseLowKeeps ==
  ASSUME IInv, NEW t \in Clearer, EraseLow(t)
  PROVE  IInv'
<1> USE DEF IInv
<1>1. stored' \in TwoBytes
  BY Sizes DEF EraseLow, TypeOK, TwoBytes
<1>2. Step(t, "idle", "high") /\ {"idle", "high"} \subseteq Steps
  BY DEF EraseLow, Steps
<1>3. /\ UNCHANGED <<eeprom, nextWriteAddrVal, written, at, left, high, low, torn>>
      /\ mixed' \in BOOLEAN
  BY DEF EraseLow, CutsInto, TypeOK
<1>4. TypeOK' /\ AddressAgrees' /\ Addressed'
  BY <1>1, <1>2, <1>3, AccessKeeps DEF TypeOK, Word
<1>5. ASSUME ~ mixed'
      PROVE  Sole' /\ Reading'
  <2>1. \A u \in Clearer : pc[u] = "idle"
    BY <1>5 DEF EraseLow, CutsInto, Quiet
  <2>2. pc' = [pc EXCEPT ![t] = "high"]
    BY <1>2 DEF Step
  <2> QED
    BY <2>1, <2>2 DEF Sole, Reading, TypeOK, Clears
<1> QED
  BY <1>4, <1>5 DEF Undisturbed

\* Another clear comes to its Log_Init: if this log is not being cleared, it
\* reads the first byte of the address in use.
LEMMA OtherHighKeeps ==
  ASSUME IInv, NEW t \in Clearer, OtherHigh(t)
  PROVE  IInv'
<1> USE DEF IInv
<1>1. /\ pc[t] = "idle" /\ pc' = [pc EXCEPT ![t] = "otherLow"]
      /\ high' = [high EXCEPT ![t] = stored.high]
      /\ UNCHANGED <<eeprom, stored, nextWriteAddrVal, written, at, left, low, torn>>
      /\ mixed' = (mixed \/ ClearUnderWay)
  BY DEF OtherHigh, Step, CutsInto, ringVars
<1>2. TypeOK'
  BY <1>1 DEF TypeOK, Steps
<1>3. \A u \in Clearer : Clears(u)' <=> Clears(u)
  BY <1>1 DEF TypeOK, Clears
<1>4. ClearUnderWay' <=> ClearUnderWay
  BY <1>3 DEF ClearUnderWay
<1>5. AddressAgrees'
  BY <1>1, <1>4 DEF AddressAgrees, Address
<1>6. ASSUME ~ mixed'
      PROVE  Undisturbed'
  <2>1. ~ mixed /\ ~ ClearUnderWay
    BY <1>1, <1>6 DEF TypeOK
  <2>2. Sole'
    BY <1>3, <2>1 DEF Sole, ClearUnderWay
  <2>3. Reading'
    BY <1>1, <2>1 DEF Undisturbed, Reading, TypeOK
  <2>4. Addressed'
    BY <1>1, <2>1 DEF Undisturbed, Addressed, Erased, FF
  <2> QED
    BY <2>2, <2>3, <2>4 DEF Undisturbed
<1> QED
  BY <1>2, <1>5, <1>6

\* It stays the only one whatever its own next step is.
LEMMA StaysSole ==
  ASSUME IInv, ~ mixed, NEW t \in Clearer, Clears(t), NEW s, pc' = [pc EXCEPT ![t] = s]
  PROVE  Sole' /\ pc'[t] = s /\ \A u \in Clearer : u # t => pc'[u] = "idle"
<1>1. /\ pc'[t] = s
      /\ \A u \in Clearer : u # t => pc'[u] = "idle"
  BY Alone DEF IInv, TypeOK
<1> QED
  BY <1>1 DEF Sole, Clears

LEMMA GoesOnKeeps ==
  ASSUME IInv, NEW t \in Clearer, GoesOn(t)
  PROVE  IInv'
<1> USE DEF IInv
<1>0. UNCHANGED <<mixed, torn>>
  BY DEF GoesOn, history
<1>1. CASE EraseHigh(t)
  <2>1. stored' \in TwoBytes
    BY <1>1, Sizes DEF EraseHigh, TypeOK, TwoBytes
  <2>2. Step(t, "high", "test") /\ {"high", "test"} \subseteq Steps
    BY <1>1 DEF EraseHigh, Steps
  <2>3. TypeOK' /\ AddressAgrees' /\ Addressed'
    BY <1>0, <1>1, <2>1, <2>2, AccessKeeps DEF EraseHigh, TypeOK, Word
  <2>4. ~ mixed' => Sole' /\ Reading'
    <3>1. Clears(t) /\ pc' = [pc EXCEPT ![t] = "test"]
      BY <2>2 DEF Step, Clears
    <3>2. ~ mixed' => Sole' /\ pc'[t] = "test" /\ \A u \in Clearer \ {t} : pc'[u] = "idle"
      BY <1>0, <3>1, StaysSole
    <3> QED
      BY <3>2 DEF Reading
  <2> QED
    BY <2>3, <2>4 DEF Undisturbed
<1>2. CASE Measure(t)
  <2>1. /\ pc[t] = "test" /\ \E s \in {"init", "erase"} : pc' = [pc EXCEPT ![t] = s]
        /\ UNCHANGED <<eeprom, stored, nextWriteAddrVal, written, high, low>>
    BY <1>2 DEF Measure, Step, ringVars
  <2>2. at' \in [Clearer -> Nat]
    BY <1>2, Sizes DEF Measure, TypeOK
  <2>3. \A full : ToErase(full) \in 0 .. WORD - 1
    <3>1. (nextWriteAddrVal - BASE) % WORD \in Word
      <4>1. nextWriteAddrVal - BASE \in Int
        BY Sizes DEF TypeOK
      <4> QED
        BY <4>1, Modulo
    <3>2. TOTAL * SIZE \in Word
      BY Sizes DEF Word
    <3> QED
      BY <3>1, <3>2 DEF ToErase, Word
  <2>4. left' \in [Clearer -> 0 .. WORD - 1]
    BY <1>2, <2>3 DEF Measure, TypeOK
  <2>5. pc' \in [Clearer -> Steps]
    BY <2>1 DEF TypeOK, Steps
  <2>6. TypeOK'
    BY <1>0, <2>1, <2>2, <2>4, <2>5 DEF TypeOK
  <2>7. AddressAgrees' /\ Addressed'
    <3>1. pc'[t] \in {"init", "erase"}
      BY <2>1 DEF TypeOK
    <3>2. ClearUnderWay'
      BY <3>1 DEF ClearUnderWay, Clears
    <3> QED
      BY <3>2 DEF AddressAgrees, Addressed
  <2>8. ~ mixed' => Sole' /\ Reading'
    BY <1>0, <2>1, StaysSole DEF Clears, Reading
  <2> QED
    BY <2>6, <2>7, <2>8 DEF Undisturbed
<1>3. CASE EraseRecord(t)
  <2>1. /\ pc[t] = "erase" /\ \E s \in {"init", "erase"} : pc' = [pc EXCEPT ![t] = s]
        /\ UNCHANGED <<stored, nextWriteAddrVal, written, high, low>>
    BY <1>3 DEF EraseRecord, Step
  <2>2. at' \in [Clearer -> Nat]
    <3>1. (at[t] + SIZE) % WORD \in Nat
      <4>1. at[t] + SIZE \in Int
        BY Sizes DEF TypeOK
      <4> QED
        BY <4>1, Modulo DEF Word
    <3> QED
      BY <1>3, <3>1 DEF EraseRecord, TypeOK
  <2>3. left' \in [Clearer -> 0 .. WORD - 1]
    <3>1. (left[t] - SIZE) % WORD \in 0 .. WORD - 1
      <4>1. left[t] - SIZE \in Int
        BY Sizes DEF TypeOK
      <4> QED
        BY <4>1, Modulo DEF Word
    <3> QED
      BY <1>3, <3>1 DEF EraseRecord, TypeOK
  <2>4. eeprom' \in [Ring -> 0 .. Records]
    <3>1. BLANK \in 0 .. Records
      BY Sizes DEF BLANK
    <3> QED
      BY <1>3, <3>1, RingKept DEF EraseRecord, TypeOK
  <2>5. pc' \in [Clearer -> Steps]
    BY <2>1 DEF TypeOK, Steps
  <2>6. TypeOK'
    BY <1>0, <2>1, <2>2, <2>3, <2>4, <2>5 DEF TypeOK
  <2>7. AddressAgrees' /\ Addressed'
    <3>1. pc'[t] \in {"init", "erase"}
      BY <2>1 DEF TypeOK
    <3>2. ClearUnderWay'
      BY <3>1 DEF ClearUnderWay, Clears
    <3> QED
      BY <3>2 DEF AddressAgrees, Addressed
  <2>8. ~ mixed' => Sole' /\ Reading'
    BY <1>0, <2>1, StaysSole DEF Clears, Reading
  <2> QED
    BY <2>6, <2>7, <2>8 DEF Undisturbed
<1>4. CASE ReadHigh(t)
  <2>1. high' = [high EXCEPT ![t] = stored.high] /\ stored' = stored
    BY <1>4 DEF ReadHigh, ringVars
  <2>2. Step(t, "init", "low") /\ {"init", "low"} \subseteq Steps
    BY <1>4 DEF ReadHigh, Steps
  <2>3. high' \in [Clearer -> 0 .. FF]
    BY <2>1 DEF TypeOK
  <2>4. stored' \in TwoBytes /\ nextWriteAddrVal' \in Word
    BY <1>4 DEF ReadHigh, ringVars, TypeOK, TwoBytes, Word
  <2>5. TypeOK' /\ AddressAgrees' /\ Addressed'
    BY <1>0, <1>4, <2>2, <2>3, <2>4, AccessKeeps DEF ReadHigh, ringVars, TypeOK
  <2>6. ~ mixed' => Sole' /\ Reading'
    <3>1. high'[t] = stored.high /\ pc'[t] = "low"
      BY <2>1, <2>2 DEF Step, TypeOK
    <3>2. Clears(t)
      BY <2>2 DEF Step, Clears
    <3>3. ~ mixed' => Sole' /\ \A u \in Clearer \ {t} : pc'[u] = "idle"
      BY <1>0, <2>2, <3>1, <3>2, StaysSole DEF Step
    <3> QED
      BY <2>1, <3>1, <3>3 DEF Reading
  <2> QED
    BY <2>5, <2>6 DEF Undisturbed
<1>5. CASE ReadLow(t)
  <2>1. /\ low' = [low EXCEPT ![t] = stored.low]
        /\ UNCHANGED <<eeprom, stored, nextWriteAddrVal, written, at, left, high>>
    BY <1>5 DEF ReadLow, ringVars
  <2>2. low' \in [Clearer -> 0 .. FF] /\ low'[t] = stored.low
    BY <2>1 DEF TypeOK
  <2>3. CASE Step(t, "low", "take")
    <3>1. {"low", "take"} \subseteq Steps
      BY DEF Steps
    <3>2. TypeOK' /\ AddressAgrees' /\ Addressed'
      BY <1>0, <2>1, <2>2, <2>3, <3>1, AccessKeeps DEF TypeOK, TwoBytes, Word
    <3>3. pc' = [pc EXCEPT ![t] = "take"] /\ Clears(t) /\ pc[t] = "low"
      BY <2>3 DEF Step, Clears
    <3>4. ASSUME ~ mixed
          PROVE  Sole' /\ Reading'
      <4>1. Sole' /\ pc'[t] = "take" /\ \A u \in Clearer : u # t => pc'[u] = "idle"
        BY <3>3, <3>4, StaysSole
      <4>2. high[t] = stored.high
        BY <3>3, <3>4 DEF Undisturbed, Reading
      <4> QED
        BY <2>1, <2>2, <4>1, <4>2 DEF Reading
    <3> QED
      BY <1>0, <3>2, <3>4 DEF Undisturbed
  <2>4. CASE Step(t, "otherLow", "otherTake")
    <3>1. pc[t] = "otherLow" /\ pc' = [pc EXCEPT ![t] = "otherTake"]
      BY <2>4 DEF Step
    <3>2. TypeOK'
      BY <1>0, <2>1, <2>2, <3>1 DEF TypeOK, Steps
    <3>3. \A u \in Clearer : Clears(u)' <=> Clears(u)
      BY <3>1 DEF TypeOK, Clears
    <3>4. ClearUnderWay' <=> ClearUnderWay
      BY <3>3 DEF ClearUnderWay
    <3>5. AddressAgrees'
      BY <1>0, <2>1, <3>4 DEF AddressAgrees, Address
    <3>6. ASSUME ~ mixed
          PROVE  Undisturbed'
      <4>1. ~ ClearUnderWay
        BY <3>1, <3>6, OtherAlone
      <4>2. Sole'
        BY <3>3, <4>1 DEF Sole, ClearUnderWay
      <4>3. Reading'
        BY <2>1, <2>2, <3>1, <3>6 DEF Undisturbed, Reading, TypeOK
      <4>4. Addressed'
        BY <2>1, <3>4, <3>6 DEF Undisturbed, Addressed, Erased, FF
      <4> QED
        BY <4>2, <4>3, <4>4 DEF Undisturbed
    <3> QED
      BY <1>0, <3>2, <3>5, <3>6
  <2> QED
    BY <1>5, <2>3, <2>4 DEF ReadLow
<1>6. CASE Take(t)
  <2>1. PICK from \in {"take", "otherTake"} :
          /\ pc[t] = from
          /\ pc' = [pc EXCEPT ![t] = IF Read(t) = Erased THEN "base" ELSE "idle"]
    BY <1>6 DEF Take, Step
  <2>2. /\ nextWriteAddrVal' = Address(Read(t))
        /\ high' = [high EXCEPT ![t] = 0] /\ low' = [low EXCEPT ![t] = 0]
        /\ UNCHANGED <<eeprom, stored, written, at, left>>
    BY <1>6 DEF Take, Dropped
  <2>3. Read(t) \in TwoBytes
    BY DEF Read, TypeOK, TwoBytes
  <2>4. nextWriteAddrVal' \in Word
    BY <2>2, <2>3, AddressInWord
  <2>5. pc' \in [Clearer -> Steps]
    BY <2>1 DEF TypeOK, Steps
  <2>6. TypeOK'
    <3>1. 0 \in 0 .. FF
      BY Sizes
    <3> QED
      BY <1>0, <2>2, <2>4, <2>5, <3>1 DEF TypeOK, Word
  <2>7. ASSUME ~ mixed
        PROVE  nextWriteAddrVal' = Address(stored') /\ Read(t) = stored
    <3>1. high[t] = stored.high /\ low[t] = stored.low
      BY <2>1, <2>7 DEF Undisturbed, Reading
    <3>2. stored = [low |-> stored.low, high |-> stored.high]
      BY DEF TypeOK
    <3>3. Read(t) = stored
      BY <3>1, <3>2 DEF Read
    <3> QED
      BY <2>2, <3>3 DEF Address
  <2>8. AddressAgrees'
    BY <1>0, <2>7 DEF AddressAgrees
  <2>9. ASSUME ~ mixed, from = "take"
        PROVE  Undisturbed'
    <3>1. Clears(t)
      BY <2>1, <2>9 DEF Clears
    <3>2. Sole' /\ \A u \in Clearer : u # t => pc'[u] = "idle"
      BY <2>1, <2>9, <3>1, StaysSole
    <3>3. pc'[t] = IF Read(t) = Erased THEN "base" ELSE "idle"
      BY <2>1 DEF TypeOK
    <3>4. Reading'
      BY <3>2, <3>3 DEF Reading
    <3>5. Addressed'
      <4>1. CASE Read(t) = Erased
        BY <3>3, <4>1 DEF Addressed, ClearUnderWay, Clears
      <4>2. CASE Read(t) # Erased
        BY <2>2, <2>7, <2>9, <4>2 DEF Addressed, Erased, FF
      <4> QED
        BY <4>1, <4>2
    <3> QED
      BY <3>2, <3>4, <3>5 DEF Undisturbed
  <2>10. ASSUME ~ mixed, from = "otherTake"
         PROVE  Undisturbed'
    <3>1. ~ ClearUnderWay /\ stored # Erased
      BY <2>1, <2>10, OtherAlone
    <3>2. pc' = [pc EXCEPT ![t] = "idle"]
      BY <2>1, <2>7, <2>10, <3>1
    <3>3. Sole'
      BY <3>1, <3>2 DEF Sole, ClearUnderWay, Clears, TypeOK
    <3>4. Reading'
      <4> SUFFICES ASSUME NEW u \in Clearer
                   PROVE  /\ pc'[u] \in {"low", "take", "otherLow", "otherTake"} =>
                               high'[u] = stored'.high
                          /\ pc'[u] \in {"take", "otherTake"} => low'[u] = stored'.low
                          /\ pc'[u] # "baseHigh"
        BY DEF Reading
      <4>1. pc[u] # "baseHigh"
        BY <3>1 DEF ClearUnderWay, Clears
      <4>2. CASE u = t
        BY <3>2, <4>2 DEF TypeOK
      <4>3. CASE u # t
        <5>1. pc'[u] = pc[u] /\ high'[u] = high[u] /\ low'[u] = low[u]
          BY <2>2, <3>2, <4>3 DEF TypeOK
        <5> QED
          BY <2>2, <2>10, <4>1, <5>1 DEF Undisturbed, Reading
      <4> QED
        BY <4>2, <4>3
    <3>5. Addressed'
      BY <2>2, <3>1 DEF Addressed, Erased, FF
    <3> QED
      BY <3>3, <3>4, <3>5 DEF Undisturbed
  <2> QED
    BY <1>0, <2>6, <2>8, <2>9, <2>10
<1>7. CASE StoreBaseLow(t)
  <2>1. Bytes(BASE) \in TwoBytes /\ BASE \in Word
    BY InWord, StoredAddress
  <2>2. Step(t, "base", "baseHigh") /\ {"base", "baseHigh"} \subseteq Steps
    BY <1>7 DEF StoreBaseLow, Steps
  <2>3. /\ stored' = [stored EXCEPT !.low = Bytes(BASE).low]
        /\ nextWriteAddrVal' = BASE
    BY <1>7 DEF StoreBaseLow
  <2>4. stored' \in TwoBytes /\ stored'.low = Bytes(BASE).low
    BY <2>1, <2>3 DEF TypeOK, TwoBytes
  <2>5. TypeOK' /\ AddressAgrees' /\ Addressed'
    BY <1>0, <1>7, <2>1, <2>2, <2>3, <2>4, AccessKeeps DEF StoreBaseLow, TypeOK
  <2>6. ~ mixed' => Sole' /\ Reading'
    <3>1. pc'[t] = "baseHigh" /\ Clears(t)
      BY <2>2 DEF Step, Clears, TypeOK
    <3>2. ~ mixed' => Sole' /\ \A u \in Clearer \ {t} : pc'[u] = "idle"
      BY <1>0, <2>2, <3>1, StaysSole DEF Step
    <3> QED
      BY <2>3, <2>4, <3>1, <3>2 DEF Reading, Bytes
  <2> QED
    BY <2>5, <2>6 DEF Undisturbed
<1>8. CASE StoreBaseHigh(t)
  <2>1. Bytes(BASE) \in TwoBytes /\ Address(Bytes(BASE)) = BASE
    BY InWord, StoredAddress
  <2>2. /\ pc[t] = "baseHigh" /\ pc' = [pc EXCEPT ![t] = "idle"]
        /\ stored' = [stored EXCEPT !.high = Bytes(BASE).high]
        /\ UNCHANGED <<eeprom, nextWriteAddrVal, written, at, left, high, low>>
    BY <1>8 DEF StoreBaseHigh, Step
  <2>3. stored' \in TwoBytes
    BY <2>1, <2>2 DEF TypeOK, TwoBytes
  <2>4. pc' \in [Clearer -> Steps]
    BY <2>2 DEF TypeOK, Steps
  <2>5. TypeOK'
    BY <1>0, <2>2, <2>3, <2>4 DEF TypeOK, TwoBytes
  <2>6. ASSUME ~ mixed
        PROVE  nextWriteAddrVal' = Address(stored') /\ stored' = Bytes(BASE)
    <3>1. nextWriteAddrVal = BASE /\ stored.low = Bytes(BASE).low
      BY <2>2, <2>6 DEF Undisturbed, Reading
    <3>2. stored'.low = Bytes(BASE).low /\ stored'.high = Bytes(BASE).high
      BY <2>2, <3>1 DEF TypeOK
    <3>3. stored' = [low |-> stored'.low, high |-> stored'.high]
      BY <2>3 DEF TwoBytes
    <3>4. Bytes(BASE) = [low |-> Bytes(BASE).low, high |-> Bytes(BASE).high]
      BY DEF Bytes
    <3> QED
      BY <2>1, <2>2, <3>1, <3>2, <3>3, <3>4
  <2>7. AddressAgrees'
    BY <1>0, <2>6 DEF AddressAgrees
  <2>8. ASSUME ~ mixed
        PROVE  Undisturbed'
    <3>1. Sole' /\ pc'[t] = "idle" /\ \A u \in Clearer : u # t => pc'[u] = "idle"
      BY <2>2, <2>8, StaysSole DEF Clears
    <3>2. Reading'
      BY <3>1 DEF Reading
    <3>3. Addressed'
      BY <2>6, <2>8, NotErased DEF Addressed, Erased, FF
    <3> QED
      BY <3>1, <3>2, <3>3 DEF Undisturbed
  <2> QED
    BY <1>0, <2>5, <2>7, <2>8
<1> QED
  BY <1>1, <1>2, <1>3, <1>4, <1>5, <1>6, <1>7, <1>8 DEF GoesOn

LEMMA Kept == IInv /\ [Next]_vars => IInv'
<1> SUFFICES ASSUME IInv, [Next]_vars
             PROVE  IInv'
  OBVIOUS
<1>1. CASE WriteLog
  BY <1>1, WriteKeeps
<1>2. CASE \E t \in Clearer : EraseLow(t)
  BY <1>2, EraseLowKeeps
<1>3. CASE \E t \in Clearer : GoesOn(t)
  BY <1>3, GoesOnKeeps
<1>4. CASE Reset
  BY <1>4, ResetKeeps
<1>5. CASE \E n \in 0 .. SIZE + 1 : CutWrite(n)
  BY <1>5, CutWriteKeeps
<1>6. CASE PowerFails
  BY <1>6, PowerFailsKeeps
<1>7. CASE \E t \in Clearer : OtherHigh(t)
  BY <1>7, OtherHighKeeps
<1>8. CASE UNCHANGED vars
  BY <1>8 DEF IInv, TypeOK, AddressAgrees, Undisturbed, Sole, Reading, Addressed,
              Clears, ClearUnderWay, Address, Erased, FF, vars, ringVars, taskVars, history
<1> QED
  BY <1>1, <1>2, <1>3, <1>4, <1>5, <1>6, <1>7, <1>8 DEF Next

-----------------------------------------------------------------------------
(* The theorems                                                            *)

\* Whatever the ring, and whoever clears it, an address in use or stored is two
\* bytes, and what is left to erase fits in the u16 that counts it.
THEOREM EventLogTypes == Spec => []TypeOK
<1>1. IInv => TypeOK
  BY DEF IInv
<1> QED
  BY <1>1, Start, Kept, PTL DEF Spec

\* The next address a restart would read is the one in use, at whatever byte of
\* WriteLog or FastClearLog the power failed, and while Log_Init reads it back
\* for another type's clear, in a ring of any size.
THEOREM AddressesAgree == Spec => []AddressAgrees
<1>1. IInv => AddressAgrees
  BY DEF IInv
<1> QED
  BY <1>1, Start, Kept, PTL DEF Spec

-----------------------------------------------------------------------------
(* The slots of a ring                                                     *)

Slots == 0 .. TOTAL - 1
SlotAddr(k) == BASE + k * SIZE

\* There is at least one slot.
LEMMA SlotCount ==
  /\ TOTAL \in Nat /\ TOTAL >= 1
  /\ \A k \in Slots : k \in Nat /\ k < TOTAL
BY Sizes DEF Slots

\* Slots do not overlap.
LEMMA SlotsApart ==
  ASSUME NEW j \in Nat, NEW k \in Nat, j < k
  PROVE  SlotAddr(j) + SIZE <= SlotAddr(k)
<1>1. \A s \in Nat : (j + 1) * s <= k * s /\ (j + 1) * s = j * s + s
  <2>1. ASSUME NEW s \in Nat
        PROVE  (j + 1) * s <= k * s /\ (j + 1) * s = j * s + s
    <3>1. \A a, b \in Nat : a <= b => a * s <= b * s
      OBVIOUS
    <3>2. j + 1 \in Nat /\ j + 1 <= k
      OBVIOUS
    <3> QED
      BY <3>1, <3>2
  <2> QED
    BY <2>1
<1>2. SIZE \in Nat /\ BASE \in Nat
  BY Sizes
<1>3. j * SIZE \in Nat /\ k * SIZE \in Nat
  BY <1>2
<1> QED
  BY <1>1, <1>2, <1>3 DEF SlotAddr

\* Where the slots are: the first at the base, the last at MAX, all in the ring,
\* none at the address that reads as erased.
LEMMA SlotAddresses ==
  /\ SlotAddr(0) = BASE
  /\ SlotAddr(TOTAL - 1) = MAX
  /\ \A k \in Nat : SlotAddr(k) \in Nat /\ SlotAddr(k + 1) = SlotAddr(k) + SIZE
  /\ \A k \in 0 .. TOTAL : SlotAddr(k) \in 0 .. WORD - 1
  /\ \A k \in Slots : SlotAddr(k) \in Ring /\ SlotAddr(k) <= MAX /\ SlotAddr(k) < WORD - 1
<1>1. SIZE \in Nat /\ SIZE >= 1 /\ BASE \in Nat /\ WORD \in Nat /\ MAX \in Nat /\ BASE <= MAX
  BY Sizes
<1>2. SlotAddr(0) = BASE /\ SlotAddr(TOTAL - 1) = MAX
  BY <1>1 DEF SlotAddr, MAX
<1>3. ASSUME NEW k \in Nat
      PROVE  SlotAddr(k) \in Nat /\ SlotAddr(k + 1) = SlotAddr(k) + SIZE
  <2>1. (k + 1) * SIZE = k * SIZE + SIZE /\ k * SIZE \in Nat
    BY <1>1
  <2> QED
    BY <1>1, <2>1 DEF SlotAddr
<1>4. ASSUME NEW k \in Slots
      PROVE  SlotAddr(k) <= MAX
  <2>1. k \in Nat /\ TOTAL - 1 \in Nat /\ k <= TOTAL - 1
    BY SlotCount DEF Slots
  <2>2. CASE k = TOTAL - 1
    BY <1>1, <1>2, <2>2
  <2>3. CASE k < TOTAL - 1
    <3>1. SlotAddr(k) + SIZE <= MAX
      BY <1>2, <2>1, <2>3, SlotsApart
    <3> QED
      BY <1>1, <1>3, <2>1, <3>1
  <2> QED
    BY <2>1, <2>2, <2>3
<1>5. ASSUME NEW k \in Slots
      PROVE  BASE <= SlotAddr(k)
  <2>1. k \in Nat /\ k * SIZE \in Nat
    BY <1>1, SlotCount
  <2> QED
    BY <1>1, <2>1 DEF SlotAddr
<1>6. \A k \in Slots : SlotAddr(k) \in Ring
  <2> SUFFICES ASSUME NEW k \in Slots
               PROVE  SlotAddr(k) \in Ring
    OBVIOUS
  <2>1. SlotAddr(k) \in Nat /\ BASE <= SlotAddr(k) /\ SlotAddr(k) <= MAX
    BY <1>3, <1>4, <1>5, SlotCount
  <2>2. SlotAddr(k) <= MAX + SIZE - 1
    BY <1>1, <2>1
  <2> QED
    BY <1>1, <2>1, <2>2 DEF Ring
<1>7. ASSUME NEW k \in 0 .. TOTAL
      PROVE  SlotAddr(k) \in 0 .. WORD - 1
  <2>1. MAX + SIZE < WORD
    BY LogAssumption
  <2>2. SlotAddr(k) \in Nat
    BY <1>3
  <2>3. CASE k = TOTAL
    <3>1. SlotAddr(k) = MAX + SIZE
      <4>1. TOTAL - 1 \in Nat /\ (TOTAL - 1) + 1 = TOTAL
        BY SlotCount
      <4>2. SlotAddr((TOTAL - 1) + 1) = SlotAddr(TOTAL - 1) + SIZE
        BY <1>3, <4>1
      <4> QED
        BY <1>2, <2>3, <4>1, <4>2
    <3> QED
      BY <1>1, <2>1, <2>2, <3>1
  <2>4. CASE k # TOTAL
    <3>1. k \in Slots
      BY <2>4, SlotCount DEF Slots
    <3>2. SlotAddr(k) <= MAX
      BY <3>1, <1>4
    <3> QED
      BY <1>1, <2>1, <2>2, <3>2
  <2> QED
    BY <2>3, <2>4
<1>8. ASSUME NEW k \in Slots
      PROVE  SlotAddr(k) < WORD - 1
  <2>1. MAX + SIZE < WORD
    BY LogAssumption
  <2>2. SlotAddr(k) \in Nat /\ SlotAddr(k) <= MAX
    BY <1>3, <1>4, SlotCount
  <2> QED
    BY <1>1, <2>1, <2>2
<1> QED
  BY <1>2, <1>3, <1>4, <1>6, <1>7, <1>8

\* The bytes of a record lie in one slot.
LEMMA SlotsDiffer ==
  ASSUME NEW j \in Slots, NEW k \in Slots, NEW n \in 1 .. SIZE
  PROVE  SlotAddr(j) \in SlotAddr(k) .. SlotAddr(k) + n - 1 <=> j = k
<1>1. j \in Nat /\ k \in Nat /\ SIZE \in Nat
  BY SlotCount, Sizes
<1>2. SlotAddr(j) \in Nat /\ SlotAddr(k) \in Nat
  BY <1>1, SlotAddresses
<1>3. j < k => SlotAddr(j) + SIZE <= SlotAddr(k)
  BY <1>1, SlotsApart
<1>4. k < j => SlotAddr(k) + SIZE <= SlotAddr(j)
  BY <1>1, SlotsApart
<1>5. j = k => SlotAddr(j) = SlotAddr(k)
  OBVIOUS
<1> QED
  BY <1>1, <1>2, <1>3, <1>4, <1>5

\* Where a record goes next.
LEMMA NextOf ==
  ASSUME NEW n \in Slots
  PROVE  Advance(SlotAddr(n)) = IF n = TOTAL - 1 THEN BASE ELSE SlotAddr(n + 1)
<1>1. n \in Nat /\ n < TOTAL /\ TOTAL \in Nat /\ SIZE \in Nat /\ SIZE >= 1 /\ MAX \in Nat
  BY SlotCount, Sizes
<1>2. SlotAddr(n) \in Nat /\ SlotAddr(n + 1) = SlotAddr(n) + SIZE
  BY <1>1, SlotAddresses
<1>3. n = TOTAL - 1 => SlotAddr(n) = MAX
  BY SlotAddresses
<1>4. n # TOTAL - 1 => SlotAddr(n + 1) <= MAX
  <2>1. n # TOTAL - 1 => n + 1 \in Slots
    BY <1>1 DEF Slots
  <2> QED
    BY <2>1, SlotAddresses
<1> QED
  BY <1>1, <1>2, <1>3, <1>4 DEF Advance

\* The slot at an address, as a reader computes it.
LEMMA SlotAt ==
  ASSUME NEW n \in Slots
  PROVE  /\ SlotAddr(n) - BASE = n * SIZE
         /\ (SlotAddr(n) - BASE) \div SIZE = n
<1>1. n \in Nat /\ SIZE \in Nat \ {0} /\ BASE \in Nat /\ n * SIZE \in Nat
  BY SlotCount, Sizes
<1>2. SlotAddr(n) - BASE = n * SIZE
  BY <1>1 DEF SlotAddr
<1>3. (n * SIZE) \div SIZE = n
  <2> DEFINE q == (n * SIZE) \div SIZE
             r == (n * SIZE) % SIZE
  <2>1. q \in Nat /\ r \in 0 .. SIZE - 1 /\ n * SIZE = q * SIZE + r
    BY <1>1, Division
  <2> HIDE DEF q, r
  <2>2. \A a, b, s \in Nat : a < b => a * s + s <= b * s
    OBVIOUS
  <2>3. q * SIZE \in Nat
    BY <1>1, <2>1
  <2>4. ~ q < n
    BY <1>1, <2>1, <2>2, <2>3
  <2>5. ~ n < q
    BY <1>1, <2>1, <2>2, <2>3
  <2>6. q = n
    BY <1>1, <2>1, <2>4, <2>5
  <2> QED
    BY <2>6 DEF q
<1> QED
  BY <1>2, <1>3

\* Going round the ring.
LEMMA Round ==
  /\ \A i \in 0 .. TOTAL - 1 : i % TOTAL = i
  /\ \A i \in TOTAL .. 2 * TOTAL - 1 : i % TOTAL = i - TOTAL
<1>1. TOTAL \in Nat \ {0} /\ TOTAL \in Nat
  BY SlotCount
<1>2. ASSUME NEW i \in 0 .. 2 * TOTAL - 1
      PROVE  i % TOTAL = IF i < TOTAL THEN i ELSE i - TOTAL
  <2> DEFINE q == i \div TOTAL
             r == i % TOTAL
  <2>0. i \in Nat
    OBVIOUS
  <2>1. q \in Nat /\ r \in 0 .. TOTAL - 1 /\ i = q * TOTAL + r
    BY <1>1, <2>0, Division
  <2> HIDE DEF q, r
  <2>2. \A a, t \in Nat : a >= 2 => a * t >= 2 * t
    OBVIOUS
  <2>3. q < 2
    <3> SUFFICES ASSUME q >= 2 PROVE FALSE
      BY <2>1
    <3>1. q * TOTAL >= 2 * TOTAL /\ q * TOTAL \in Nat
      BY <1>1, <2>1, <2>2
    <3> QED
      BY <1>1, <2>1, <3>1
  <2>4. q = 0 \/ q = 1
    BY <2>1, <2>3
  <2>5. q * TOTAL = IF q = 0 THEN 0 ELSE TOTAL
    BY <1>1, <2>4
  <2>6. r = IF i < TOTAL THEN i ELSE i - TOTAL
    BY <1>1, <2>1, <2>4, <2>5
  <2> QED
    BY <2>6 DEF r
<1> QED
  BY <1>1, <1>2

-----------------------------------------------------------------------------
(* A log and what a reader sees of it, as a function of its slots          *)

\* The first bytes of the slots: the record that is there, or BLANK.
Firsts(e) == [k \in Slots |-> e[SlotAddr(k)]]

\* A log whose next slot is n: it was never filled, or it was.
Partial(f, n) == \A k \in Slots : f[k] # BLANK <=> k < n
Filled(f) == \A k \in Slots : f[k] # BLANK
Whole(f, n) == n \in Slots /\ (Partial(f, n) \/ Filled(f))
Empty(f) == \A k \in Slots : f[k] = BLANK

Turn(i) == IF i < TOTAL THEN i ELSE i - TOTAL

View(f, n) ==
  IF f[TOTAL - 1] # BLANK THEN [i \in 1 .. TOTAL |-> f[Turn(n + i - 1)]]
  ELSE [i \in 1 .. n |-> f[i - 1]]

\* Visible, of a ring e and a next address a.
VisibleIn(e, a) ==
  IF e[MAX] # BLANK
  THEN [i \in 1 .. TOTAL |-> e[BASE + (((a - BASE) \div SIZE + i - 1) % TOTAL) * SIZE]]
  ELSE [i \in 1 .. (a - BASE) \div SIZE |-> e[BASE + ((i - 1) % TOTAL) * SIZE]]

\* What the log shows depends on the ring and the next address only.
LEMMA VisibleIs ==
  /\ Visible = VisibleIn(eeprom, nextWriteAddrVal)
  /\ Visible' = VisibleIn(eeprom', nextWriteAddrVal')
BY DEF Visible, VisibleIn, isLogFull, Slot, NextSlot

\* Slots, and the walk round them.
LEMMA SlotLimits ==
  /\ TOTAL \in Nat /\ TOTAL >= 1 /\ 0 \in Slots /\ TOTAL - 1 \in Slots
  /\ \A k \in Slots : k \in Nat /\ k < TOTAL
  /\ \A k \in Nat : k < TOTAL => k \in Slots
  /\ \A i \in 0 .. 2 * TOTAL - 1 : Turn(i) \in Slots /\ i % TOTAL = Turn(i)
<1>1. TOTAL \in Nat /\ TOTAL >= 1
  BY SlotCount
<1>2. ASSUME NEW i \in 0 .. 2 * TOTAL - 1
      PROVE  Turn(i) \in Slots /\ i % TOTAL = Turn(i)
  <2>1. CASE i < TOTAL
    <3>1. i \in 0 .. TOTAL - 1
      BY <1>1, <2>1
    <3> QED
      BY <2>1, <3>1, Round DEF Turn, Slots
  <2>2. CASE ~ i < TOTAL
    <3>1. i \in TOTAL .. 2 * TOTAL - 1 /\ i - TOTAL \in 0 .. TOTAL - 1
      BY <1>1, <2>2
    <3> QED
      BY <2>2, <3>1, Round DEF Turn, Slots
  <2> QED
    BY <2>1, <2>2
<1> QED
  BY <1>1, <1>2 DEF Slots

\* The walk of ReadFirstLog and ReadNextLog over the addresses is a walk round
\* the slots.
LEMMA VisibleIsView ==
  ASSUME NEW e, NEW n \in Slots
  PROVE  VisibleIn(e, SlotAddr(n)) = View(Firsts(e), n)
<1> DEFINE f == Firsts(e)
<1>1. (SlotAddr(n) - BASE) \div SIZE = n
  BY SlotAt
<1>2. f[TOTAL - 1] = e[MAX]
  BY SlotLimits, SlotAddresses DEF Firsts
<1>3. ASSUME NEW i \in 1 .. TOTAL
      PROVE  e[BASE + ((n + i - 1) % TOTAL) * SIZE] = f[Turn(n + i - 1)]
  <2>1. n + i - 1 \in 0 .. 2 * TOTAL - 1
    <3>1. n \in Nat /\ n < TOTAL /\ TOTAL \in Nat
      BY SlotLimits
    <3> QED
      BY <3>1
  <2>2. Turn(n + i - 1) \in Slots /\ (n + i - 1) % TOTAL = Turn(n + i - 1)
    BY <2>1, SlotLimits
  <2>3. f[Turn(n + i - 1)] = e[SlotAddr(Turn(n + i - 1))]
    BY <2>2 DEF Firsts
  <2> QED
    BY <2>2, <2>3 DEF SlotAddr
<1>4. ASSUME NEW i \in 1 .. n
      PROVE  e[BASE + ((i - 1) % TOTAL) * SIZE] = f[i - 1]
  <2>0. n \in Nat /\ n < TOTAL /\ TOTAL \in Nat
    BY SlotLimits
  <2>1. i - 1 \in 0 .. 2 * TOTAL - 1 /\ i - 1 \in Slots /\ Turn(i - 1) = i - 1
    BY <2>0 DEF Slots, Turn
  <2>2. (i - 1) % TOTAL = i - 1
    BY <2>1, SlotLimits
  <2>3. f[i - 1] = e[SlotAddr(i - 1)]
    BY <2>1 DEF Firsts
  <2> QED
    BY <2>2, <2>3 DEF SlotAddr
<1> HIDE DEF f
<1>5. [i \in 1 .. TOTAL |-> e[BASE + ((n + i - 1) % TOTAL) * SIZE]]
        = [i \in 1 .. TOTAL |-> f[Turn(n + i - 1)]]
  BY <1>3
<1>6. [i \in 1 .. n |-> e[BASE + ((i - 1) % TOTAL) * SIZE]] = [i \in 1 .. n |-> f[i - 1]]
  BY <1>4
<1>7. VisibleIn(e, SlotAddr(n)) = View(f, n)
  BY <1>1, <1>2, <1>5, <1>6 DEF VisibleIn, View
<1> QED
  BY <1>7 DEF f

\* What a reader sees of a whole log.
LEMMA ViewType ==
  ASSUME NEW S, NEW f \in [Slots -> S], NEW n, Whole(f, n)
  PROVE  /\ View(f, n) \in Seq(S)
         /\ Partial(f, n) => Len(View(f, n)) = n /\ View(f, n) = [i \in 1 .. n |-> f[i - 1]]
         /\ Filled(f) => /\ Len(View(f, n)) = TOTAL
                         /\ View(f, n) = [i \in 1 .. TOTAL |-> f[Turn(n + i - 1)]]
<1>0. n \in Slots /\ n \in Nat /\ n < TOTAL /\ TOTAL \in Nat
  BY SlotLimits DEF Whole
<1>1. CASE Partial(f, n)
  <2>1. f[TOTAL - 1] = BLANK
    BY <1>0, <1>1, SlotLimits DEF Partial
  <2>2. View(f, n) = [i \in 1 .. n |-> f[i - 1]]
    BY <2>1 DEF View
  <2>3. ASSUME NEW i \in 1 .. n
        PROVE  f[i - 1] \in S
    <3>1. i - 1 \in Slots
      BY <1>0, SlotLimits
    <3> QED
      BY <3>1
  <2>4. [i \in 1 .. n |-> f[i - 1]] \in Seq(S)
    BY <1>0, <2>3, IsASeq
  <2>5. Len([i \in 1 .. n |-> f[i - 1]]) = n
    BY <1>0, <2>4
  <2>6. ~ Filled(f)
    BY <2>1, SlotLimits DEF Filled
  <2> QED
    BY <2>2, <2>4, <2>5, <2>6
<1>2. CASE Filled(f)
  <2>1. f[TOTAL - 1] # BLANK
    BY <1>2, SlotLimits DEF Filled
  <2>2. View(f, n) = [i \in 1 .. TOTAL |-> f[Turn(n + i - 1)]]
    BY <2>1 DEF View
  <2>3. ASSUME NEW i \in 1 .. TOTAL
        PROVE  f[Turn(n + i - 1)] \in S
    <3>1. n + i - 1 \in 0 .. 2 * TOTAL - 1
      BY <1>0
    <3>2. Turn(n + i - 1) \in Slots
      BY <3>1, SlotLimits
    <3> QED
      BY <3>2
  <2>4. [i \in 1 .. TOTAL |-> f[Turn(n + i - 1)]] \in Seq(S)
    BY <1>0, <2>3, IsASeq
  <2>5. Len([i \in 1 .. TOTAL |-> f[Turn(n + i - 1)]]) = TOTAL
    BY <1>0, <2>4
  <2>6. ~ Partial(f, n)
    BY <1>0, <2>1, SlotLimits DEF Partial
  <2> QED
    BY <2>2, <2>4, <2>5, <2>6
<1> QED
  BY <1>1, <1>2 DEF Whole

\* The same, for a ring that holds records.
LEMMA RecordsViewType ==
  ASSUME NEW f \in [Slots -> 0 .. Records], NEW n, Whole(f, n)
  PROVE  /\ View(f, n) \in Seq(0 .. Records)
         /\ Partial(f, n) => Len(View(f, n)) = n /\ View(f, n) = [i \in 1 .. n |-> f[i - 1]]
         /\ Filled(f) => /\ Len(View(f, n)) = TOTAL
                         /\ View(f, n) = [i \in 1 .. TOTAL |-> f[Turn(n + i - 1)]]
<1> DEFINE S == 0 .. Records
<1>1. f \in [Slots -> S]
  OBVIOUS
<1> HIDE DEF S
<1>2. View(f, n) \in Seq(S)
  BY <1>1, ViewType
<1>3. (Partial(f, n) => Len(View(f, n)) = n) /\ (Filled(f) => Len(View(f, n)) = TOTAL)
  BY <1>1, ViewType
<1>4. Filled(f) => View(f, n) = [i \in 1 .. TOTAL |-> f[Turn(n + i - 1)]]
  BY SlotLimits DEF View, Filled
<1>5. Partial(f, n) => View(f, n) = [i \in 1 .. n |-> f[i - 1]]
  <2>1. n \in Nat /\ n < TOTAL
    BY SlotLimits DEF Whole
  <2>2. Partial(f, n) => f[TOTAL - 1] = BLANK
    BY <2>1, SlotLimits DEF Partial
  <2> QED
    BY <2>2 DEF View
<1>6. View(f, n) \in Seq(0 .. Records)
  BY <1>2 DEF S
<1> QED
  BY <1>3, <1>4, <1>5, <1>6

\* The slot after n.
After(n) == IF n = TOTAL - 1 THEN 0 ELSE n + 1

\* The next address moves to the slot after.
LEMMA AfterIs ==
  ASSUME NEW n \in Slots
  PROVE  /\ After(n) \in Slots
         /\ Advance(SlotAddr(n)) = SlotAddr(After(n))
<1>1. n \in Nat /\ n < TOTAL /\ TOTAL \in Nat
  BY SlotLimits
<1>2. After(n) \in Slots
  BY <1>1, SlotLimits DEF After
<1>3. Advance(SlotAddr(n)) = SlotAddr(After(n))
  BY NextOf, SlotAddresses DEF After
<1> QED
  BY <1>2, <1>3

\* A record written into a whole log: it stays whole, and the reader sees the
\* record after the others, and if the ring is full no longer the oldest.
LEMMA WriteWhole ==
  ASSUME NEW f \in [Slots -> 0 .. Records], NEW n, Whole(f, n), NEW r \in 1 .. Records
  PROVE  LET g == [f EXCEPT ![n] = r]
         IN  /\ Whole(g, After(n))
             /\ View(g, After(n)) = IF Len(View(f, n)) < TOTAL THEN Append(View(f, n), r)
                                    ELSE Append(Tail(View(f, n)), r)
<1> DEFINE g == [f EXCEPT ![n] = r]
           m == After(n)
           v == View(f, n)
           w == View(g, m)
<1> SUFFICES /\ Whole(g, m)
             /\ w = IF Len(v) < TOTAL THEN Append(v, r) ELSE Append(Tail(v), r)
  OBVIOUS
<1>1. n \in Slots /\ n \in Nat /\ n < TOTAL /\ TOTAL \in Nat /\ TOTAL >= 1
  BY SlotLimits DEF Whole
<1>2. r \in Nat /\ r # BLANK /\ r \in 0 .. Records
  BY Sizes DEF BLANK
<1>3. g \in [Slots -> 0 .. Records] /\ \A k \in Slots : g[k] = IF k = n THEN r ELSE f[k]
  BY <1>1, <1>2
<1>4. m \in Slots
  BY <1>1, AfterIs
<1>5. v \in Seq(0 .. Records)
  BY RecordsViewType
<1> HIDE DEF g
<1>6. CASE Filled(f)
  <2>1. Filled(g)
    BY <1>2, <1>3, <1>6 DEF Filled
  <2>2. Whole(g, m)
    BY <1>4, <2>1 DEF Whole
  <2>3. Len(v) = TOTAL /\ v = [i \in 1 .. TOTAL |-> f[Turn(n + i - 1)]]
    BY <1>6, RecordsViewType
  <2>4. /\ w \in Seq(0 .. Records) /\ Len(w) = TOTAL
        /\ w = [i \in 1 .. TOTAL |-> g[Turn(m + i - 1)]]
    BY <1>3, <2>1, <2>2, RecordsViewType
  <2>5. \A i \in 1 .. TOTAL - 1 :
          Turn(m + i - 1) = Turn(n + i) /\ Turn(n + i) \in Slots /\ Turn(n + i) # n
    BY <1>1 DEF Turn, After, Slots
  <2>6. Turn(m + TOTAL - 1) = n
    BY <1>1 DEF Turn, After
  <2> HIDE DEF v, w
  <2>7. Len(v) = TOTAL /\ v # << >>
    <3>1. Len(v) = TOTAL
      BY <2>3
    <3> QED
      BY <1>1, <3>1, EmptySeq
  <2>8. /\ Tail(v) \in Seq(0 .. Records) /\ Len(Tail(v)) = TOTAL - 1
        /\ \A i \in 1 .. TOTAL - 1 : Tail(v)[i] = v[i + 1]
    BY <1>5, <2>7, HeadTailProperties
  <2> DEFINE t == Tail(v)
             u == Append(t, r)
  <2> HIDE DEF t
  <2>9. t \in Seq(0 .. Records) /\ Len(t) = TOTAL - 1
    BY <2>8 DEF t
  <2>10. /\ u \in Seq(0 .. Records) /\ Len(u) = TOTAL
         /\ \A i \in 1 .. TOTAL - 1 : u[i] = t[i]
         /\ u[TOTAL] = r
    <3>1. /\ u \in Seq(0 .. Records) /\ Len(u) = Len(t) + 1
          /\ \A i \in 1 .. Len(t) : u[i] = t[i]
          /\ u[Len(t) + 1] = r
      BY <1>2, <2>9, AppendProperties
    <3>2. Len(t) + 1 = TOTAL
      BY <1>1, <2>9
    <3> QED
      BY <2>9, <3>1, <3>2
  <2> HIDE DEF u
  <2>11. ASSUME NEW i \in 1 .. TOTAL
         PROVE  w[i] = u[i]
    <3>1. CASE i = TOTAL
      <4>1. w[i] = g[Turn(m + TOTAL - 1)]
        BY <1>1, <2>4, <3>1
      <4> QED
        BY <1>1, <1>3, <2>6, <2>10, <3>1, <4>1
    <3>2. CASE i # TOTAL
      <4>1. i \in 1 .. TOTAL - 1 /\ i + 1 \in 1 .. TOTAL
        BY <1>1, <3>2
      <4>2. u[i] = v[i + 1]
        BY <2>8, <2>10, <4>1 DEF t
      <4>3. v[i + 1] = f[Turn(n + i)]
        <5>1. v[i + 1] = f[Turn(n + (i + 1) - 1)] /\ n + (i + 1) - 1 = n + i
          BY <1>1, <2>3, <4>1
        <5> QED
          BY <5>1
      <4>4. w[i] = g[Turn(m + i - 1)]
        BY <2>4
      <4>5. w[i] = f[Turn(n + i)]
        BY <1>3, <2>5, <4>1, <4>4
      <4> QED
        BY <4>2, <4>3, <4>5
    <3> QED
      BY <3>1, <3>2
  <2>12. w = u
    BY <2>4, <2>10, <2>11, SeqEqual
  <2>13. w = Append(Tail(v), r)
    BY <2>12 DEF u, t
  <2>14. ~ Len(v) < TOTAL
    BY <1>1, <2>7
  <2> QED
    BY <2>2, <2>13, <2>14
<1>7. CASE Partial(f, n)
  <2>1. Len(v) = n /\ v = [i \in 1 .. n |-> f[i - 1]]
    BY <1>7, RecordsViewType
  <2>2. \A k \in Slots : g[k] # BLANK <=> k < n + 1
    <3> SUFFICES ASSUME NEW k \in Slots
                 PROVE  g[k] # BLANK <=> k < n + 1
      OBVIOUS
    <3>1. k \in Nat /\ (k < n + 1 <=> (k < n \/ k = n))
      BY <1>1, SlotLimits
    <3> QED
      BY <1>2, <1>3, <1>7, <3>1 DEF Partial
  <2>3. /\ Whole(g, m) /\ w \in Seq(0 .. Records) /\ Len(w) = n + 1
        /\ \A i \in 1 .. n + 1 : w[i] = g[i - 1]
    <3>1. CASE n = TOTAL - 1
      <4>1. m = 0
        BY <3>1 DEF After
      <4>2. Filled(g)
        BY <1>1, <2>2, <3>1, SlotLimits DEF Filled
      <4>3. Whole(g, m)
        BY <1>4, <4>2 DEF Whole
      <4>4. /\ w \in Seq(0 .. Records) /\ Len(w) = TOTAL
            /\ w = [i \in 1 .. TOTAL |-> g[Turn(m + i - 1)]]
        BY <1>3, <4>2, <4>3, RecordsViewType
      <4>5. n + 1 = TOTAL /\ \A i \in 1 .. TOTAL : Turn(m + i - 1) = i - 1
        BY <1>1, <3>1, <4>1 DEF Turn
      <4> HIDE DEF w, m
      <4> QED
        BY <4>3, <4>4, <4>5
    <3>2. CASE n # TOTAL - 1
      <4>1. m = n + 1
        BY <3>2 DEF After
      <4>2. Partial(g, m)
        BY <2>2, <4>1 DEF Partial
      <4>3. Whole(g, m)
        BY <1>4, <4>2 DEF Whole
      <4>4. w \in Seq(0 .. Records) /\ Len(w) = m /\ w = [i \in 1 .. m |-> g[i - 1]]
        BY <1>3, <4>2, <4>3, RecordsViewType
      <4> HIDE DEF w, m
      <4> QED
        BY <4>1, <4>3, <4>4
    <3> QED
      BY <3>1, <3>2
  <2> DEFINE u == Append(v, r)
  <2> HIDE DEF v, w
  <2>4. /\ u \in Seq(0 .. Records) /\ Len(u) = n + 1
        /\ \A i \in 1 .. n : u[i] = v[i]
        /\ u[n + 1] = r
    <3>1. Len(v) = n
      BY <2>1
    <3>2. /\ u \in Seq(0 .. Records) /\ Len(u) = Len(v) + 1
          /\ \A i \in 1 .. Len(v) : u[i] = v[i]
          /\ u[Len(v) + 1] = r
      BY <1>2, <1>5, AppendProperties
    <3> QED
      BY <3>1, <3>2
  <2> HIDE DEF u
  <2>5. ASSUME NEW i \in 1 .. n + 1
        PROVE  w[i] = u[i]
    <3>1. CASE i = n + 1
      <4>1. w[i] = g[n]
        BY <1>1, <2>3, <3>1
      <4> QED
        BY <1>1, <1>3, <2>4, <3>1, <4>1
    <3>2. CASE i # n + 1
      <4>1. i \in 1 .. n /\ i - 1 \in Slots /\ i - 1 # n
        BY <1>1, <3>2, SlotLimits
      <4>2. u[i] = f[i - 1]
        BY <2>1, <2>4, <4>1
      <4>3. w[i] = g[i - 1]
        BY <2>3
      <4> QED
        BY <1>3, <4>1, <4>2, <4>3
    <3> QED
      BY <3>1, <3>2
  <2>6. w = u
    BY <2>3, <2>4, <2>5, SeqEqual
  <2>7. w = Append(v, r) /\ Len(v) < TOTAL
    <3>1. Len(v) = n
      BY <2>1
    <3> QED
      BY <1>1, <2>6, <3>1 DEF u
  <2> QED
    BY <2>3, <2>7
<1> QED
  BY <1>6, <1>7 DEF Whole

-----------------------------------------------------------------------------
(* The log is in order until a clear is cut into                           *)

slots == Firsts(eeprom)

\* The next address is that of the slot after the latest record.
InOrder == \E n \in Slots : nextWriteAddrVal = SlotAddr(n) /\ Whole(slots, n)

\* Records may be left only in the slots still to be erased.
Erasing(t) ==
  \E j \in Nat, r \in Nat \ {0} :
    /\ j + r <= TOTAL
    /\ at[t] = SlotAddr(j)
    /\ left[t] = r * SIZE
    /\ \A k \in Slots : slots[k] # BLANK => j <= k /\ k < j + r

Clearing(t) ==
  /\ pc[t] \in {"high", "test"} => InOrder
  /\ pc[t] = "high" => stored.low = FF
  /\ pc[t] \in {"test", "erase", "init", "low", "take", "base"} => stored = Erased
  /\ pc[t] = "erase" => Erasing(t)
  /\ pc[t] \in {"init", "low", "take", "base", "baseHigh"} => Empty(slots)

Numbered == \A x \in Ring : eeprom[x] <= written

Whenever == (~ ClearUnderWay => InOrder) /\ \A t \in Clearer : Clearing(t)

OInv == Numbered /\ (~ mixed /\ ~ torn => Whenever)

-----------------------------------------------------------------------------
(* The ring after a write                                                  *)

\* Each slot holds a record or is blank.
LEMMA SlotsType ==
  ASSUME TypeOK
  PROVE  slots \in [Slots -> 0 .. Records]
BY SlotAddresses DEF TypeOK, slots, Firsts

\* The records in the slots have been written.
LEMMA SlotsNumbered ==
  ASSUME TypeOK, Numbered
  PROVE  slots \in [Slots -> 0 .. written]
<1>1. ASSUME NEW k \in Slots
      PROVE  eeprom[SlotAddr(k)] \in 0 .. written
  <2>1. SlotAddr(k) \in Ring
    BY SlotAddresses
  <2>2. eeprom[SlotAddr(k)] \in 0 .. Records /\ eeprom[SlotAddr(k)] <= written
    BY <2>1 DEF TypeOK, Numbered
  <2>3. written \in Nat /\ Records \in Nat
    BY Sizes DEF TypeOK
  <2> QED
    BY <2>2, <2>3
<1> QED
  BY <1>1 DEF slots, Firsts

\* Writing some of the bytes of a slot writes the first.
LEMMA SlotWritten ==
  ASSUME TypeOK, NEW n \in Slots, NEW c \in 1 .. SIZE, NEW r
  PROVE  Firsts(Written(SlotAddr(n), r, c)) = [slots EXCEPT ![n] = r]
<1>1. ASSUME NEW k \in Slots
      PROVE  Written(SlotAddr(n), r, c)[SlotAddr(k)] = IF k = n THEN r ELSE slots[k]
  <2>1. SlotAddr(k) \in Ring
    BY SlotAddresses
  <2>2. SlotAddr(k) \in SlotAddr(n) .. SlotAddr(n) + c - 1 <=> k = n
    BY SlotsDiffer
  <2>3. slots[k] = eeprom[SlotAddr(k)]
    BY DEF slots, Firsts
  <2> QED
    BY <2>1, <2>2, <2>3 DEF Written
<1>2. slots = [k \in Slots |-> slots[k]]
  BY DEF slots, Firsts
<1>3. Firsts(Written(SlotAddr(n), r, c)) = [k \in Slots |-> IF k = n THEN r ELSE slots[k]]
  BY <1>1 DEF Firsts
<1>4. [slots EXCEPT ![n] = r] = [k \in Slots |-> IF k = n THEN r ELSE slots[k]]
  BY <1>2
<1> QED
  BY <1>3, <1>4

\* The slots after a step are those of the ring after it.
LEMMA SlotsAfter == slots' = Firsts(eeprom')
BY DEF slots, Firsts

\* What leaves the ring and the next address alone leaves the log in order.
LEMMA InOrderKept ==
  ASSUME InOrder, UNCHANGED <<eeprom, nextWriteAddrVal>>
  PROVE  InOrder'
<1>1. slots' = slots
  BY DEF slots, Firsts
<1>2. InOrder' <=> \E n \in Slots : nextWriteAddrVal' = SlotAddr(n) /\ Whole(slots', n)
  BY DEF InOrder, Whole, Partial, Filled
<1> QED
  BY <1>1, <1>2 DEF InOrder

\* How a step leaves a log in order.
LEMMA InOrderAfter ==
  ASSUME NEW n \in Slots, nextWriteAddrVal' = SlotAddr(n), Whole(slots', n)
  PROVE  InOrder'
BY DEF InOrder, Whole, Partial, Filled

\* An empty ring after a step.
LEMMA EmptyAfter == Empty(slots)' <=> Empty(slots')
BY DEF Empty

\* An empty ring whose next address is its first is in order, and shows nothing.
LEMMA EmptyWhole ==
  ASSUME NEW f, Empty(f)
  PROVE  Whole(f, 0) /\ View(f, 0) = << >>
<1>1. Partial(f, 0)
  BY SlotLimits DEF Empty, Partial
<1>2. f[TOTAL - 1] = BLANK
  BY SlotLimits DEF Empty
<1>3. [i \in 1 .. 0 |-> f[i - 1]] = << >>
  OBVIOUS
<1> QED
  BY <1>1, <1>2, <1>3, SlotLimits DEF Whole, View

\* A task that is idle, or in the Log_Init of another clear, is not clearing.
LEMMA NotClearing ==
  ASSUME NEW t \in Clearer, pc'[t] \in {"idle", "otherLow", "otherTake"}
  PROVE  ~ Clears(t)' /\ Clearing(t)'
BY DEF Clearing, Clears

\* A log that is in order and that no task clears.
LEMMA NobodyClears ==
  ASSUME InOrder', \A t \in Clearer : pc'[t] \in {"idle", "otherLow", "otherTake"}
  PROVE  ~ ClearUnderWay' /\ Whenever'
<1>1. \A t \in Clearer : ~ Clears(t)' /\ Clearing(t)'
  BY NotClearing
<1> QED
  BY <1>1 DEF Whenever, ClearUnderWay

\* The write of a record keeps a log in order.
LEMMA WriteInOrder ==
  ASSUME TypeOK, NEW n, nextWriteAddrVal = SlotAddr(n), Whole(slots, n), WriteLog
  PROVE  /\ After(n) \in Slots /\ nextWriteAddrVal' = SlotAddr(After(n))
         /\ slots' = [slots EXCEPT ![n] = written + 1]
         /\ Whole(slots', After(n))
         /\ View(slots', After(n)) =
              IF Len(View(slots, n)) < TOTAL THEN Append(View(slots, n), written + 1)
              ELSE Append(Tail(View(slots, n)), written + 1)
<1>1. n \in Slots
  BY DEF Whole
<1>2. After(n) \in Slots /\ nextWriteAddrVal' = SlotAddr(After(n))
  BY <1>1, AfterIs DEF WriteLog
<1>3. slots' = [slots EXCEPT ![n] = written + 1]
  <2>1. SIZE \in 1 .. SIZE
    BY Sizes
  <2>2. eeprom' = Written(SlotAddr(n), written + 1, SIZE)
    BY DEF WriteLog
  <2> QED
    BY <1>1, <2>1, <2>2, SlotWritten, SlotsAfter
<1>4. slots \in [Slots -> 0 .. Records]
  BY SlotsType
<1>5. written + 1 \in 1 .. Records
  BY Sizes DEF WriteLog, TypeOK
<1> DEFINE r == written + 1
<1>6. r \in 1 .. Records
  BY <1>5
<1> HIDE DEF r
<1>7. LET g == [slots EXCEPT ![n] = r]
      IN  /\ Whole(g, After(n))
          /\ View(g, After(n)) = IF Len(View(slots, n)) < TOTAL THEN Append(View(slots, n), r)
                                 ELSE Append(Tail(View(slots, n)), r)
  BY <1>4, <1>6, WriteWhole
<1> QED
  BY <1>2, <1>3, <1>7 DEF r

\* No byte of the ring is a record that was not written yet.
LEMMA NumberedKept == TypeOK /\ Numbered /\ [Next]_vars => Numbered'
<1> SUFFICES ASSUME TypeOK, Numbered, [Next]_vars
             PROVE  Numbered'
  OBVIOUS
<1>1. written \in Nat /\ Records \in Nat /\ \A x \in Ring : eeprom[x] \in Nat
  BY Sizes DEF TypeOK
<1>2. ASSUME NEW a, NEW n, eeprom' = Written(a, written + 1, n), written' = written + 1
      PROVE  Numbered'
  BY <1>1, <1>2 DEF Numbered, Written
<1>3. ASSUME NEW a, NEW n, eeprom' = Written(a, BLANK, n), written' = written
      PROVE  Numbered'
  BY <1>1, <1>3 DEF Numbered, Written, BLANK
<1>4. ASSUME UNCHANGED <<eeprom, written>>
      PROVE  Numbered'
  BY <1>4 DEF Numbered
<1>5. CASE WriteLog
  BY <1>2, <1>5 DEF WriteLog
<1>6. ASSUME NEW n, CutWrite(n)
      PROVE  Numbered'
  BY <1>2, <1>6 DEF CutWrite
<1>7. ASSUME NEW t \in Clearer, EraseRecord(t)
      PROVE  Numbered'
  BY <1>3, <1>7 DEF EraseRecord
<1>8. CASE Reset \/ PowerFails \/ UNCHANGED vars
  BY <1>4, <1>8 DEF Reset, PowerFails, vars, ringVars
<1>9. ASSUME NEW t \in Clearer,
             \/ EraseLow(t) \/ EraseHigh(t) \/ Measure(t) \/ ReadHigh(t) \/ OtherHigh(t)
             \/ ReadLow(t) \/ Take(t) \/ StoreBaseLow(t) \/ StoreBaseHigh(t)
      PROVE  Numbered'
  BY <1>4, <1>9 DEF EraseLow, EraseHigh, Measure, ReadHigh, OtherHigh, ReadLow, Take,
    StoreBaseLow, StoreBaseHigh, ringVars
<1> QED
  BY <1>5, <1>6, <1>7, <1>8, <1>9 DEF Next, GoesOn

\* The EEPROM as delivered holds an empty log in order.
LEMMA OrderStart == Init => OInv
<1> SUFFICES ASSUME Init
             PROVE  OInv
  OBVIOUS
<1>1. nextWriteAddrVal = SlotAddr(0)
  <2>1. nextWriteAddrVal = BASE
    BY DEF Init, Booted
  <2> QED
    BY <2>1, SlotAddresses
<1>2. Empty(slots)
  BY SlotAddresses DEF Init, Empty, slots, Firsts
<1>3. InOrder
  BY <1>1, <1>2, EmptyWhole, SlotLimits DEF InOrder
<1>4. \A t \in Clearer : Clearing(t)
  BY DEF Init, Clearing
<1>5. Numbered
  <2>1. written = 0 /\ \A x \in Ring : eeprom[x] = 0
    BY DEF Init, BLANK
  <2> QED
    BY <2>1 DEF Numbered
<1> QED
  BY <1>3, <1>4, <1>5 DEF OInv, Whenever

-----------------------------------------------------------------------------
(* A step of a clear that nothing has cut into                             *)

\* Only the task's own part of the invariant is at stake.
LEMMA OwnStep ==
  ASSUME TypeOK, NEW t \in Clearer, \A u \in Clearer : u # t => pc[u] = "idle",
         NEW s \in Steps \ {"idle", "otherLow", "otherTake"},
         pc' = [pc EXCEPT ![t] = s], Clearing(t)'
  PROVE  Whenever' /\ ClearUnderWay'
<1>1. pc'[t] = s /\ \A u \in Clearer : u # t => pc'[u] = "idle"
  BY DEF TypeOK
<1>2. ClearUnderWay'
  BY <1>1 DEF ClearUnderWay, Clears
<1>3. ASSUME NEW u \in Clearer
      PROVE  Clearing(u)'
  <2>1. CASE u = t
    BY <2>1
  <2>2. CASE u # t
    BY <1>1, <2>2, NotClearing
  <2> QED
    BY <2>1, <2>2
<1> QED
  BY <1>2, <1>3 DEF Whenever

\* A clear begins with a log in order.
LEMMA EraseLowInOrder ==
  ASSUME IInv, OInv, NEW t \in Clearer, EraseLow(t), ~ mixed', ~ torn'
  PROVE  Whenever'
<1>1. ~ mixed /\ ~ torn /\ Quiet /\ \A u \in Clearer : pc[u] = "idle"
  BY DEF EraseLow, CutsInto, Quiet
<1>2. InOrder /\ TypeOK
  BY <1>1 DEF OInv, Whenever, ClearUnderWay, Clears, IInv
<1>3. /\ pc' = [pc EXCEPT ![t] = "high"] /\ stored' = [stored EXCEPT !.low = FF]
      /\ UNCHANGED <<eeprom, nextWriteAddrVal>>
  BY DEF EraseLow, Step
<1>4. pc'[t] = "high" /\ stored'.low = FF
  BY <1>2, <1>3 DEF TypeOK
<1>5. Clearing(t)'
  BY <1>2, <1>3, <1>4, InOrderKept DEF Clearing
<1> QED
  BY <1>1, <1>2, <1>3, <1>5, OwnStep DEF Steps

LEMMA EraseHighInOrder ==
  ASSUME TypeOK, NEW t \in Clearer, Clearing(t), EraseHigh(t)
  PROVE  pc' = [pc EXCEPT ![t] = "test"] /\ Clearing(t)'
<1>1. /\ pc[t] = "high" /\ pc' = [pc EXCEPT ![t] = "test"]
      /\ stored' = [stored EXCEPT !.high = FF]
      /\ UNCHANGED <<eeprom, nextWriteAddrVal>>
  BY DEF EraseHigh, Step
<1>2. pc'[t] = "test"
  BY <1>1 DEF TypeOK
<1>3. stored' = Erased
  <2>1. stored.low = FF /\ stored = [low |-> stored.low, high |-> stored.high]
    BY <1>1 DEF Clearing, TypeOK
  <2>2. stored' = [low |-> stored.low, high |-> FF]
    BY <1>1, <2>1
  <2> QED
    BY <2>1, <2>2 DEF Erased
<1>4. InOrder'
  BY <1>1, InOrderKept DEF Clearing
<1>5. stored' = Erased /\ Erased' = Erased
  BY <1>3 DEF Erased, FF
<1> QED
  BY <1>1, <1>2, <1>4, <1>5 DEF Clearing

\* FastClearLog measures what is there, the ring filled or not.
LEMMA MeasureInOrder ==
  ASSUME TypeOK, NEW t \in Clearer, Clearing(t), Measure(t)
  PROVE  \E s \in {"init", "erase"} : pc' = [pc EXCEPT ![t] = s] /\ Clearing(t)'
<1>1. /\ pc[t] = "test" /\ UNCHANGED <<eeprom, stored, nextWriteAddrVal>>
      /\ at' = [at EXCEPT ![t] = BASE]
  BY DEF Measure, Step, ringVars
<1>2. PICK n \in Slots : nextWriteAddrVal = SlotAddr(n) /\ Whole(slots, n)
  BY <1>1 DEF Clearing, InOrder
<1>3. slots' = slots /\ stored' = Erased
  BY <1>1 DEF Clearing, slots, Firsts
<1>4. n \in Nat /\ n < TOTAL /\ TOTAL \in Nat /\ TOTAL >= 1 /\ SIZE \in Nat /\ SIZE >= 1
  BY SlotLimits, Sizes
<1>5. PICK full \in BOOLEAN :
        /\ full <=> slots[n] # BLANK
        /\ left' = [left EXCEPT ![t] = ToErase(full)]
        /\ pc' = [pc EXCEPT ![t] = IF ToErase(full) = 0 THEN "init" ELSE "erase"]
  <2>1. nextWriteAddrVal \in Ring /\ slots[n] = eeprom[nextWriteAddrVal]
    BY <1>2, SlotAddresses DEF slots, Firsts
  <2> QED
    BY <2>1 DEF Measure, Step
<1>6. full <=> Filled(slots)
  BY <1>2, <1>4, <1>5 DEF Whole, Partial, Filled
<1> DEFINE r == IF full THEN TOTAL ELSE n
<1>7. r \in Nat /\ r <= TOTAL
  BY <1>4
<1>8. ToErase(full) = r * SIZE
  <2>1. CASE full
    BY <2>1 DEF ToErase
  <2>2. CASE ~ full
    <3>1. nextWriteAddrVal - BASE = n * SIZE
      BY <1>2, SlotAt
    <3>2. n * SIZE \in Nat /\ n * SIZE < WORD
      <4>1. SlotAddr(n) \in 0 .. WORD - 1 /\ BASE \in Nat /\ WORD \in Nat
        BY <1>4, SlotAddresses, Sizes
      <4>2. n * SIZE \in Nat /\ SlotAddr(n) = BASE + n * SIZE
        BY <1>4 DEF SlotAddr
      <4> QED
        BY <4>1, <4>2
    <3>3. \A x, w \in Nat : x < w => x % w = x
      OBVIOUS
    <3>4. (n * SIZE) % WORD = n * SIZE
      BY <3>2, <3>3, Sizes
    <3> QED
      BY <2>2, <3>1, <3>4 DEF ToErase
  <2> QED
    BY <2>1, <2>2
<1>9. \A k \in Slots : slots[k] # BLANK => 0 <= k /\ k < 0 + r
  BY <1>2, <1>4, <1>6, SlotLimits DEF Whole, Partial
<1>10. \A a, b \in Nat : b >= 1 => (a * b = 0 <=> a = 0)
  OBVIOUS
<1> HIDE DEF r
<1>11. CASE r = 0
  <2>1. ToErase(full) = 0
    BY <1>4, <1>8, <1>11
  <2>2. pc' = [pc EXCEPT ![t] = "init"] /\ pc'[t] = "init"
    BY <1>5, <2>1 DEF TypeOK
  <2>3. Empty(slots')
    BY <1>3, <1>9, <1>11, SlotLimits DEF Empty
  <2>4. Clearing(t)'
    BY <1>3, <2>2, <2>3, EmptyAfter DEF Clearing, Erased, FF
  <2> QED
    BY <2>2, <2>4
<1>12. CASE r # 0
  <2>1. ToErase(full) # 0
    BY <1>4, <1>7, <1>8, <1>10, <1>12
  <2>2. pc' = [pc EXCEPT ![t] = "erase"] /\ pc'[t] = "erase"
    BY <1>5, <2>1 DEF TypeOK
  <2>3. at'[t] = SlotAddr(0) /\ left'[t] = r * SIZE
    BY <1>1, <1>5, <1>8, SlotAddresses DEF TypeOK
  <2>4. 0 + r <= TOTAL /\ r \in Nat \ {0} /\ 0 \in Nat
    BY <1>7, <1>12
  <2>5. Erasing(t)'
    BY <1>3, <1>9, <2>3, <2>4 DEF Erasing, SlotAddr, Slots
  <2>6. Clearing(t)'
    BY <1>3, <2>2, <2>5 DEF Clearing, Erased, FF
  <2> QED
    BY <2>2, <2>6
<1> QED
  BY <1>11, <1>12

\* One record of those that are left is erased; with the last, none is left in
\* the whole ring.
LEMMA EraseRecordInOrder ==
  ASSUME TypeOK, NEW t \in Clearer, Clearing(t), EraseRecord(t)
  PROVE  \E s \in {"init", "erase"} : pc' = [pc EXCEPT ![t] = s] /\ Clearing(t)'
<1>1. /\ pc[t] = "erase" /\ UNCHANGED <<stored, nextWriteAddrVal>>
      /\ pc' = [pc EXCEPT ![t] = IF left[t] = SIZE THEN "init" ELSE "erase"]
      /\ eeprom' = Written(at[t], BLANK, 1)
      /\ at' = [at EXCEPT ![t] = (@ + SIZE) % WORD]
      /\ left' = [left EXCEPT ![t] = (@ - SIZE) % WORD]
  BY DEF EraseRecord, Step
<1>2. PICK j \in Nat, r \in Nat \ {0} :
        /\ j + r <= TOTAL
        /\ at[t] = SlotAddr(j)
        /\ left[t] = r * SIZE
        /\ \A k \in Slots : slots[k] # BLANK => j <= k /\ k < j + r
  BY <1>1 DEF Clearing, Erasing
<1>3. /\ TOTAL \in Nat /\ SIZE \in Nat /\ SIZE >= 1 /\ WORD \in Nat /\ WORD >= 1
      /\ j \in Slots /\ j + 1 \in 0 .. TOTAL
  <2>1. TOTAL \in Nat /\ SIZE \in Nat /\ SIZE >= 1 /\ WORD \in Nat /\ MAX \in Nat /\ MAX < WORD
    BY Sizes
  <2>2. j < TOTAL /\ j + 1 \in 0 .. TOTAL
    BY <1>2, <2>1
  <2> QED
    BY <2>1, <2>2, SlotLimits
<1>4. stored' = Erased
  BY <1>1 DEF Clearing
<1>5. \A k \in Slots : slots'[k] = IF k = j THEN BLANK ELSE slots[k]
  <2>1. 1 \in 1 .. SIZE
    BY <1>3
  <2>2. slots' = [slots EXCEPT ![j] = BLANK]
    BY <1>1, <1>2, <1>3, <2>1, SlotWritten, SlotsAfter
  <2>3. slots \in [Slots -> 0 .. Records]
    BY SlotsType
  <2> QED
    BY <2>2, <2>3
<1>6. at'[t] = SlotAddr(j + 1)
  <2>1. SlotAddr(j) + SIZE = SlotAddr(j + 1) /\ SlotAddr(j + 1) \in 0 .. WORD - 1
    BY <1>3, SlotAddresses
  <2>2. \A x, w \in Nat : x < w => x % w = x
    OBVIOUS
  <2>3. SlotAddr(j + 1) % WORD = SlotAddr(j + 1)
    BY <1>3, <2>1, <2>2
  <2>4. (at[t] + SIZE) % WORD = SlotAddr(j + 1)
    BY <1>2, <2>1, <2>3
  <2> QED
    BY <1>1, <2>4 DEF TypeOK
<1>7. (r - 1) * SIZE \in Nat /\ r * SIZE = (r - 1) * SIZE + SIZE /\ r - 1 \in Nat
  BY <1>2, <1>3
<1>8. left'[t] = (r - 1) * SIZE
  <2>1. left[t] \in Nat /\ left[t] < WORD
    BY <1>3 DEF TypeOK
  <2>2. left[t] - SIZE = (r - 1) * SIZE /\ (r - 1) * SIZE < WORD
    BY <1>2, <1>3, <1>7, <2>1
  <2>3. \A x, w \in Nat : x < w => x % w = x
    OBVIOUS
  <2>4. ((r - 1) * SIZE) % WORD = (r - 1) * SIZE
    BY <1>3, <1>7, <2>2, <2>3
  <2>5. (left[t] - SIZE) % WORD = (r - 1) * SIZE
    BY <2>2, <2>4
  <2> QED
    BY <1>1, <2>5 DEF TypeOK
<1>9. left[t] = SIZE <=> r - 1 = 0
  <2>1. \A a, b \in Nat : b >= 1 => (a * b = 0 <=> a = 0)
    OBVIOUS
  <2>2. (r - 1) * SIZE = 0 <=> r - 1 = 0
    BY <1>3, <1>7, <2>1
  <2> QED
    BY <1>2, <1>3, <1>7, <2>2
<1>10. \A k \in Slots : slots'[k] # BLANK => j + 1 <= k /\ k < (j + 1) + (r - 1)
  <2> SUFFICES ASSUME NEW k \in Slots, slots'[k] # BLANK
               PROVE  j + 1 <= k /\ k < (j + 1) + (r - 1)
    OBVIOUS
  <2>1. k # j /\ slots[k] # BLANK /\ k \in Nat
    BY <1>5, SlotLimits
  <2> QED
    BY <1>2, <2>1
<1>11. CASE r - 1 = 0
  <2>1. pc' = [pc EXCEPT ![t] = "init"] /\ pc'[t] = "init"
    BY <1>1, <1>9, <1>11 DEF TypeOK
  <2>2. Empty(slots')
    <3> SUFFICES ASSUME NEW k \in Slots, slots'[k] # BLANK
                 PROVE  FALSE
      BY DEF Empty
    <3>1. k \in Nat /\ j + 1 <= k /\ k < (j + 1) + (r - 1)
      BY <1>10, SlotLimits
    <3> QED
      BY <1>11, <3>1
  <2>3. Clearing(t)'
    BY <1>4, <2>1, <2>2, EmptyAfter DEF Clearing, Erased, FF
  <2> QED
    BY <2>1, <2>3
<1>12. CASE r - 1 # 0
  <2>1. pc' = [pc EXCEPT ![t] = "erase"] /\ pc'[t] = "erase"
    BY <1>1, <1>9, <1>12 DEF TypeOK
  <2> DEFINE i == j + 1
             q == r - 1
  <2>2. i \in Nat /\ q \in Nat \ {0} /\ i + q <= TOTAL
    BY <1>2, <1>3, <1>7, <1>12
  <2>3. /\ at'[t] = SlotAddr(i) /\ left'[t] = q * SIZE
        /\ \A k \in Slots : slots'[k] # BLANK => i <= k /\ k < i + q
    BY <1>6, <1>8, <1>10
  <2> HIDE DEF i, q
  <2>4. Erasing(t)'
    BY <2>2, <2>3 DEF Erasing, SlotAddr, Slots
  <2>5. Clearing(t)'
    BY <1>4, <2>1, <2>4 DEF Clearing, Erased, FF
  <2> QED
    BY <2>1, <2>5
<1> QED
  BY <1>11, <1>12

\* Log_Init reads the first of two erased bytes.
LEMMA ReadHighInOrder ==
  ASSUME TypeOK, NEW t \in Clearer, Clearing(t), ReadHigh(t)
  PROVE  pc' = [pc EXCEPT ![t] = "low"] /\ Clearing(t)'
<1>1. /\ pc[t] = "init" /\ pc' = [pc EXCEPT ![t] = "low"]
      /\ UNCHANGED <<eeprom, stored>>
  BY DEF ReadHigh, Step, ringVars
<1>2. pc'[t] = "low" /\ slots' = slots
  BY <1>1 DEF TypeOK, slots, Firsts
<1>3. stored' = Erased /\ Empty(slots')
  BY <1>1, <1>2 DEF Clearing
<1> QED
  BY <1>1, <1>2, <1>3, EmptyAfter DEF Clearing, Erased, FF

\* It reads the second.
LEMMA ReadLowInOrder ==
  ASSUME TypeOK, NEW t \in Clearer, pc[t] = "low", Clearing(t), ReadLow(t)
  PROVE  pc' = [pc EXCEPT ![t] = "take"] /\ Clearing(t)'
<1>1. pc' = [pc EXCEPT ![t] = "take"] /\ UNCHANGED <<eeprom, stored>>
  BY DEF ReadLow, Step, ringVars
<1>2. pc'[t] = "take" /\ slots' = slots
  BY <1>1 DEF TypeOK, slots, Firsts
<1>3. stored' = Erased /\ Empty(slots')
  BY <1>1, <1>2 DEF Clearing
<1> QED
  BY <1>1, <1>2, <1>3, EmptyAfter DEF Clearing, Erased, FF

\* It finds the address erased, and there is the base to store.
LEMMA TakeInOrder ==
  ASSUME TypeOK, Reading, NEW t \in Clearer, pc[t] = "take", Clearing(t), Take(t)
  PROVE  pc' = [pc EXCEPT ![t] = "base"] /\ Clearing(t)'
<1>1. /\ pc' = [pc EXCEPT ![t] = IF Read(t) = Erased THEN "base" ELSE "idle"]
      /\ UNCHANGED <<eeprom, stored>>
  BY DEF Take, Step
<1>2. stored = Erased /\ Empty(slots) /\ high[t] = stored.high /\ low[t] = stored.low
  BY DEF Clearing, Reading
<1>3. Read(t) = Erased
  BY <1>2 DEF Erased, Read
<1>4. pc' = [pc EXCEPT ![t] = "base"] /\ pc'[t] = "base"
  BY <1>1, <1>3 DEF TypeOK
<1>5. stored' = Erased /\ Empty(slots')
  BY <1>1, <1>2 DEF slots, Firsts
<1> QED
  BY <1>4, <1>5, EmptyAfter DEF Clearing, Erased, FF

\* It stores the first byte of the base.
LEMMA StoreBaseLowInOrder ==
  ASSUME TypeOK, NEW t \in Clearer, Clearing(t), StoreBaseLow(t)
  PROVE  pc' = [pc EXCEPT ![t] = "baseHigh"] /\ Clearing(t)'
<1>1. /\ pc[t] = "base" /\ pc' = [pc EXCEPT ![t] = "baseHigh"]
      /\ UNCHANGED eeprom
  BY DEF StoreBaseLow, Step
<1>2. pc'[t] = "baseHigh" /\ slots' = slots
  BY <1>1 DEF TypeOK, slots, Firsts
<1>3. Empty(slots')
  BY <1>1, <1>2 DEF Clearing
<1> QED
  BY <1>1, <1>2, <1>3, EmptyAfter DEF Clearing

\* The clear ends with an empty ring whose next address is its first.
LEMMA StoreBaseHighEnds ==
  ASSUME TypeOK, Reading, NEW t \in Clearer, Clearing(t), StoreBaseHigh(t)
  PROVE  /\ pc' = [pc EXCEPT ![t] = "idle"]
         /\ nextWriteAddrVal' = SlotAddr(0) /\ Empty(slots')
<1>1. /\ pc[t] = "baseHigh" /\ pc' = [pc EXCEPT ![t] = "idle"]
      /\ UNCHANGED <<eeprom, nextWriteAddrVal>>
  BY DEF StoreBaseHigh, Step
<1>2. nextWriteAddrVal = BASE /\ Empty(slots)
  BY <1>1 DEF Clearing, Reading
<1>3. slots' = slots
  BY <1>1 DEF slots, Firsts
<1> QED
  BY <1>1, <1>2, <1>3, SlotAddresses

\* An access of a clear: the clear goes on in order, or it is over and there is
\* nothing in the log.
LEMMA GoesOnInOrder ==
  ASSUME IInv, OInv, NEW t \in Clearer, Clears(t), GoesOn(t), ~ mixed, ~ torn
  PROVE  /\ Whenever'
         /\ ~ ClearUnderWay' => nextWriteAddrVal' = SlotAddr(0) /\ Empty(slots')
<1>1. TypeOK /\ Reading /\ Clearing(t)
  BY DEF IInv, Undisturbed, OInv, Whenever
<1>2. \A u \in Clearer : u # t => pc[u] = "idle"
  BY Alone
<1>3. pc[t] \notin {"idle", "otherLow", "otherTake"}
  BY DEF Clears
<1>4. ASSUME NEW s \in Steps \ {"idle", "otherLow", "otherTake"},
             pc' = [pc EXCEPT ![t] = s], Clearing(t)'
      PROVE  Whenever' /\ ClearUnderWay'
  BY <1>1, <1>2, <1>4, OwnStep
<1>5. CASE EraseHigh(t)
  BY <1>1, <1>4, <1>5, EraseHighInOrder DEF Steps
<1>6. CASE Measure(t)
  <2>1. PICK s \in {"init", "erase"} : pc' = [pc EXCEPT ![t] = s] /\ Clearing(t)'
    BY <1>1, <1>6, MeasureInOrder
  <2> QED
    BY <1>4, <2>1 DEF Steps
<1>7. CASE EraseRecord(t)
  <2>1. PICK s \in {"init", "erase"} : pc' = [pc EXCEPT ![t] = s] /\ Clearing(t)'
    BY <1>1, <1>7, EraseRecordInOrder
  <2> QED
    BY <1>4, <2>1 DEF Steps
<1>8. CASE ReadHigh(t)
  BY <1>1, <1>4, <1>8, ReadHighInOrder DEF Steps
<1>9. CASE ReadLow(t)
  <2>1. pc[t] = "low"
    BY <1>3, <1>9 DEF ReadLow, Step
  <2> QED
    BY <1>1, <1>4, <1>9, <2>1, ReadLowInOrder DEF Steps
<1>10. CASE Take(t)
  <2>1. pc[t] = "take"
    BY <1>3, <1>10 DEF Take, Step
  <2> QED
    BY <1>1, <1>4, <1>10, <2>1, TakeInOrder DEF Steps
<1>11. CASE StoreBaseLow(t)
  BY <1>1, <1>4, <1>11, StoreBaseLowInOrder DEF Steps
<1>12. CASE StoreBaseHigh(t)
  <2>1. /\ pc' = [pc EXCEPT ![t] = "idle"]
        /\ nextWriteAddrVal' = SlotAddr(0) /\ Empty(slots')
    BY <1>1, <1>12, StoreBaseHighEnds
  <2>2. \A u \in Clearer : pc'[u] = "idle"
    BY <1>1, <1>2, <2>1 DEF TypeOK
  <2>3. InOrder'
    BY <2>1, EmptyWhole, InOrderAfter, SlotLimits
  <2> QED
    BY <2>1, <2>2, <2>3, NobodyClears
<1> QED
  BY <1>5, <1>6, <1>7, <1>8, <1>9, <1>10, <1>11, <1>12 DEF GoesOn

\* The Log_Init of another type's clear leaves this log as it is.
LEMMA OtherLeaves ==
  ASSUME IInv, NEW t \in Clearer, ~ Clears(t), GoesOn(t), ~ mixed
  PROVE  /\ ~ ClearUnderWay /\ UNCHANGED <<eeprom, nextWriteAddrVal>>
         /\ \A u \in Clearer : pc'[u] \in {"idle", "otherLow", "otherTake"}
<1>1. ReadLow(t) \/ Take(t)
  BY DEF Clears, GoesOn, EraseHigh, Measure, EraseRecord, ReadHigh, StoreBaseLow,
    StoreBaseHigh, Step
<1>2. pc[t] \in {"otherLow", "otherTake"}
  BY <1>1 DEF Clears, ReadLow, Take, Step
<1>3. ~ ClearUnderWay /\ nextWriteAddrVal = Address(stored) /\ stored # Erased
  BY <1>2, OtherAlone
<1>4. \A u \in Clearer : pc[u] \in {"idle", "otherLow", "otherTake"}
  BY <1>3 DEF ClearUnderWay, Clears
<1>5. pc \in [Clearer -> Steps] /\ stored = [low |-> stored.low, high |-> stored.high]
  BY DEF IInv, TypeOK
<1>6. CASE ReadLow(t)
  <2>1. pc' = [pc EXCEPT ![t] = "otherTake"] /\ UNCHANGED <<eeprom, nextWriteAddrVal>>
    BY <1>2, <1>6 DEF ReadLow, Step, ringVars
  <2> QED
    BY <1>3, <1>4, <1>5, <2>1
<1>7. CASE Take(t)
  <2>1. /\ pc[t] = "otherTake" /\ nextWriteAddrVal' = Address(Read(t)) /\ eeprom' = eeprom
        /\ pc' = [pc EXCEPT ![t] = IF Read(t) = Erased THEN "base" ELSE "idle"]
    BY <1>2, <1>7 DEF Take, Step
  <2>2. high[t] = stored.high /\ low[t] = stored.low
    BY <2>1 DEF IInv, Undisturbed, Reading
  <2>3. Read(t) = stored
    BY <1>5, <2>2 DEF Read
  <2>4. pc' = [pc EXCEPT ![t] = "idle"]
    BY <1>3, <2>1, <2>3
  <2> QED
    BY <1>3, <1>4, <1>5, <2>1, <2>3, <2>4
<1> QED
  BY <1>1, <1>6, <1>7

\* So does its coming there.
LEMMA OtherComes ==
  ASSUME TypeOK, ~ ClearUnderWay, NEW t \in Clearer, OtherHigh(t)
  PROVE  /\ UNCHANGED <<eeprom, nextWriteAddrVal>>
         /\ \A u \in Clearer : pc'[u] \in {"idle", "otherLow", "otherTake"}
<1>1. pc' = [pc EXCEPT ![t] = "otherLow"] /\ UNCHANGED <<eeprom, nextWriteAddrVal>>
  BY DEF OtherHigh, Step, ringVars
<1>2. \A u \in Clearer : pc[u] \in {"idle", "otherLow", "otherTake"}
  BY DEF ClearUnderWay, Clears
<1> QED
  BY <1>1, <1>2 DEF TypeOK

\* A start of the host between two records finds the address it had.
LEMMA StartInOrder ==
  ASSUME IInv, ~ ClearUnderWay, ~ mixed, Reset \/ PowerFails
  PROVE  UNCHANGED <<eeprom, nextWriteAddrVal>> /\ \A t \in Clearer : pc'[t] = "idle"
<1>1. nextWriteAddrVal = Address(stored) /\ stored # Erased
  BY DEF IInv, AddressAgrees, Undisturbed, Addressed
<1>2. Boot(stored) /\ eeprom' = eeprom
  BY DEF Reset, PowerFails
<1> QED
  BY <1>1, <1>2 DEF Boot, Booted

\* Every step of the log keeps OInv.
LEMMA OrderKept == IInv /\ OInv /\ [Next]_vars => OInv'
<1> SUFFICES ASSUME IInv, OInv, [Next]_vars
             PROVE  OInv'
  OBVIOUS
<1>1. Numbered' /\ TypeOK
  BY NumberedKept DEF IInv, OInv
<1> SUFFICES ASSUME ~ mixed', ~ torn'
             PROVE  Whenever'
  BY <1>1 DEF OInv
<1>2. CASE WriteLog
  <2>1. ~ mixed /\ ~ torn /\ Quiet
    BY <1>2 DEF WriteLog, CutsInto
  <2>2. PICK n \in Slots : nextWriteAddrVal = SlotAddr(n) /\ Whole(slots, n)
    BY <2>1 DEF OInv, Whenever, InOrder, Quiet, ClearUnderWay, Clears
  <2>3. InOrder'
    BY <1>1, <1>2, <2>2, WriteInOrder, InOrderAfter
  <2>4. \A t \in Clearer : pc'[t] = "idle"
    BY <1>2, <2>1 DEF WriteLog, taskVars, Quiet
  <2> QED
    BY <2>3, <2>4, NobodyClears
<1>3. ASSUME NEW t \in Clearer, EraseLow(t)
      PROVE  Whenever'
  BY <1>3, EraseLowInOrder
<1>4. ASSUME NEW t \in Clearer, GoesOn(t)
      PROVE  Whenever'
  <2>1. ~ mixed /\ ~ torn
    BY <1>4 DEF GoesOn, history
  <2>2. CASE Clears(t)
    BY <1>4, <2>1, <2>2, GoesOnInOrder
  <2>3. CASE ~ Clears(t)
    <3>1. /\ ~ ClearUnderWay /\ UNCHANGED <<eeprom, nextWriteAddrVal>>
          /\ \A u \in Clearer : pc'[u] \in {"idle", "otherLow", "otherTake"}
      BY <1>4, <2>1, <2>3, OtherLeaves
    <3>2. InOrder'
      BY <2>1, <3>1, InOrderKept DEF OInv, Whenever
    <3> QED
      BY <3>1, <3>2, NobodyClears
  <2> QED
    BY <2>2, <2>3
<1>5. CASE Reset \/ PowerFails
  <2>1. ~ mixed /\ ~ torn /\ ~ ClearUnderWay
    <3>1. CASE Reset
      BY <3>1, Zenon DEF Reset, CutsInto
    <3>2. CASE PowerFails
      BY <3>2, Zenon DEF PowerFails
    <3> QED
      BY <1>5, <3>1, <3>2
  <2>2. InOrder
    BY <2>1 DEF OInv, Whenever
  <2>3. UNCHANGED <<eeprom, nextWriteAddrVal>> /\ \A t \in Clearer : pc'[t] = "idle"
    BY <1>5, <2>1, StartInOrder
  <2> QED
    BY <2>2, <2>3, InOrderKept, NobodyClears
<1>6. CASE UNCHANGED vars
  <2>1. UNCHANGED <<eeprom, stored, nextWriteAddrVal, pc, at, left, high, low, mixed, torn>>
    BY <1>6 DEF vars, ringVars, taskVars, history
  <2>2. slots' = slots /\ Whenever
    BY <2>1 DEF slots, Firsts, OInv
  <2>3. InOrder => InOrder'
    BY <2>1, InOrderKept
  <2>4. \A t \in Clearer : Erasing(t) => Erasing(t)'
    BY <2>1, <2>2 DEF Erasing, SlotAddr, Slots
  <2>5. Empty(slots) => Empty(slots)'
    BY <2>2, EmptyAfter
  <2>6. \A t \in Clearer : Clearing(t)'
    BY <2>1, <2>2, <2>3, <2>4, <2>5 DEF Whenever, Clearing, Erased, FF
  <2> QED
    BY <2>1, <2>2, <2>3, <2>6 DEF Whenever, ClearUnderWay, Clears
<1>7. ASSUME NEW t \in Clearer, OtherHigh(t)
      PROVE  Whenever'
  <2>1. ~ mixed /\ ~ torn /\ ~ ClearUnderWay
    BY <1>1, <1>7 DEF OtherHigh, CutsInto, TypeOK
  <2>2. InOrder
    BY <2>1 DEF OInv, Whenever
  <2>3. /\ UNCHANGED <<eeprom, nextWriteAddrVal>>
        /\ \A u \in Clearer : pc'[u] \in {"idle", "otherLow", "otherTake"}
    BY <1>1, <1>7, <2>1, OtherComes
  <2> QED
    BY <2>2, <2>3, InOrderKept, NobodyClears
<1>8. ~ \E n \in 0 .. SIZE + 1 : CutWrite(n)
  BY DEF CutWrite
<1> QED
  BY <1>2, <1>3, <1>4, <1>5, <1>6, <1>7, <1>8 DEF Next

-----------------------------------------------------------------------------
(* The refinement                                                          *)

Shown == IF Orderly THEN Visible ELSE << >>

\* A log in order shows its slots.
LEMMA ShownIs ==
  ASSUME NEW n \in Slots
  PROVE  /\ nextWriteAddrVal = SlotAddr(n) => Visible = View(slots, n)
         /\ nextWriteAddrVal' = SlotAddr(n) => Visible' = View(slots', n)
BY VisibleIs, VisibleIsView, SlotsAfter DEF slots

\* What the contract is told after a step.
LEMMA ShownAfter ==
  /\ Orderly' => Shown' = Visible'
  /\ ~ Orderly' => Shown' = << >>
BY DEF Shown

\* The contract may forget everything at any time: a clear.
LEMMA NothingShown == Shown' = << >> => Contract!Next
BY DEF Contract!Next, Contract!Clear, Shown

\* A record written to a log in order is one that LogContract allows.
LEMMA WriteShown ==
  ASSUME IInv, OInv, WriteLog, Orderly
  PROVE  Contract!Next
<1>1. TypeOK /\ Numbered /\ InOrder
  BY DEF IInv, OInv, Orderly, Whenever
<1>2. PICK n \in Slots : nextWriteAddrVal = SlotAddr(n) /\ Whole(slots, n)
  BY <1>1 DEF InOrder
<1>3. CASE ~ Orderly'
  BY <1>3, ShownAfter, NothingShown
<1> SUFFICES ASSUME Orderly'
             PROVE  Contract!Next
  BY <1>3
<1> DEFINE v == View(slots, n)
           r == written + 1
<1>4. Shown = v
  BY <1>2, ShownIs DEF Shown
<1>5. Shown' = IF Len(v) < TOTAL THEN Append(v, r) ELSE Append(Tail(v), r)
  <2>1. /\ After(n) \in Slots /\ nextWriteAddrVal' = SlotAddr(After(n))
        /\ View(slots', After(n)) =
             IF Len(v) < TOTAL THEN Append(v, r) ELSE Append(Tail(v), r)
    BY <1>1, <1>2, WriteInOrder
  <2> HIDE DEF v, r
  <2> QED
    BY <2>1, ShownIs, ShownAfter
<1>6. \A i \in DOMAIN v : v[i] < r
  <2> DEFINE S == 0 .. written
  <2>1. slots \in [Slots -> S]
    BY <1>1, SlotsNumbered
  <2> HIDE DEF S
  <2>2. v \in Seq(S)
    BY <1>2, <2>1, ViewType
  <2> HIDE DEF v
  <2>3. \A i \in DOMAIN v : v[i] \in S
    BY <2>2
  <2>4. written \in Nat
    BY <1>1 DEF TypeOK
  <2> QED
    BY <2>3, <2>4 DEF S
<1>7. r \in 1 .. Records
  BY <1>1, Sizes DEF WriteLog, TypeOK
<1> HIDE DEF v, r
<1>8. Contract!Write(r)
  BY <1>4, <1>5, <1>6 DEF Contract!Write, Shown
<1> QED
  BY <1>7, <1>8 DEF Contract!Next

\* Every step is one that LogContract allows, or one it does not see.
LEMMA StepShown == IInv /\ OInv /\ [Next]_vars => [Contract!Next]_Shown
<1> SUFFICES ASSUME IInv, OInv, [Next]_vars
             PROVE  Contract!Next \/ Shown' = Shown
  OBVIOUS
<1>0. TypeOK
  BY DEF IInv
<1>1. CASE WriteLog
  <2>1. CASE Orderly
    BY <1>1, <2>1, WriteShown
  <2>2. CASE ~ Orderly
    <3>1. ~ Orderly'
      BY <1>0, <1>1, <2>2 DEF WriteLog, CutsInto, Orderly, Quiet, ClearUnderWay, Clears,
        TypeOK, taskVars
    <3> QED
      BY <3>1, ShownAfter, NothingShown
  <2> QED
    BY <2>1, <2>2
<1>2. ASSUME NEW t \in Clearer, EraseLow(t)
      PROVE  Contract!Next
  <2>1. pc'[t] = "high"
    BY <1>2 DEF EraseLow, Step, IInv, TypeOK
  <2>2. ~ Orderly'
    BY <1>2, <2>1 DEF Orderly, ClearUnderWay, Clears
  <2> QED
    BY <2>2, ShownAfter, NothingShown
<1>3. ASSUME NEW t \in Clearer, GoesOn(t)
      PROVE  Contract!Next \/ Shown' = Shown
  <2>1. CASE ~ Orderly'
    BY <2>1, ShownAfter, NothingShown
  <2>2. CASE Orderly' /\ Clears(t)
    <3>1. ~ mixed /\ ~ torn /\ ~ ClearUnderWay'
      BY <1>3, <2>2 DEF GoesOn, history, Orderly
    <3>2. nextWriteAddrVal' = SlotAddr(0) /\ Empty(slots')
      BY <1>3, <2>2, <3>1, GoesOnInOrder
    <3>3. Visible' = << >>
      BY <3>2, ShownIs, EmptyWhole, SlotLimits
    <3> QED
      BY <2>2, <3>3, ShownAfter, NothingShown
  <2>3. CASE Orderly' /\ ~ Clears(t)
    <3>1. ~ mixed /\ ~ torn
      BY <1>3, <2>3 DEF GoesOn, history, Orderly
    <3>2. ~ ClearUnderWay /\ UNCHANGED <<eeprom, nextWriteAddrVal>>
      BY <1>3, <2>3, <3>1, OtherLeaves
    <3>3. Visible' = Visible /\ Orderly
      BY <3>1, <3>2, VisibleIs DEF Orderly
    <3> QED
      BY <2>3, <3>3, ShownAfter DEF Shown
  <2> QED
    BY <2>1, <2>2, <2>3
<1>4. ASSUME Reset \/ PowerFails \/ \E t \in Clearer : OtherHigh(t)
      PROVE  Contract!Next \/ Shown' = Shown
  <2>1. CASE ~ Orderly'
    BY <2>1, ShownAfter, NothingShown
  <2>2. CASE Orderly'
    <3>1. ~ mixed /\ ~ torn /\ ~ ClearUnderWay
      <4>1. ~ mixed' /\ ~ torn'
        BY <2>2 DEF Orderly
      <4>2. CASE Reset
        BY <4>1, <4>2, Zenon DEF Reset, CutsInto
      <4>3. CASE PowerFails
        BY <4>1, <4>3, Zenon DEF PowerFails
      <4>4. ASSUME NEW t \in Clearer, OtherHigh(t)
            PROVE  ~ mixed /\ ~ torn /\ ~ ClearUnderWay
        BY <4>1, <4>4, Zenon DEF OtherHigh, CutsInto
      <4> QED
        BY <1>4, <4>2, <4>3, <4>4
    <3>2. UNCHANGED <<eeprom, nextWriteAddrVal>>
      BY <1>0, <1>4, <3>1, StartInOrder, OtherComes
    <3>3. Visible' = Visible /\ Orderly
      BY <3>1, <3>2, VisibleIs DEF Orderly
    <3> QED
      BY <2>2, <3>3, ShownAfter DEF Shown
  <2> QED
    BY <2>1, <2>2
<1>5. CASE \E n \in 0 .. SIZE + 1 : CutWrite(n)
  <2>1. ~ Orderly'
    BY <1>5 DEF CutWrite, Orderly
  <2> QED
    BY <2>1, ShownAfter, NothingShown
<1>6. CASE UNCHANGED vars
  <2>1. UNCHANGED <<eeprom, nextWriteAddrVal, pc, mixed, torn>>
    BY <1>6 DEF vars, ringVars, taskVars, history
  <2>2. Visible' = Visible
    BY <2>1, VisibleIs
  <2>3. Orderly' <=> Orderly
    BY <2>1 DEF Orderly, ClearUnderWay, Clears
  <2> QED
    BY <2>2, <2>3 DEF Shown
<1> QED
  BY <1>1, <1>2, <1>3, <1>4, <1>5, <1>6 DEF Next

\* The EEPROM as delivered shows no record.
LEMMA ShownStart == Init => Contract!Init
<1> SUFFICES ASSUME Init
             PROVE  Shown = << >>
  BY DEF Contract!Init, Shown
<1>1. nextWriteAddrVal = SlotAddr(0)
  BY SlotAddresses DEF Init, Booted
<1>2. Empty(slots)
  BY SlotAddresses DEF Init, Empty, slots, Firsts
<1>3. Visible = << >>
  BY <1>1, <1>2, ShownIs, EmptyWhole, SlotLimits
<1> QED
  BY <1>3 DEF Shown

\* What the log shows, from one record, clear or start of the host to the next,
\* is the log of LogContract, in a ring of any size at any address and whatever
\* other types are cleared; until a write or a reset cuts into a clear, a write
\* into another type's Log_Init, or the power fails in a write or a clear.
THEOREM LogKeepsContract == Spec => ContractKept
<1>1. Init => Contract!Init
  BY ShownStart
<1>2. IInv /\ OInv /\ [Next]_vars => [Contract!Next]_Shown
  BY StepShown
<1>3. [Contract!Next]_Shown => [Contract!Next]_(IF Orderly THEN Visible ELSE << >>)
  BY DEF Shown
<1> QED
  BY <1>1, <1>2, <1>3, Start, Kept, OrderStart, OrderKept, PTL
  DEF Spec, ContractKept, Contract!Spec

-----------------------------------------------------------------------------
(* Where a log that is in order is written and erased                      *)

AtSlot(a) == \E k \in Slots : a = SlotAddr(k)

\* As long as no clear was cut into and no record torn: the next record goes
\* to a slot, and a clear erases at a slot, with whole slots left, none of them
\* beyond the ring.
KeepsToSlots ==
  ~ mixed /\ ~ torn =>
    /\ ~ ClearUnderWay => AtSlot(nextWriteAddrVal)
    /\ \A t \in Clearer : pc[t] = "erase" =>
         /\ AtSlot(at[t])
         /\ \E r \in 1 .. TOTAL : left[t] = r * SIZE
         /\ at[t] + left[t] <= MAX + SIZE

\* The end of the last slot is the end of the ring.
LEMMA SlotsEnd ==
  ASSUME NEW j \in Nat, NEW r \in Nat \ {0}, j + r <= TOTAL
  PROVE  /\ j \in Slots /\ r \in 1 .. TOTAL
         /\ r * SIZE \in Nat /\ r * SIZE >= SIZE
         /\ SlotAddr(j) + r * SIZE = SlotAddr(j + r)
         /\ SlotAddr(j + r) \in Nat /\ SlotAddr(j + r) <= MAX + SIZE
<1>1. TOTAL \in Nat /\ SIZE \in Nat /\ SIZE >= 1 /\ BASE \in Nat /\ MAX \in Nat
  BY Sizes
<1>2. j \in Slots /\ r \in 1 .. TOTAL
  BY <1>1 DEF Slots
<1>3. j * SIZE \in Nat /\ r * SIZE \in Nat /\ (j + r) * SIZE = j * SIZE + r * SIZE
  BY <1>1
<1>4. r * SIZE >= SIZE
  <2>1. (r - 1) * SIZE \in Nat /\ r * SIZE = (r - 1) * SIZE + SIZE
    BY <1>1
  <2> QED
    BY <1>1, <2>1
<1>5. SlotAddr(j) + r * SIZE = SlotAddr(j + r)
  BY <1>1, <1>3 DEF SlotAddr
<1>6. SlotAddr(j + r) \in Nat /\ SlotAddr(j + r) <= MAX + SIZE
  <2>1. j + r - 1 \in Slots /\ j + r - 1 \in Nat /\ (j + r - 1) + 1 = j + r
    BY <1>1 DEF Slots
  <2>2. SlotAddr(j + r - 1) <= MAX /\ SlotAddr(j + r - 1) \in Nat
        /\ SlotAddr((j + r - 1) + 1) = SlotAddr(j + r - 1) + SIZE
    BY <2>1, SlotAddresses
  <2>3. SlotAddr(j + r) = SlotAddr(j + r - 1) + SIZE
    BY <2>1, <2>2
  <2> QED
    BY <1>1, <2>2, <2>3
<1> QED
  BY <1>2, <1>3, <1>4, <1>5, <1>6

\* An undisturbed clear: what is left and where it has come to.
LEMMA Left ==
  ASSUME OInv, ~ mixed, ~ torn, NEW t \in Clearer, pc[t] = "erase"
  PROVE  \E j \in Nat, r \in Nat \ {0} :
           j + r <= TOTAL /\ at[t] = SlotAddr(j) /\ left[t] = r * SIZE
<1>1. Erasing(t)
  BY DEF OInv, Whenever, Clearing
<1> QED
  BY <1>1 DEF Erasing

\* A log that nothing cuts into is only written and erased at its slots, in a
\* ring of any size at any address (WriteLog, FastEraseLogEEProm).
THEOREM LogKeepsToSlots == Spec => []KeepsToSlots
<1>1. IInv /\ OInv => KeepsToSlots
  <2> SUFFICES ASSUME IInv, OInv, ~ mixed, ~ torn
               PROVE  /\ ~ ClearUnderWay => AtSlot(nextWriteAddrVal)
                      /\ \A t \in Clearer : pc[t] = "erase" =>
                           /\ AtSlot(at[t])
                           /\ \E r \in 1 .. TOTAL : left[t] = r * SIZE
                           /\ at[t] + left[t] <= MAX + SIZE
    BY DEF KeepsToSlots
  <2>1. ~ ClearUnderWay => AtSlot(nextWriteAddrVal)
    BY DEF OInv, Whenever, InOrder, AtSlot
  <2>2. ASSUME NEW t \in Clearer, pc[t] = "erase"
        PROVE  /\ AtSlot(at[t])
               /\ \E r \in 1 .. TOTAL : left[t] = r * SIZE
               /\ at[t] + left[t] <= MAX + SIZE
    <3>1. PICK j \in Nat, r \in Nat \ {0} :
            j + r <= TOTAL /\ at[t] = SlotAddr(j) /\ left[t] = r * SIZE
      BY <2>2, Left
    <3>2. /\ j \in Slots /\ r \in 1 .. TOTAL
          /\ SlotAddr(j) + r * SIZE = SlotAddr(j + r)
          /\ SlotAddr(j + r) <= MAX + SIZE
      BY <3>1, SlotsEnd
    <3> QED
      BY <3>1, <3>2 DEF AtSlot
  <2> QED
    BY <2>1, <2>2
<1> QED
  BY <1>1, Start, Kept, OrderStart, OrderKept, PTL DEF Spec

\* Each turn of an undisturbed clear goes one slot up and leaves one slot less,
\* without the u16 count ever passing zero, which is where the loop stops: so
\* it has as many turns as it had slots.
THEOREM ClearGoesDown ==
  Spec => [][\A t \in Clearer : EraseRecord(t) /\ ~ mixed /\ ~ torn =>
               /\ left'[t] = left[t] - SIZE /\ left'[t] \in Nat
               /\ at'[t] = at[t] + SIZE
               /\ pc'[t] = "erase" <=> left'[t] > 0]_vars
<1>1. IInv /\ OInv => \A t \in Clearer : EraseRecord(t) /\ ~ mixed /\ ~ torn =>
        /\ left'[t] = left[t] - SIZE /\ left'[t] \in Nat
        /\ at'[t] = at[t] + SIZE
        /\ pc'[t] = "erase" <=> left'[t] > 0
  <2> SUFFICES ASSUME IInv, OInv, NEW t \in Clearer, EraseRecord(t), ~ mixed, ~ torn
               PROVE  /\ left'[t] = left[t] - SIZE /\ left'[t] \in Nat
                      /\ at'[t] = at[t] + SIZE
                      /\ pc'[t] = "erase" <=> left'[t] > 0
    OBVIOUS
  <2>1. /\ pc[t] = "erase"
        /\ pc'[t] = IF left[t] = SIZE THEN "init" ELSE "erase"
        /\ at'[t] = (at[t] + SIZE) % WORD
        /\ left'[t] = (left[t] - SIZE) % WORD
    BY DEF EraseRecord, Step, IInv, TypeOK
  <2>2. PICK j \in Nat, r \in Nat \ {0} :
          j + r <= TOTAL /\ at[t] = SlotAddr(j) /\ left[t] = r * SIZE
    BY <2>1, Left
  <2>3. /\ left[t] \in Nat /\ left[t] >= SIZE
        /\ at[t] + left[t] <= MAX + SIZE /\ at[t] \in Nat
    <3>1. /\ r * SIZE \in Nat /\ r * SIZE >= SIZE
          /\ SlotAddr(j) + r * SIZE = SlotAddr(j + r)
          /\ SlotAddr(j + r) <= MAX + SIZE
      BY <2>2, SlotsEnd
    <3>2. SlotAddr(j) \in Nat
      BY SlotAddresses
    <3> QED
      BY <2>2, <3>1, <3>2
  <2>4. SIZE \in Nat /\ SIZE >= 1 /\ WORD \in Nat /\ MAX \in Nat /\ MAX + SIZE < WORD
    BY Sizes, LogAssumption
  <2>5. left[t] < WORD
    BY <2>4 DEF IInv, TypeOK
  <2> DEFINE n == left[t] - SIZE
             b == at[t] + SIZE
  <2>6. n \in 0 .. WORD - 1 /\ b \in 0 .. WORD - 1
    BY <2>3, <2>4, <2>5
  <2>7. n % WORD = n /\ b % WORD = b
    <3> HIDE DEF n, b
    <3> QED
      BY <2>4, <2>6
  <2>8. left'[t] = n /\ at'[t] = b
    BY <2>1, <2>7
  <2>9. left[t] = SIZE <=> ~ n > 0
    BY <2>3, <2>4
  <2> HIDE DEF b
  <2> QED
    BY <2>1, <2>6, <2>8, <2>9 DEF b
<1> QED
  BY <1>1, Start, Kept, OrderStart, OrderKept, PTL DEF Spec
=============================================================================
