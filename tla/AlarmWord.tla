----------------------------- MODULE AlarmWord -----------------------------
(***************************************************************************)
(* The 16-bit alarm words ALARM_STATE and ALARM_STATE_DELAY of alarm.c and *)
(* the operations every other component performs on them.  A word is the   *)
(* set of its bits that are 1.  A bit is a pair: <<zone, kind>> for the    *)
(* fence alarms of a zone, <<"AB", name>> for the alarms both zones share  *)
(* (the tamper contact and the two external switches).                     *)
(***************************************************************************)
EXTENDS Naturals

CONSTANTS
  Zone,      (* protected zones, "A" and "B" in the firmware               *)
  Kind,      (* fence alarms: intrusion "IVD", open wire "OPN", slack "RLX" *)
  Switch     (* external switch inputs, "SW1" and "SW2"                    *)

ASSUME WordAssumption ==
  /\ "AB" \notin Zone
  /\ "FCH" \notin Switch
  /\ Kind \subseteq {"IVD", "OPN", "RLX"}

FCH == <<"AB", "FCH">>
SwBit(s) == <<"AB", s>>

ZoneBits(z) == {z} \X Kind
SwitchBits == {"AB"} \X Switch
Bits == (Zone \X Kind) \cup {FCH} \cup SwitchBits

(***************************************************************************)
(* The two bits of config_code that the alarm path reads, as the set of    *)
(* those that are 1: bit 2 turns the latched ("delayed") word off, bit 3   *)
(* keeps the slack alarms from ringing the siren.                          *)
(***************************************************************************)
NO_DELAY == 2
NO_RLX_RING == 3
ConfigCode == SUBSET {NO_DELAY, NO_RLX_RING}

\* The siren masks 0x13/0x113 (zone A) and 0x1C/0x21C (zone B) of TIM5.
RingMask(config, z) ==
  {FCH} \cup {<<z, k>> : k \in IF NO_RLX_RING \in config THEN Kind \ {"RLX"} ELSE Kind}

\* Mutants of Latch: the bit assigned instead of or-ed, bit 2 read inverted.
Latch_Assigned(config, delayed, on) == IF NO_DELAY \in config THEN delayed ELSE on
Latch_Inverted(config, delayed, on) ==
  IF NO_DELAY \in config THEN delayed \cup on ELSE delayed

\* Set_Alarm_State_Util_Clear, for a set of bits: what becomes of the latch.
Latch(config, delayed, on) ==
  IF NO_DELAY \in config THEN delayed ELSE delayed \cup on
=============================================================================
