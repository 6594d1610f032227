--------------------------- MODULE SirenContract ---------------------------
(***************************************************************************)
(* What the sirens promise, with no counter and no interrupt: one begins   *)
(* to sound only for an alarm of its zone, and stops only once there is    *)
(* none or as somebody begins to silence it.  In the middle or at the end  *)
(* of a silence no siren stops.                                            *)
(***************************************************************************)
CONSTANTS
  Zone,
  Silencer   (* who may silence                                              *)

VARIABLES
  alarmed,   (* zones with an alarm that rings                               *)
  ringing,   (* zones whose siren sounds                                     *)
  silences   (* silences under way: who, and which zone                      *)

Init == alarmed \subseteq Zone /\ ringing = {} /\ silences = {}

\* The clock: zones that begin to sound, zones whose period is over.
Clock(on, off) ==
  /\ on \subseteq alarmed
  /\ off \cap alarmed = {}
  /\ ringing' = (ringing \cup on) \ off
  /\ UNCHANGED <<alarmed, silences>>

Silence(s, z) ==
  /\ \A y \in Zone : <<s, y>> \notin silences
  /\ silences' = silences \cup {<<s, z>>}
  /\ ringing' = ringing \ {z}
  /\ UNCHANGED alarmed

Silenced(s, z) ==
  /\ <<s, z>> \in silences
  /\ silences' = silences \ {<<s, z>>}
  /\ UNCHANGED <<alarmed, ringing>>

Alarms(zones) == alarmed' = zones /\ UNCHANGED <<ringing, silences>>

Next ==
  \/ \E on, off \in SUBSET Zone : Clock(on, off)
  \/ \E s \in Silencer : \E z \in Zone : Silence(s, z) \/ Silenced(s, z)
  \/ \E zones \in SUBSET Zone : Alarms(zones)

Spec == Init /\ [][Next]_<<alarmed, ringing, silences>>
=============================================================================
