---------------------------- MODULE MCAlarmHost ----------------------------
(* Small instances of AlarmHost; see MCDetection and MCSiren for the scale  *)
(* of their counters.                                                       *)
EXTENDS AlarmHost
=============================================================================
