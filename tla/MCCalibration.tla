--------------------------- MODULE MCCalibration ---------------------------
(* A small instance of Calibration: a calibration takes two seconds, an     *)
(* interval is a few of them.                                               *)
EXTENDS Calibration
=============================================================================
