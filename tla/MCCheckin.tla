------------------------------ MODULE MCCheckin ------------------------------
(* Constants for model-checking Checkin: ticks that overlap with a run of   *)
(* the checkin command, and one enrolment that replaces another.            *)
EXTENDS Checkin

CONSTANTS tick, command, v0, v1, plain
=============================================================================
