------------------------------- MODULE MCStatus -------------------------------
(* Constants for model-checking Status: two interchangeable processes that  *)
(* run the job, and status and the check-in reporting on it.                *)
EXTENDS Status, TLC

CONSTANTS p1, p2, status, checkin

Interchangeable == Permutations({p1, p2})
=============================================================================
