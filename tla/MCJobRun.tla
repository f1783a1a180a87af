------------------------------ MODULE MCJobRun ------------------------------
(* Constants for model-checking JobRun.                                    *)
EXTENDS JobRun, TLC

(* Two commands where one failing must not stop the other, or must. *)
EveryList == [l \in Lists |-> IF l \in {"before", "always"} THEN 2 ELSE 1]

(* A job without hooks; the alert takes two commands. *)
NotifyOnly == [l \in Lists |-> CASE l = "alert" -> 2
                                 [] l = "recovery" -> 1
                                 [] OTHER -> 0]
=============================================================================
