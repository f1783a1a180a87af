---------------------------- MODULE MCExecution ----------------------------
(* Constants for model-checking Execution.                                 *)
EXTENDS Execution, TLC

(* Jobs 1 and 2 list the same two repositories in opposite orders, and job *)
(* 2 lists one of them twice.                                              *)
CrossedRepos == 1 :> <<2, 1>> @@ 2 :> <<1, 2, 1>>

(* Job 1 needs repository 1, job 2 too, job 3 only repository 2.           *)
QueueRepos == 1 :> <<1>> @@ 2 :> <<1>> @@ 3 :> <<2>>

(* Only the cap keeps these jobs apart. *)
OwnRepos == [j \in Jobs |-> <<j>>]

OneRepo == 1 :> <<1>> @@ 2 :> <<1>>

Hourly == [j \in Jobs |-> "hourly"]

CapOne == [p \in JobProcs |-> 1]
CapTwo == [p \in JobProcs |-> 2]
(* Ticks loaded a cap of 1, runs one of 2. *)
CapsDiffer == [p \in JobProcs |-> IF p \in Ticks THEN 1 ELSE 2]

TickSymmetry == Permutations(Ticks)
=============================================================================
