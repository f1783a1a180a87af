---------------------------- MODULE MCStateFile ----------------------------
(* Constants for model-checking StateFile: a tick p1 that dispatches two   *)
(* jobs, and a run p2 of the first of them.                                *)
EXTENDS StateFile, TLC

CONSTANTS m1, a1, b1, a2, p1, p2, j1, j2, r1, r2

MCProcOf == m1 :> p1 @@ a1 :> p1 @@ b1 :> p1 @@ a2 :> p2
MCJobOf == a1 :> j1 @@ b1 :> j2 @@ a2 :> j1
(* The two executions of the first job each get the list of one of its     *)
(* two repositories.                                                       *)
MCRepoOf == a1 :> r1 @@ b1 :> r1 @@ a2 :> r2
=============================================================================
