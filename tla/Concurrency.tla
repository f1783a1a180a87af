---------------------------- MODULE Concurrency ----------------------------
(***************************************************************************)
(* What the start of jobs promises, whatever the locks it is made of: the  *)
(* jobs being executed and the commands being passed to restic by all      *)
(* rest-o-matic processes of one state directory, seen as one scheduler.   *)
(* A job begins when nothing else stands in its way, works on one          *)
(* repository after another and ends with its record.  Execution           *)
(* implements it with lock files.                                          *)
(***************************************************************************)
EXTENDS Integers, Sequences, FiniteSets, Schedule

CONSTANTS
  Ticks, Runs, Execs, Jobs, Repos, RepoList, Sched, MaxConcurrent, Instants,
  MayFail         \* processes that may be unable to read or write the state

VARIABLES
  now,            \* the wall clock
  lastRun,        \* lastRun[j]: when j's last recorded run finished
  stopped,        \* processes that were interrupted or killed
  running,        \* the jobs being executed, as <<process, job>>
  passing,        \* the commands being passed on, as <<process, repository>>
  working         \* the restic processes of both, as <<owner, repository>>

vars == <<now, lastRun, stopped, running, passing, working>>

Executions == (Ticks \cup Runs) \X Jobs
Invocations == Execs \X Repos

Repositories(e) == {RepoList[e[2]][i] : i \in DOMAIN RepoList[e[2]]}

InUse(r) ==
  \/ \E f \in running : r \in Repositories(f)
  \/ \E x \in passing : x[2] = r

(* Each process's cap bounds the jobs of all whose cap is no larger. *)
WithinCaps(S) ==
  \A p \in Ticks \cup Runs :
     Cardinality({f \in S : MaxConcurrent[f[1]] <= MaxConcurrent[p]}) <= MaxConcurrent[p]

Init ==
  /\ now = 0
  /\ lastRun = [j \in Jobs |-> Never]
  /\ stopped = {} /\ running = {} /\ passing = {} /\ working = {}

AdvanceClock ==
  /\ \E t \in Instants : t > now /\ now' = t
  /\ UNCHANGED <<lastRun, stopped, running, passing, working>>

Interrupt(p) ==
  /\ stopped' = stopped \cup {p}
  /\ UNCHANGED <<now, lastRun, running, passing, working>>

Kill(p) ==
  /\ stopped' = stopped \cup {p}
  /\ running' = {e \in running : e[1] # p}
  /\ passing' = {x \in passing : x[1] # p}
  /\ working' = {c \in working : c[1][1] # p}
  /\ UNCHANGED <<now, lastRun>>

(* A tick only begins a job with no run in the current period yet. *)
NoRunYet(e) ==
  LET j == e[2] IN
  e[1] \in Ticks /\ e[1] \notin MayFail =>
     lastRun[j] = Never \/ Truncate(lastRun[j], Sched[j]) < Truncate(now, Sched[j])

Begin(e) ==
  /\ e[1] \notin stopped
  /\ NoRunYet(e)
  /\ \A f \in running : f[2] # e[2]
  /\ \A r \in Repositories(e) : ~InUse(r)
  /\ running' = running \cup {e}
  /\ WithinCaps(running')
  /\ UNCHANGED <<now, lastRun, stopped, passing, working>>

Work(e, r) ==
  /\ e \in running /\ e[1] \notin stopped
  /\ r \in Repositories(e)
  /\ \A c \in working : c[1] # e
  /\ working' = working \cup {<<e, r>>}
  /\ UNCHANGED <<now, lastRun, stopped, running, passing>>

Pass(x) ==
  /\ x[1] \notin stopped /\ ~InUse(x[2])
  /\ passing' = passing \cup {x}
  /\ working' = working \cup {<<x, x[2]>>}
  /\ UNCHANGED <<now, lastRun, stopped, running>>

Exit(c) ==
  /\ c \in working
  /\ working' = working \ {c}
  /\ UNCHANGED <<now, lastRun, stopped, running, passing>>

(* The run counts as of when it ended, if it can be recorded. *)
End(e) ==
  /\ e \in running
  /\ \A c \in working : c[1] # e
  /\ running' = running \ {e}
  /\ \/ lastRun' = [lastRun EXCEPT ![e[2]] = now]
     \/ e[1] \in MayFail /\ UNCHANGED lastRun
  /\ UNCHANGED <<now, stopped, passing, working>>

Passed(x) ==
  /\ x \in passing /\ <<x, x[2]>> \notin working
  /\ passing' = passing \ {x}
  /\ UNCHANGED <<now, lastRun, stopped, running, working>>

Next ==
  \/ AdvanceClock
  \/ \E p \in Ticks \cup Runs \cup Execs : Interrupt(p) \/ Kill(p)
  \/ \E e \in Executions : Begin(e) \/ End(e) \/ \E r \in Repos : Work(e, r)
  \/ \E x \in Invocations : Pass(x) \/ Passed(x)
  \/ \E c \in working : Exit(c)

Spec == Init /\ [][Next]_vars
=============================================================================
