------------------------------ MODULE Execution ------------------------------
(***************************************************************************)
(* How executions of jobs get started.  Every rest-o-matic command is a    *)
(* one-shot process: a `tick` works out what is due and runs those jobs in *)
(* goroutines, a `run` runs one job, an `exec` passes one command through  *)
(* to restic.  They share nothing but lock files and the state file in one *)
(* state directory.  This module models the lock protocol of               *)
(* executeWithSlot, the worker pool of dispatch, interrupts, killed        *)
(* processes (whose restic children live on) and the parts of the state    *)
(* file that decide whether a job runs: its last run and running marker.   *)
(*                                                                         *)
(* A lock file is a variable holding its owner; the kernel drops a dead    *)
(* process's locks.  Taking a lock is one step: a waiting process polls,   *)
(* so it either finds the file free and takes it, or tries again.  What a  *)
(* running job does between its restic commands is in module JobRun.       *)
(***************************************************************************)
EXTENDS Integers, Sequences, FiniteSets, Schedule

CONSTANTS
  Ticks, Runs, Execs,  \* the processes, by command
  Jobs,                \* job names, each as its place in sorted order
  Repos,               \* repository names, likewise
  RepoList,            \* RepoList[j]: the repositories of job j as configured
  Sched,               \* Sched[j]: the schedule of job j
  MaxConcurrent,       \* MaxConcurrent[p]: the cap in the config p loaded
  Instants,            \* the instants the clock may show
  MayInterrupt,        \* processes that may receive SIGINT or SIGTERM
  MayCrash,            \* processes that may be killed
  MayFail,             \* processes whose own file operations may fail
  None                 \* no owner

JobProcs == Ticks \cup Runs
Procs == JobProcs \cup Execs

(* An execution is one attempt of a process at one job. *)
Executions == JobProcs \X Jobs
ProcOf(o) == o[1]
JobOf(e) == e[2]

Faulty(e) == ProcOf(e) \in MayFail

(* An exec invocation owns locks as <<process, repository>>. *)
Invocations == Execs \X Repos
Owners == Executions \cup Invocations

SlotFiles == UNION {0 .. MaxConcurrent[p] - 1 : p \in JobProcs}

ASSUME ConstantsAssumption ==
  /\ Jobs \subseteq Nat /\ Repos \subseteq Nat /\ IsFiniteSet(Repos)
  /\ Ticks \cap Runs = {} /\ Ticks \cap Execs = {} /\ Runs \cap Execs = {}
  /\ RepoList \in [Jobs -> Seq(Repos)]
  /\ Sched \in [Jobs -> Schedules]
  /\ MaxConcurrent \in [JobProcs -> Nat \ {0}]
  /\ Instants \subseteq Nat /\ 0 \in Instants
  /\ None \notin Owners

VARIABLES
  now,        \* the wall clock
  proc,       \* proc[p]: where process p is
  stamp,      \* stamp[p]: when tick p read the clock
  due,        \* due[p]: due jobs tick p has not dispatched yet
  cancelled,  \* cancelled[p]: whether p's work context is cancelled
  pc,         \* pc[e]: where execution e is in executeWithSlot
  jobLock,    \* jobLock[j]: owner of job-<j>.lock
  repoLock,   \* repoLock[r]: owner of repo-<r>.lock
  slotLock,   \* slotLock[s]: owner of slot-<s>.lock
  attempted,  \* attempted[e]: how many of its repositories e has attempted
  restic,     \* the live restic processes, as <<owner, repository>>
  marker,     \* marker[j]: the execution named by j's running marker
  progress,   \* progress[j]: the execution that wrote j's progress record
  lastRun     \* lastRun[j]: when j's last recorded run finished

procVars == <<proc, stamp, due, cancelled>>
lockVars == <<jobLock, repoLock, slotLock>>
fileVars == <<marker, progress, lastRun>>
vars == <<now, procVars, pc, lockVars, attempted, restic, fileVars>>

(* repositoryNames: the job's repositories without duplicates. *)
RepositoryNames(j) == {RepoList[j][i] : i \in DOMAIN RepoList[j]}

ProcStates == {"idle", "listing", "dispatching", "passing", "done", "dead"}

(* "acquire" is about to take the job lock, "clear" and "check" hold it,   *)
(* "repos" and "slot" take the rest, "ready" has everything, "running" is  *)
(* in RunJob, "recorded" has written its run record and "unlock" is giving *)
(* its locks back.                                                         *)
Stages == {"idle", "acquire", "clear", "check", "repos", "slot", "ready",
           "running", "recorded", "unlock", "done", "dead"}

TypeOK ==
  /\ now \in Instants
  /\ proc \in [Procs -> ProcStates]
  /\ stamp \in [Ticks -> Instants]
  /\ due \in [Ticks -> SUBSET Jobs]
  /\ cancelled \in [JobProcs -> BOOLEAN]
  /\ pc \in [Executions -> Stages]
  /\ jobLock \in [Jobs -> Executions \cup {None}]
  /\ repoLock \in [Repos -> Owners \cup {None}]
  /\ slotLock \in [SlotFiles -> Executions \cup {None}]
  /\ attempted \in [Executions -> Nat]
  /\ restic \subseteq Owners \X Repos
  /\ marker \in [Jobs -> Executions \cup {None}]
  /\ progress \in [Jobs -> Executions \cup {None}]
  /\ lastRun \in [Jobs -> Instants \cup {Never}]

Init ==
  /\ now = 0
  /\ proc = [p \in Procs |-> "idle"]
  /\ stamp = [p \in Ticks |-> 0]
  /\ due = [p \in Ticks |-> {}]
  /\ cancelled = [p \in JobProcs |-> FALSE]
  /\ pc = [e \in Executions |-> "idle"]
  /\ jobLock = [j \in Jobs |-> None]
  /\ repoLock = [r \in Repos |-> None]
  /\ slotLock = [s \in SlotFiles |-> None]
  /\ attempted = [e \in Executions |-> 0]
  /\ restic = {}
  /\ marker = [j \in Jobs |-> None]
  /\ progress = [j \in Jobs |-> None]
  /\ lastRun = [j \in Jobs |-> Never]

-----------------------------------------------------------------------------
(* The environment: the clock, signals, and processes being killed.        *)

AdvanceClock ==
  /\ \E t \in Instants : t > now /\ now' = t
  /\ UNCHANGED <<procVars, pc, lockVars, attempted, restic, fileVars>>

(* The first SIGINT or SIGTERM cancels work.  The handler is installed     *)
(* before the first job starts; until then a signal kills the process.     *)
Interrupt(p) ==
  /\ p \in MayInterrupt /\ proc[p] = "dispatching" /\ ~cancelled[p]
  /\ cancelled' = [cancelled EXCEPT ![p] = TRUE]
  /\ UNCHANGED <<now, proc, stamp, due, pc, lockVars, attempted, restic, fileVars>>

OwnedBy(o, p) == o # None /\ ProcOf(o) = p

(* The process is killed.  Its locks go with it; files and the restic      *)
(* processes it started stay.                                              *)
Crash(p) ==
  /\ p \in MayCrash /\ proc[p] \in {"listing", "dispatching", "passing"}
  /\ proc' = [proc EXCEPT ![p] = "dead"]
  /\ pc' = [e \in Executions |->
              IF ProcOf(e) = p /\ pc[e] \notin {"idle", "done"} THEN "dead" ELSE pc[e]]
  /\ jobLock' = [j \in Jobs |-> IF OwnedBy(jobLock[j], p) THEN None ELSE jobLock[j]]
  /\ repoLock' = [r \in Repos |-> IF OwnedBy(repoLock[r], p) THEN None ELSE repoLock[r]]
  /\ slotLock' = [s \in SlotFiles |-> IF OwnedBy(slotLock[s], p) THEN None ELSE slotLock[s]]
  /\ UNCHANGED <<now, stamp, due, cancelled, attempted, restic, fileVars>>

-----------------------------------------------------------------------------
(* Processes: tick, run and exec.                                          *)

(* A tick reads the clock once, before it checks in and loads the state.   *)
StartTick(p) ==
  /\ proc[p] = "idle"
  /\ proc' = [proc EXCEPT ![p] = "listing"]
  /\ stamp' = [stamp EXCEPT ![p] = now]
  /\ UNCHANGED <<now, due, cancelled, pc, lockVars, attempted, restic, fileVars>>

ListDue(p) ==
  /\ proc[p] = "listing"
  /\ proc' = [proc EXCEPT ![p] = "dispatching"]
  /\ due' = [due EXCEPT ![p] = {j \in Jobs : Due(Sched[j], lastRun[j], stamp[p])}]
  /\ UNCHANGED <<now, stamp, cancelled, pc, lockVars, attempted, restic, fileVars>>

(* The executions of p that hold its in-process semaphore. *)
Dispatched(p) == {e \in Executions : ProcOf(e) = p /\ pc[e] \notin {"idle", "done"}}

(* Slip: giving up on the rest of the due list after the first job. *)
DispatchOne(p, j) ==
  /\ proc[p] = "dispatching" /\ ~cancelled[p]
  /\ j \in due[p] /\ \A k \in due[p] : j <= k
  /\ Cardinality(Dispatched(p)) < MaxConcurrent[p]
  /\ due' = [due EXCEPT ![p] = {}]
  /\ pc' = [pc EXCEPT ![<<p, j>>] = "acquire"]
  /\ UNCHANGED <<now, proc, stamp, cancelled, lockVars, attempted, restic, fileVars>>

(* dispatch starts the due jobs in sorted order, each in a goroutine that  *)
(* keeps a place in the pool until it has returned, waiting included.      *)
Dispatch(p, j) ==
  /\ proc[p] = "dispatching" /\ ~cancelled[p]
  /\ j \in due[p] /\ \A k \in due[p] : j <= k
  /\ Cardinality(Dispatched(p)) < MaxConcurrent[p]
  /\ due' = [due EXCEPT ![p] = @ \ {j}]
  /\ pc' = [pc EXCEPT ![<<p, j>>] = "acquire"]
  /\ UNCHANGED <<now, proc, stamp, cancelled, lockVars, attempted, restic, fileVars>>

(* Once work is cancelled no further job starts. *)
StopDispatch(p) ==
  /\ proc[p] = "dispatching" /\ cancelled[p] /\ due[p] # {}
  /\ due' = [due EXCEPT ![p] = {}]
  /\ UNCHANGED <<now, proc, stamp, cancelled, pc, lockVars, attempted, restic, fileVars>>

StartRun(p, j) ==
  /\ proc[p] = "idle"
  /\ proc' = [proc EXCEPT ![p] = "dispatching"]
  /\ pc' = [pc EXCEPT ![<<p, j>>] = "acquire"]
  /\ UNCHANGED <<now, stamp, due, cancelled, lockVars, attempted, restic, fileVars>>

(* A tick returns once every goroutine has (wg.Wait), a run with its job. *)
Finish(p) ==
  /\ proc[p] = "dispatching"
  /\ p \in Ticks => due[p] = {}
  /\ Dispatched(p) = {}
  /\ proc' = [proc EXCEPT ![p] = "done"]
  /\ UNCHANGED <<now, stamp, due, cancelled, pc, lockVars, attempted, restic, fileVars>>

(* exec with a subcommand that needs the repository lock, without --force: *)
(* it takes the lock if it is free and refuses at once otherwise.          *)
StartExec(p, r) ==
  /\ proc[p] = "idle"
  /\ \/ /\ repoLock[r] = None
        /\ repoLock' = [repoLock EXCEPT ![r] = <<p, r>>]
        /\ restic' = restic \cup {<<<<p, r>>, r>>}
        /\ proc' = [proc EXCEPT ![p] = "passing"]
     \/ /\ repoLock[r] # None
        /\ proc' = [proc EXCEPT ![p] = "done"]
        /\ UNCHANGED <<repoLock, restic>>
  /\ UNCHANGED <<now, stamp, due, cancelled, pc, jobLock, slotLock, attempted, fileVars>>

FinishExec(p, r) ==
  /\ proc[p] = "passing" /\ repoLock[r] = <<p, r>>
  /\ <<<<p, r>>, r>> \notin restic
  /\ repoLock' = [repoLock EXCEPT ![r] = None]
  /\ proc' = [proc EXCEPT ![p] = "done"]
  /\ UNCHANGED <<now, stamp, due, cancelled, pc, jobLock, slotLock, attempted, restic, fileVars>>

-----------------------------------------------------------------------------
(* One execution, step by step through executeWithSlot.                    *)

Goto(e, stage) == pc' = [pc EXCEPT ![e] = stage]

(* Slip: a shared lock where an exclusive one is meant. *)
AcquireJobShared(e) ==
  /\ pc[e] = "acquire"
  /\ jobLock' = [jobLock EXCEPT ![JobOf(e)] = e]
  /\ Goto(e, "clear")
  /\ UNCHANGED <<now, procVars, repoLock, slotLock, attempted, restic, fileVars>>

AcquireJob(e) ==
  /\ pc[e] = "acquire" /\ jobLock[JobOf(e)] = None
  /\ jobLock' = [jobLock EXCEPT ![JobOf(e)] = e]
  /\ Goto(e, "clear")
  /\ UNCHANGED <<now, procVars, repoLock, slotLock, attempted, restic, fileVars>>

(* jobAlreadyRunning: the lock was still held after a short retry. *)
AlreadyRunning(e) ==
  /\ pc[e] = "acquire" /\ jobLock[JobOf(e)] # None
  /\ Goto(e, "done")
  /\ UNCHANGED <<now, procVars, lockVars, attempted, restic, fileVars>>

(* Slip: only the marker is cleared. *)
ClearMarkerOnly(e) ==
  /\ pc[e] = "clear"
  /\ marker' = [marker EXCEPT ![JobOf(e)] = None]
  /\ Goto(e, "check")
  /\ UNCHANGED <<now, procVars, lockVars, attempted, restic, progress, lastRun>>

(* Whatever an earlier, killed execution left behind is removed.  Either   *)
(* write may fail, which is only warned about.                             *)
ClearLeftovers(e) ==
  LET j == JobOf(e) IN
  /\ pc[e] = "clear"
  /\ \/ marker' = [marker EXCEPT ![j] = None]
     \/ Faulty(e) /\ UNCHANGED marker
  /\ \/ progress' = [progress EXCEPT ![j] = None]
     \/ Faulty(e) /\ UNCHANGED progress
  /\ Goto(e, "check")
  /\ UNCHANGED <<now, procVars, lockVars, attempted, restic, lastRun>>

(* Slip: asking again as of the tick's own start. *)
StillDueAtStart(e) ==
  ProcOf(e) \in Ticks => Due(Sched[JobOf(e)], lastRun[JobOf(e)], stamp[ProcOf(e)])

(* stillDue: run has none, and a state that can't be read leaves the due   *)
(* list's answer standing.                                                 *)
StillDue(e) ==
  ProcOf(e) \in Ticks =>
     Faulty(e) \/ Due(Sched[JobOf(e)], lastRun[JobOf(e)], now)

ConfirmDue(e) ==
  /\ pc[e] = "check" /\ StillDue(e)
  /\ Goto(e, "repos")
  /\ UNCHANGED <<now, procVars, lockVars, attempted, restic, fileVars>>

(* jobNotDue: somebody else ran it since this tick listed what was due. *)
NotDue(e) ==
  /\ pc[e] = "check" /\ ProcOf(e) \in Ticks
  /\ ~Due(Sched[JobOf(e)], lastRun[JobOf(e)], now)
  /\ Goto(e, "unlock")
  /\ UNCHANGED <<now, procVars, lockVars, attempted, restic, fileVars>>

(* The repositories e still has to lock; it takes them in sorted order. *)
Missing(e) == {r \in RepositoryNames(JobOf(e)) : repoLock[r] # e}

(* Slip: locking the repositories in the order the job lists them. *)
IsNextAsListed(e, r) ==
  LET list == RepoList[JobOf(e)] IN
  \E i \in DOMAIN list :
     list[i] = r /\ r \in Missing(e) /\ \A k \in 1 .. i - 1 : list[k] \notin Missing(e)

IsNextRepo(e, r) == r \in Missing(e) /\ \A s \in Missing(e) : r <= s

(* Slip: going ahead although the lock is held. *)
TakeRepositoryHeld(e, r) ==
  /\ pc[e] = "repos" /\ IsNextRepo(e, r)
  /\ repoLock' = [repoLock EXCEPT ![r] = e]
  /\ UNCHANGED <<now, procVars, pc, jobLock, slotLock, attempted, restic, fileVars>>

WaitRepository(e, r) ==
  /\ pc[e] = "repos" /\ IsNextRepo(e, r) /\ repoLock[r] = None
  /\ repoLock' = [repoLock EXCEPT ![r] = e]
  /\ UNCHANGED <<now, procVars, pc, jobLock, slotLock, attempted, restic, fileVars>>

AllRepositories(e) ==
  /\ pc[e] = "repos" /\ Missing(e) = {}
  /\ Goto(e, "slot")
  /\ UNCHANGED <<now, procVars, lockVars, attempted, restic, fileVars>>

(* Slip: going ahead without a slot of one's own. *)
TakeSlotHeld(e, s) ==
  /\ pc[e] = "slot" /\ s < MaxConcurrent[ProcOf(e)]
  /\ slotLock' = [slotLock EXCEPT ![s] = e]
  /\ Goto(e, "ready")
  /\ UNCHANGED <<now, procVars, jobLock, repoLock, attempted, restic, fileVars>>

(* AcquireSlot takes one of the slots its config allows.  It tries them in  *)
(* order, but a lower one may have come free behind its back.              *)
WaitSlot(e, s) ==
  /\ pc[e] = "slot" /\ s < MaxConcurrent[ProcOf(e)] /\ slotLock[s] = None
  /\ slotLock' = [slotLock EXCEPT ![s] = e]
  /\ Goto(e, "ready")
  /\ UNCHANGED <<now, procVars, jobLock, repoLock, attempted, restic, fileVars>>

(* A waiter notices the interrupt between two tries at its lock, which may *)
(* have come free since the last; one that got its last lock is stopped by *)
(* the check before RunJob.                                                *)
Abandon(e) ==
  /\ cancelled[ProcOf(e)]
  /\ \/ pc[e] = "repos" /\ Missing(e) # {}
     \/ pc[e] \in {"slot", "ready"}
  /\ Goto(e, "unlock")
  /\ UNCHANGED <<now, procVars, lockVars, attempted, restic, fileVars>>

(* Slip: a lock that could not be taken is passed over. *)
LockErrorIgnored(e) ==
  /\ Faulty(e) /\ pc[e] = "repos"
  /\ Goto(e, "slot")
  /\ UNCHANGED <<now, procVars, lockVars, attempted, restic, fileVars>>

(* setupFailed: a lock file could not be opened or locked at all.  The     *)
(* job is reported as failed, but nothing is recorded.                     *)
LockError(e) ==
  /\ Faulty(e) /\ pc[e] \in {"acquire", "repos", "slot"}
  /\ Goto(e, "unlock")
  /\ UNCHANGED <<now, procVars, lockVars, attempted, restic, fileVars>>

(* Slip: no look at the interrupt between the last lock and RunJob. *)
BeginAnyway(e) ==
  /\ pc[e] = "ready"
  /\ marker' = [marker EXCEPT ![JobOf(e)] = e]
  /\ Goto(e, "running")
  /\ UNCHANGED <<now, procVars, lockVars, attempted, restic, progress, lastRun>>

(* executeAndRecord: mark the job as running, then RunJob. *)
Begin(e) ==
  /\ pc[e] = "ready" /\ ~cancelled[ProcOf(e)]
  /\ \/ marker' = [marker EXCEPT ![JobOf(e)] = e]
     \/ Faulty(e) /\ UNCHANGED marker
  /\ Goto(e, "running")
  /\ UNCHANGED <<now, procVars, lockVars, attempted, restic, progress, lastRun>>

(* runRepo, for the next of the job's repositories as configured.  The     *)
(* recorder saves the new phase before restic starts.                      *)
StartRestic(e) ==
  LET r == RepoList[JobOf(e)][attempted[e] + 1] IN
  /\ pc[e] = "running" /\ ~cancelled[ProcOf(e)]
  /\ attempted[e] < Len(RepoList[JobOf(e)])
  /\ \A c \in restic : c[1] # e
  /\ restic' = restic \cup {<<e, r>>}
  /\ attempted' = [attempted EXCEPT ![e] = @ + 1]
  /\ \/ progress' = [progress EXCEPT ![JobOf(e)] = e]
     \/ Faulty(e) /\ UNCHANGED progress
  /\ UNCHANGED <<now, procVars, pc, lockVars, marker, lastRun>>

(* A restic process ends, whether or not its parent is still there. *)
ResticExit(o, r) ==
  /\ <<o, r>> \in restic
  /\ restic' = restic \ {<<o, r>>}
  /\ UNCHANGED <<now, procVars, pc, lockVars, attempted, fileVars>>

(* Slip: recording when the job is next due in place of when it ran. *)
RecordNextDue(e) ==
  LET j == JobOf(e) IN
  /\ pc[e] = "running"
  /\ \A c \in restic : c[1] # e
  /\ lastRun' = [lastRun EXCEPT ![j] = NextDue(Sched[j], now)]
  /\ marker' = [marker EXCEPT ![j] = None]
  /\ Goto(e, "recorded")
  /\ UNCHANGED <<now, procVars, lockVars, attempted, restic, progress>>

(* RecordRun, once every repository was attempted, work was cancelled, or  *)
(* a before hook failed.  The run counts as of when it finished.           *)
RecordRun(e) ==
  LET j == JobOf(e) IN
  /\ pc[e] = "running"
  /\ \A c \in restic : c[1] # e
  /\ \/ attempted[e] \in {0, Len(RepoList[j])}
     \/ cancelled[ProcOf(e)]
  /\ \/ /\ lastRun' = [lastRun EXCEPT ![j] = now]
        /\ marker' = [marker EXCEPT ![j] = None]
     \/ Faulty(e) /\ UNCHANGED <<lastRun, marker>>
  /\ Goto(e, "recorded")
  /\ UNCHANGED <<now, procVars, lockVars, attempted, restic, progress>>

RemoveProgress(e) ==
  /\ pc[e] = "recorded"
  /\ \/ progress' = [progress EXCEPT ![JobOf(e)] = None]
     \/ Faulty(e) /\ UNCHANGED progress
  /\ Goto(e, "unlock")
  /\ UNCHANGED <<now, procVars, lockVars, attempted, restic, marker, lastRun>>

(* The deferred unlocks run last to first: slot, repositories, job.        *)
UnlockSlot(e, s) ==
  /\ pc[e] = "unlock" /\ slotLock[s] = e
  /\ slotLock' = [slotLock EXCEPT ![s] = None]
  /\ UNCHANGED <<now, procVars, pc, jobLock, repoLock, attempted, restic, fileVars>>

UnlockRepository(e, r) ==
  /\ pc[e] = "unlock" /\ \A s \in SlotFiles : slotLock[s] # e
  /\ repoLock[r] = e /\ \A q \in Repos : repoLock[q] = e => q <= r
  /\ repoLock' = [repoLock EXCEPT ![r] = None]
  /\ UNCHANGED <<now, procVars, pc, jobLock, slotLock, attempted, restic, fileVars>>

(* Slip: returning without unlocking the repositories. *)
ReturnHoldingOn(e) ==
  /\ pc[e] = "unlock"
  /\ \A s \in SlotFiles : slotLock[s] # e
  /\ jobLock' = [jobLock EXCEPT ![JobOf(e)] = IF @ = e THEN None ELSE @]
  /\ Goto(e, "done")
  /\ UNCHANGED <<now, procVars, repoLock, slotLock, attempted, restic, fileVars>>

Return(e) ==
  LET j == JobOf(e) IN
  /\ pc[e] = "unlock"
  /\ \A s \in SlotFiles : slotLock[s] # e
  /\ \A r \in Repos : repoLock[r] # e
  /\ jobLock' = [jobLock EXCEPT ![j] = IF @ = e THEN None ELSE @]
  /\ Goto(e, "done")
  /\ UNCHANGED <<now, procVars, repoLock, slotLock, attempted, restic, fileVars>>

-----------------------------------------------------------------------------
(* What execution e does on its own account. *)
Step(e) ==
  \/ AcquireJob(e) \/ AlreadyRunning(e) \/ ClearLeftovers(e)
  \/ ConfirmDue(e) \/ NotDue(e)
  \/ \E r \in Repos : WaitRepository(e, r)
  \/ AllRepositories(e)
  \/ \E s \in SlotFiles : WaitSlot(e, s)
  \/ Abandon(e) \/ Begin(e) \/ StartRestic(e) \/ RecordRun(e) \/ RemoveProgress(e)
  \/ \E s \in SlotFiles : UnlockSlot(e, s)
  \/ \E r \in Repos : UnlockRepository(e, r)
  \/ Return(e)

(* What a started process does besides its executions. *)
Proceed(p) ==
  \/ p \in Ticks /\ ListDue(p)
  \/ p \in Ticks /\ \E j \in Jobs : Dispatch(p, j)
  \/ p \in Ticks /\ StopDispatch(p)
  \/ p \in JobProcs /\ Finish(p)
  \/ p \in Execs /\ \E r \in Repos : FinishExec(p, r)

Start(p) ==
  \/ p \in Ticks /\ StartTick(p)
  \/ p \in Runs /\ \E j \in Jobs : StartRun(p, j)
  \/ p \in Execs /\ \E r \in Repos : StartExec(p, r)

(* Every process has come and gone: the only way for the system to stop. *)
Terminated ==
  /\ \A p \in Procs : proc[p] \in {"done", "dead"}
  /\ restic = {}
  /\ UNCHANGED vars

Next ==
  \/ AdvanceClock
  \/ \E p \in Procs : Start(p) \/ Proceed(p) \/ Crash(p)
  \/ \E p \in JobProcs : Interrupt(p)
  \/ \E e \in Executions : Step(e) \/ LockError(e)
  \/ \E o \in Owners, r \in Repos : ResticExit(o, r)
  \/ Terminated

Spec == Init /\ [][Next]_vars

(* A started process keeps being scheduled and restic ends sooner or later. *)
(* Nothing makes a process start, a signal arrive or the clock move.        *)
Fairness ==
  /\ \A p \in Procs : WF_vars(Proceed(p))
  /\ \A e \in Executions : WF_vars(Step(e))
  /\ \A o \in Owners, r \in Repos : WF_vars(ResticExit(o, r))

FairSpec == Spec /\ Fairness
-----------------------------------------------------------------------------
(* Properties.                                                             *)

Alive(o) == proc[ProcOf(o)] # "dead"

(* Beyond the job lock, up to the last write of the state file.            *)
Queued(e) == pc[e] \in {"clear", "check", "repos", "slot", "ready"}
Running(e) == pc[e] \in {"running", "recorded"}

(* No two restic processes of live parents work on one repository at once, *)
(* be they two jobs' backups or a backup and an exec (lock.AcquireRepository). *)
RepositoryExclusive ==
  \A c, d \in restic : c[2] = d[2] /\ Alive(c[1]) /\ Alive(d[1]) => c = d

(* The same without sparing restic processes whose parent was killed: what *)
(* the comment on lock.AcquireRepository promises of "any restic operation". *)
RepositoryExclusiveEver ==
  \A c, d \in restic : c[2] = d[2] => c = d

(* A job is never executed twice at once, waiting included (lock.AcquireJob). *)
JobNotTwice ==
  \A e, f \in Executions :
     /\ Queued(e) \/ Running(e)
     /\ Queued(f) \/ Running(f)
     /\ JobOf(e) = JobOf(f)
     => e = f

(* At most max_concurrent jobs run at once across all processes.  Where    *)
(* processes loaded different caps, each cap bounds the jobs of the        *)
(* processes whose cap is no larger (lock.AcquireSlot).                    *)
ConcurrencyCap ==
  \A p \in JobProcs :
     Cardinality({e \in Executions :
        Running(e) /\ MaxConcurrent[ProcOf(e)] <= MaxConcurrent[p]}) <= MaxConcurrent[p]

(* Nothing of a job runs unless every lock it needs is held, and they stay *)
(* held until its run is recorded (executeWithSlot).                       *)
RunsWithEverything ==
  \A e \in Executions : Running(e) =>
     /\ jobLock[JobOf(e)] = e
     /\ Missing(e) = {}
     /\ \E s \in SlotFiles : s < MaxConcurrent[ProcOf(e)] /\ slotLock[s] = e

(* Seen through their locks, the processes are the scheduler of module      *)
(* Concurrency: a job begins only when nobody executes it, nothing uses a  *)
(* repository of its, the caps leave room and its process was not stopped, *)
(* a tick's only if the period has no run yet, and it ends with its record. *)
Halted == {p \in Procs : proc[p] = "dead" \/ (p \in JobProcs /\ cancelled[p])}
Executing == {e \in Executions : pc[e] = "running"}
Passing == {x \in Invocations : repoLock[x[2]] = x}
Working == {c \in restic : Alive(c[1])}

Scheduler == INSTANCE Concurrency WITH
  stopped <- Halted, running <- Executing, passing <- Passing, working <- Working

SchedulerSpec == Scheduler!Spec

(* What e is waiting for is held by somebody else. *)
Blocked(e) ==
  \/ pc[e] = "repos" /\ \E r \in Missing(e) : IsNextRepo(e, r) /\ repoLock[r] # None
  \/ pc[e] = "slot" /\ \A s \in 0 .. MaxConcurrent[ProcOf(e)] - 1 : slotLock[s] # None

(* Who holds it: the next repository has one owner, and to be waiting for   *)
(* a slot is to be waiting for whichever of the slots comes free first.    *)
WaitsFor(e) ==
  {o \in Owners :
     \/ pc[e] = "repos" /\ \E r \in Missing(e) : IsNextRepo(e, r) /\ repoLock[r] = o
     \/ pc[e] = "slot" /\ \E s \in 0 .. MaxConcurrent[ProcOf(e)] - 1 : slotLock[s] = o}

(* Executions never wait for nobody but each other, in whatever order their *)
(* jobs list the repositories and however few slots there are: among any   *)
(* that are blocked, one is waiting for somebody outside (repositoryNames  *)
(* sorts the names, and the slot is taken last).                           *)
NoDeadlock ==
  \A S \in SUBSET {e \in Executions : Blocked(e)} :
     S # {} => \E e \in S : WaitsFor(e) \ S # {}

(* What the state file says of a job agrees with who holds its lock: a     *)
(* queued job has neither marker nor progress record, a running job's are  *)
(* its own, and only a process that was killed or could not write leaves   *)
(* any behind (ClearRunning, RemoveProgress).                              *)
LeftoversOnlyFromKilled ==
  \A e \in Executions : ~Faulty(e) =>
     /\ marker[JobOf(e)] = e => pc[e] \in {"running", "dead"}
     /\ progress[JobOf(e)] = e => pc[e] \in {"running", "recorded", "dead"}
     /\ Queued(e) /\ pc[e] # "clear" =>
          marker[JobOf(e)] = None /\ progress[JobOf(e)] = None
     /\ Running(e) =>
          marker[JobOf(e)] \in {e, None} /\ progress[JobOf(e)] \in {e, None}

(* A tick never runs a job whose current period already has a run: each    *)
(* run a tick records is in a later period than the one recorded before,   *)
(* however long it waited since it listed what was due (stillDue).  It     *)
(* needs the tick to be able to read the state.                            *)
OncePerPeriod ==
  [][\A e \in Executions :
       LET j == JobOf(e) IN
       /\ ProcOf(e) \in Ticks /\ ~Faulty(e)
       /\ pc[e] = "running" /\ pc'[e] = "recorded"
       /\ lastRun[j] # Never
       => Truncate(lastRun[j], Sched[j]) < Truncate(lastRun'[j], Sched[j])]_vars

(* A job whose process is interrupted while it is still queued leaves no    *)
(* trace: even with its last lock just taken, it never begins and so never *)
(* runs a hook or records a run, names it running, saves progress or       *)
(* starts restic (concurrency-control spec, FIFO queuing).                 *)
TraceFree(e) ==
  /\ marker[JobOf(e)] # e /\ progress[JobOf(e)] # e
  /\ \A c \in restic : c[1] # e

InterruptedNeverBegins ==
  \A e \in Executions :
     ProcOf(e) \in MayInterrupt =>
        [](cancelled[ProcOf(e)] /\ Queued(e) => [](~Running(e) /\ TraceFree(e)))

(* Waiting ends: every process that starts exits, unless it is killed.     *)
EveryProcessEnds ==
  \A p \in Procs : proc[p] # "idle" ~> proc[p] \in {"done", "dead"}

(* A job a tick found due has been run for that tick's period or a later   *)
(* one in the end, by whichever process, if nothing is killed, interrupted *)
(* or fails to record.  The one exception: another execution, recorded     *)
(* just before the boundary, had not given the job lock back yet, so the   *)
(* tick took the job for already running and leaves it to the next tick.   *)
DueJobsRun ==
  \A p \in Ticks, j \in Jobs :
     j \in due[p] ~>
       \/ /\ lastRun[j] # Never
          /\ Truncate(lastRun[j], Sched[j]) >= Truncate(stamp[p], Sched[j])
       \/ \E q \in JobProcs \ {p} : pc[<<q, j>>] \in {"recorded", "unlock"}

(* A due job whose repositories and a slot are all free is not kept from   *)
(* starting by jobs of its own tick that are themselves only waiting for   *)
(* a repository: a queued job starts as soon as it is no longer blocked by *)
(* the per-repository rule or the cap (concurrency-control spec).          *)
NoHeadOfLineBlocking ==
  \A p \in Ticks, j \in Jobs :
     /\ proc[p] = "dispatching" /\ ~cancelled[p] /\ j \in due[p]
     /\ jobLock[j] = None
     /\ \A r \in RepositoryNames(j) : repoLock[r] = None
     /\ \E s \in 0 .. MaxConcurrent[p] - 1 : slotLock[s] = None
     /\ Cardinality(Dispatched(p)) = MaxConcurrent[p]
     => \E e \in Dispatched(p) : ~(pc[e] = "repos" /\ Blocked(e))

-----------------------------------------------------------------------------
(* The inductive invariant behind the safety properties above: which locks *)
(* an execution holds at each stage.                                       *)

JobLocked(e) == Queued(e) \/ Running(e) => jobLock[JobOf(e)] = e

(* Having gone through the repositories, it holds all of them. *)
RepositoriesLocked(e) ==
  pc[e] \in {"slot", "ready", "running", "recorded"} =>
     \A r \in RepositoryNames(JobOf(e)) : repoLock[r] = e

(* While going through them, it holds all below any it holds. *)
LockedInOrder(e) ==
  \A r \in Repos : repoLock[r] = e =>
     /\ pc[e] \in {"repos", "slot", "ready", "running", "recorded", "unlock"}
     /\ pc[e] = "repos" =>
          \A s \in RepositoryNames(JobOf(e)) : s < r => repoLock[s] = e

SlotLocked(e) ==
  pc[e] \in {"ready", "running", "recorded"} =>
     \E s \in SlotFiles : s < MaxConcurrent[ProcOf(e)] /\ slotLock[s] = e

(* The slot comes last: who holds one waits for nothing any more. *)
SlotLast(e) ==
  \A s \in SlotFiles : slotLock[s] = e =>
     pc[e] \in {"ready", "running", "recorded", "unlock"}

(* Only a dispatching process has executions under way. *)
UnderWay(e) == pc[e] \notin {"idle", "done", "dead"} => proc[ProcOf(e)] = "dispatching"

(* What is still due has not been started. *)
DueNotStarted(p) == \A j \in due[p] : pc[<<p, j>>] \in {"idle", "done", "dead"}

(* A restic process whose parent lives is covered by its parent's lock. *)
ResticLocked(c) ==
  Alive(c[1]) => /\ repoLock[c[2]] = c[1]
                 /\ c[1] \in Executions => pc[c[1]] = "running"

ExecutionInv(e) ==
  /\ JobLocked(e)
  /\ RepositoriesLocked(e)
  /\ LockedInOrder(e)
  /\ SlotLocked(e)
  /\ SlotLast(e)
  /\ UnderWay(e)

LockInv ==
  /\ \A e \in Executions : ExecutionInv(e)
  /\ \A p \in Ticks : DueNotStarted(p)
  /\ \A c \in restic : ResticLocked(c)

(* The inductive invariant behind InterruptedNeverBegins: an execution that *)
(* has not begun has left no trace, and each is started once.               *)
Unbegun == {"idle", "acquire", "clear", "check", "repos", "slot", "ready"}

TraceInv ==
  /\ \A e \in Executions :
        /\ pc[e] \in Unbegun => TraceFree(e)
        /\ proc[ProcOf(e)] \in {"idle", "listing"} => pc[e] = "idle"
  /\ \A p \in Ticks : \A j \in due[p] : pc[<<p, j>>] = "idle"
=============================================================================
