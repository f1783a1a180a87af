----------------------------- MODULE StateFile -----------------------------
(***************************************************************************)
(* How internal/state keeps the state file: a read-modify-write guarded by *)
(* an in-process mutex and by a lock file that is given up on after five   *)
(* seconds, ending in a rename over the old file; and, beside it, each     *)
(* job's file of snapshot lists, which has no lock of its own and relies   *)
(* on the job lock.  Threads of several processes update both at once,     *)
(* file operations may fail, and processes may be killed anywhere.         *)
(*                                                                         *)
(* Of a run the file keeps here only which execution made it; what the     *)
(* fields of a record mean to later runs is in module JobRun.              *)
(***************************************************************************)
EXTENDS Integers, Sequences, FiniteSets

CONSTANTS
  Processes,
  JobThreads,    \* threads that execute a job
  TickThreads,   \* main threads of ticks
  ProcOf,        \* ProcOf[t]: the process of thread t
  JobOf,         \* JobOf[t]: the job of job thread t
  RepoOf,        \* RepoOf[t]: the repository whose list t gets from restic
  Jobs, Repos,
  MaxRuns,       \* how many of a job's runs are kept
  MayCrash,      \* processes that may be killed
  MayFail,       \* processes whose file operations may fail
  None

Threads == JobThreads \cup TickThreads

ASSUME StateFileAssumption ==
  /\ JobThreads \cap TickThreads = {}
  /\ ProcOf \in [Threads -> Processes]
  /\ JobOf \in [JobThreads -> Jobs]
  /\ RepoOf \in [JobThreads -> Repos]
  /\ MaxRuns \in Nat \ {0}
  /\ None \notin Threads

(* The updates a thread makes, in order: executeWithSlot and               *)
(* executeAndRecord for a job, the tick command before it dispatches.      *)
Program(t) ==
  IF t \in JobThreads THEN <<"clear", "mark", "run", "snapshots">>
                      ELSE <<"tick", "checkin">>

Updates == {u \in Threads \X (1 .. 4) : u[2] <= Len(Program(u[1]))}
KindOf(u) == Program(u[1])[u[2]]

VARIABLES
  file,       \* the state file
  lists,      \* lists[j][r]: whose snapshot list of repository r job j's file has
  jobLock,    \* jobLock[j]: the thread holding job j's lock
  mutex,      \* mutex[p]: the thread holding process p's Store mutex
  stateLock,  \* the thread holding state.lock
  at,         \* at[t]: which of its updates t makes next
  pc,         \* pc[t]: how far that update has got
  copy,       \* copy[t]: the state file as t has loaded and changed it
  listCopy,   \* listCopy[t]: likewise the lists of t's job
  temps,      \* the threads whose temporary file exists
  result      \* result[u]: what update u has returned

vars == <<file, lists, jobLock, mutex, stateLock, at, pc, copy, listCopy, temps, result>>

Stages == {"idle", "waiting", "locked", "loaded", "written", "release",
           "listed", "done", "dead"}

EmptyFile == [tick |-> None, checkin |-> None,
              running |-> [j \in Jobs |-> None], runs |-> [j \in Jobs |-> <<>>]]
EmptyLists == [j \in Jobs |-> [r \in Repos |-> None]]

(* Slip: keeping the oldest runs when there are too many. *)
OldestKept(t, runs) ==
  SubSeq(runs \o <<t>>, 1, IF Len(runs) < MaxRuns THEN Len(runs) + 1 ELSE MaxRuns)

(* Slip: keeping one run too many. *)
OneTooMany(t, runs) ==
  SubSeq(<<t>> \o runs, 1, IF Len(runs) <= MaxRuns THEN Len(runs) + 1 ELSE MaxRuns + 1)

(* The run goes to the front, and the oldest beyond MaxRuns go. *)
AddRun(t, runs) ==
  SubSeq(<<t>> \o runs, 1, IF Len(runs) < MaxRuns THEN Len(runs) + 1 ELSE MaxRuns)

(* What update u makes of the state file: RecordTick, RecordCheckin,       *)
(* ClearRunning, MarkRunning and RecordRun.                                *)
ChangeState(u, st) ==
  LET t == u[1]
      j == JobOf[t]
  IN  CASE KindOf(u) = "tick"    -> [st EXCEPT !.tick = t]
        [] KindOf(u) = "checkin" -> [st EXCEPT !.checkin = t]
        [] KindOf(u) = "clear"   -> [st EXCEPT !.running[j] = None]
        [] KindOf(u) = "mark"    -> [st EXCEPT !.running[j] = t]
        [] KindOf(u) = "run"     -> [st EXCEPT !.running[j] = None,
                                               !.runs[j] = AddRun(t, @)]
        [] KindOf(u) = "snapshots" -> st

Faulty(t) == ProcOf[t] \in MayFail

(* SaveSnapshots replaces one repository's list in the job's file. *)
ChangeLists(u, ls) ==
  LET t == u[1] IN
  IF KindOf(u) = "snapshots" THEN [ls EXCEPT ![JobOf[t]][RepoOf[t]] = t] ELSE ls

(* A file that can't be read is replaced, other repositories' lists and all. *)
ReplaceLists(u, ls) ==
  LET t == u[1] IN
  IF KindOf(u) = "snapshots"
    THEN [ls EXCEPT ![JobOf[t]] = [r \in Repos |-> IF r = RepoOf[t] THEN t ELSE None]]
    ELSE ls

SavedLists(u, ls) ==
  IF Faulty(u[1]) THEN {ChangeLists(u, ls), ReplaceLists(u, ls)} ELSE {ChangeLists(u, ls)}

StoreChanges(u, c) ==
  {[state |-> ChangeState(u, c.state), lists |-> ls] : ls \in SavedLists(u, c.lists)}

Current(t) == <<t, at[t]>>

Owners == Threads \cup {None}
Histories == {runs \in Seq(JobThreads) : Len(runs) <= MaxRuns}
FileContents == [tick : Owners, checkin : Owners,
                 running : [Jobs -> Owners], runs : [Jobs -> Histories]]
ListContents == [Jobs -> [Repos -> Owners]]

TypeOK ==
  /\ file \in FileContents
  /\ lists \in ListContents
  /\ jobLock \in [Jobs -> Owners]
  /\ mutex \in [Processes -> Owners]
  /\ stateLock \in Owners
  /\ at \in [Threads -> 1 .. 4]
  /\ \A t \in Threads : Current(t) \in Updates
  /\ pc \in [Threads -> Stages]
  /\ copy \in [Threads -> FileContents]
  /\ listCopy \in [JobThreads -> ListContents]
  /\ temps \subseteq Threads
  /\ result \in [Updates -> {"pending", "applied", "failed"}]

Init ==
  /\ file = EmptyFile
  /\ lists = EmptyLists
  /\ jobLock = [j \in Jobs |-> None]
  /\ mutex = [p \in Processes |-> None]
  /\ stateLock = None
  /\ at = [t \in Threads |-> 1]
  /\ pc = [t \in Threads |-> "idle"]
  /\ copy = [t \in Threads |-> EmptyFile]
  /\ listCopy = [t \in JobThreads |-> EmptyLists]
  /\ temps = {}
  /\ result = [u \in Updates |-> "pending"]

-----------------------------------------------------------------------------
Goto(t, stage) == pc' = [pc EXCEPT ![t] = stage]
Return(t, r) == result' = [result EXCEPT ![Current(t)] = r]

(* The thread has the lock its update relies on: a job's updates come under *)
(* its job lock, once the process's tick has got past its own updates.      *)
MayUpdate(t) ==
  t \in JobThreads =>
    \/ jobLock[JobOf[t]] = t
    \/ /\ jobLock[JobOf[t]] = None /\ at[t] = 1
       /\ \A m \in TickThreads : ProcOf[m] = ProcOf[t] => pc[m] = "done"

TakeJobLock(t) ==
  jobLock' = IF t \in JobThreads THEN [jobLock EXCEPT ![JobOf[t]] = t] ELSE jobLock

(* update: the mutex first. *)
Enter(t) ==
  /\ pc[t] = "idle" /\ KindOf(Current(t)) # "snapshots"
  /\ MayUpdate(t) /\ TakeJobLock(t)
  /\ mutex[ProcOf[t]] = None
  /\ mutex' = [mutex EXCEPT ![ProcOf[t]] = t]
  /\ Goto(t, "waiting")
  /\ UNCHANGED <<file, lists, stateLock, at, copy, listCopy, temps, result>>

(* Slip: going on without state.lock when it is held. *)
LockHeld(t) ==
  /\ pc[t] = "waiting"
  /\ stateLock' = t
  /\ Goto(t, "locked")
  /\ UNCHANGED <<file, lists, jobLock, mutex, at, copy, listCopy, temps, result>>

Lock(t) ==
  /\ pc[t] = "waiting" /\ stateLock = None
  /\ stateLock' = t
  /\ Goto(t, "locked")
  /\ UNCHANGED <<file, lists, jobLock, mutex, at, copy, listCopy, temps, result>>

(* AcquireState found the lock held for stateLockLimit, or failed outright. *)
NotLocked(t) ==
  /\ pc[t] = "waiting"
  /\ stateLock # None \/ Faulty(t)
  /\ Return(t, "failed")
  /\ Goto(t, "release")
  /\ UNCHANGED <<file, lists, jobLock, mutex, stateLock, at, copy, listCopy, temps>>

(* Load and apply the change; there is nothing to write if it alters       *)
(* nothing, which only ClearRunning ever reports.                          *)
Load(t) ==
  LET new == ChangeState(Current(t), file) IN
  /\ pc[t] = "locked"
  /\ \/ /\ KindOf(Current(t)) = "clear" /\ file.running[JobOf[t]] = None
        /\ Return(t, "applied")
        /\ Goto(t, "release")
        /\ UNCHANGED copy
     \/ /\ ~(KindOf(Current(t)) = "clear" /\ file.running[JobOf[t]] = None)
        /\ copy' = [copy EXCEPT ![t] = new]
        /\ Goto(t, "loaded")
        /\ UNCHANGED result
  /\ UNCHANGED <<file, lists, jobLock, mutex, stateLock, at, listCopy, temps>>

(* writeAtomic: a complete temporary file first. *)
WriteTemp(t) ==
  /\ pc[t] = "loaded"
  /\ temps' = temps \cup {t}
  /\ Goto(t, "written")
  /\ UNCHANGED <<file, lists, jobLock, mutex, stateLock, at, copy, listCopy, result>>

Rename(t) ==
  /\ pc[t] = "written"
  /\ file' = copy[t]
  /\ temps' = temps \ {t}
  /\ Return(t, "applied")
  /\ Goto(t, "release")
  /\ UNCHANGED <<lists, jobLock, mutex, stateLock, at, copy, listCopy>>

(* Slip: the error path of a failed rename leaves the temporary file. *)
FailKeepingTemp(t) ==
  /\ Faulty(t) /\ pc[t] \in {"locked", "loaded", "written"}
  /\ Return(t, "failed")
  /\ Goto(t, "release")
  /\ UNCHANGED <<file, lists, jobLock, mutex, stateLock, at, copy, listCopy, temps>>

(* The file can't be read, or the new one not written or renamed: every    *)
(* error path removes the temporary file.                                  *)
Fail(t) ==
  /\ Faulty(t) /\ pc[t] \in {"locked", "loaded", "written"}
  /\ temps' = temps \ {t}
  /\ Return(t, "failed")
  /\ Goto(t, "release")
  /\ UNCHANGED <<file, lists, jobLock, mutex, stateLock, at, copy, listCopy>>

(* After its last update a thread is done, and a job's lock is given back. *)
Advance(t) ==
  /\ at' = [at EXCEPT ![t] = IF @ < Len(Program(t)) THEN @ + 1 ELSE @]
  /\ Goto(t, IF at[t] < Len(Program(t)) THEN "idle" ELSE "done")
  /\ jobLock' = [j \in Jobs |->
        IF jobLock[j] = t /\ at[t] = Len(Program(t)) THEN None ELSE jobLock[j]]

(* Slip: the mutex is not given back. *)
ReleaseLockOnly(t) ==
  /\ pc[t] = "release"
  /\ stateLock' = IF stateLock = t THEN None ELSE stateLock
  /\ copy' = [copy EXCEPT ![t] = EmptyFile]
  /\ Advance(t)
  /\ UNCHANGED <<file, lists, mutex, listCopy, temps, result>>

(* The deferred unlocks: state.lock, if it was taken, and the mutex. *)
Release(t) ==
  /\ pc[t] = "release"
  /\ stateLock' = IF stateLock = t THEN None ELSE stateLock
  /\ mutex' = [mutex EXCEPT ![ProcOf[t]] = None]
  /\ copy' = [copy EXCEPT ![t] = EmptyFile]
  /\ Advance(t)
  /\ UNCHANGED <<file, lists, listCopy, temps, result>>

(* SaveSnapshots: load the job's lists, ...                                *)
LoadLists(t) ==
  /\ pc[t] = "idle" /\ KindOf(Current(t)) = "snapshots"
  /\ \E ls \in SavedLists(Current(t), lists) : listCopy' = [listCopy EXCEPT ![t] = ls]
  /\ Goto(t, "listed")
  /\ UNCHANGED <<file, lists, jobLock, mutex, stateLock, at, copy, temps, result>>

(* ... and rename the new file over the old.                               *)
SaveLists(t) ==
  /\ pc[t] = "listed"
  /\ lists' = [lists EXCEPT ![JobOf[t]] = listCopy[t][JobOf[t]]]
  /\ Return(t, "applied")
  /\ Advance(t)
  /\ UNCHANGED <<file, mutex, stateLock, copy, listCopy, temps>>

FailLists(t) ==
  /\ Faulty(t) /\ pc[t] = "listed"
  /\ Return(t, "failed")
  /\ Advance(t)
  /\ UNCHANGED <<file, lists, mutex, stateLock, copy, listCopy, temps>>

(* A killed process loses its locks; its temporary file stays.             *)
Crash(p) ==
  /\ p \in MayCrash
  /\ \E t \in Threads : ProcOf[t] = p /\ pc[t] \notin {"done", "dead"}
  /\ pc' = [t \in Threads |-> IF ProcOf[t] = p THEN "dead" ELSE pc[t]]
  /\ jobLock' = [j \in Jobs |->
        IF jobLock[j] # None /\ ProcOf[jobLock[j]] = p THEN None ELSE jobLock[j]]
  /\ stateLock' = IF stateLock # None /\ ProcOf[stateLock] = p THEN None ELSE stateLock
  /\ mutex' = [mutex EXCEPT ![p] = None]
  /\ copy' = [t \in Threads |-> IF ProcOf[t] = p THEN EmptyFile ELSE copy[t]]
  /\ UNCHANGED <<file, lists, at, listCopy, temps, result>>

Step(t) ==
  \/ Enter(t) \/ Lock(t) \/ NotLocked(t) \/ Load(t) \/ WriteTemp(t) \/ Rename(t)
  \/ Fail(t) \/ Release(t)
  \/ t \in JobThreads /\ (LoadLists(t) \/ SaveLists(t) \/ FailLists(t))

Terminated ==
  /\ \A t \in Threads : pc[t] \in {"done", "dead"}
  /\ UNCHANGED vars

Next ==
  \/ \E t \in Threads : Step(t)
  \/ \E p \in Processes : Crash(p)
  \/ Terminated

Spec == Init /\ [][Next]_vars

(* Threads keep being scheduled.  The lock file is polled, so somebody who  *)
(* keeps missing it gives up in the end: Lock or NotLocked, one of the two. *)
Fairness == \A t \in Threads : WF_vars(Step(t))

FairSpec == Spec /\ Fairness
-----------------------------------------------------------------------------
(* Properties.                                                             *)

(* Every update takes effect at one instant on the contents of that        *)
(* instant or not at all: overlapping processes never lose each other's    *)
(* updates, and a kill never leaves half of one (Store, writeAtomic).  The *)
(* exception is a job's snapshot list file that can't be read, which the   *)
(* next list saved replaces (SaveSnapshots).                               *)
Store == INSTANCE StateStore WITH
  Initial <- [state |-> EmptyFile, lists |-> EmptyLists],
  Changes <- StoreChanges,
  contents <- [state |-> file, lists |-> lists]

StoreSpec == Store!Spec

(* A run reported as recorded is at the front of its job's history until   *)
(* its execution gives the job lock back, and stays in it until MaxRuns    *)
(* other runs have been recorded (RecordRun).                              *)
HistoryKept ==
  \A t \in JobThreads :
     LET runs == file.runs[JobOf[t]]
         recorded == {s \in JobThreads : JobOf[s] = JobOf[t] /\ result[<<s, 3>>] = "applied"}
     IN  t \in recorded =>
           /\ jobLock[JobOf[t]] = t => runs # <<>> /\ runs[1] = t
           /\ (\A i \in DOMAIN runs : runs[i] # t) => Cardinality(recorded) > MaxRuns

(* A temporary file only outlives its update if the process was killed. *)
TempsOnlyFromKilled ==
  \A t \in temps : pc[t] \in {"written", "dead"}

(* Every update returns, whatever the others are doing: waiting for the    *)
(* mutex and then the lock file never goes on for ever.                    *)
EveryThreadEnds ==
  \A t \in Threads :
     pc[t] \notin {"idle", "dead", "done"} ~> pc[t] \in {"dead", "done"}

-----------------------------------------------------------------------------
(* The inductive invariant behind the refinement.                          *)

(* Only the holder of state.lock is between loading and renaming, and what *)
(* it loaded is still what the file holds. *)
CopyCurrent(t) ==
  /\ pc[t] \in {"locked", "loaded", "written"} => stateLock = t
  /\ pc[t] \in {"loaded", "written"} => copy[t] = ChangeState(Current(t), file)

(* Only the holder of the job lock is at work on the job's lists. *)
ListsCurrent(t) ==
  /\ pc[t] \notin {"done", "dead"} /\ (at[t] > 1 \/ pc[t] # "idle") => jobLock[JobOf[t]] = t
  /\ pc[t] = "listed" =>
        \E ls \in SavedLists(Current(t), lists) : listCopy[t][JobOf[t]] = ls[JobOf[t]]

(* A thread saves lists when it has come to that update, and only then.    *)
StageFits(t) ==
  /\ pc[t] = "listed" => KindOf(Current(t)) = "snapshots"
  /\ pc[t] \in {"waiting", "locked", "loaded", "written", "release"} =>
        KindOf(Current(t)) # "snapshots"

(* An update that has not returned is still pending. *)
StillPending(t) ==
  \A i \in 1 .. 4 : <<t, i>> \in Updates =>
     \/ i < at[t]
     \/ i = at[t] /\ pc[t] \in {"release", "done", "dead"}
     \/ result[<<t, i>>] = "pending"

FileInv ==
  /\ \A t \in Threads : CopyCurrent(t) /\ StageFits(t) /\ StillPending(t)
  /\ \A t \in JobThreads : ListsCurrent(t)
=============================================================================
