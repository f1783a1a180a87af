# A TLA+ verification of rest-o-matic

rest-o-matic runs restic backups from a config file. It has no daemon: cron or
a systemd timer starts `rest-o-matic tick` over and over, people start `run`,
`exec` and `status` by hand, and all these short-lived processes meet only in
the state directory: a set of `flock` files, a JSON state file, one snapshot
list and one progress file per job. Around them are files nobody locks: the
config, the host key, the enrolment. What can go wrong is therefore what two
such processes do to each other, what a killed one leaves behind, what a
process goes by that another (or the user) has changed, and what a long series
of executions of one job makes of its record. That is what this project
models.

Paths are relative to `src/`; `cmd` stands for `cmd/rest-o-matic`.

## Inventory

| Component | Source | State | Operations | Modelled in |
|---|---|---|---|---|
| Job start | `cmd/exec.go`, `internal/lock` | `job-*.lock`, `repo-*.lock`, `slot-*.lock` | `executeWithSlot`: take the job lock, clear leftovers, ask again whether the job is due, wait for every repository in order, wait for a slot, run, record, unlock | `Execution` |
| tick and run | `cmd/tick.go`, `run.go`, `signals.go` | due list, worker pool, two contexts | list due jobs, `dispatch`, wait for all, interrupts | `Execution`, `Concurrency` |
| Schedule | `internal/schedule` | none | `Truncate`, `Next`, `Due` | `Schedule` |
| State store | `internal/state` | state file, `state.lock`, mutex, snapshot lists, progress | `update` (tick, check-in, marker, run record), `SaveSnapshots`, `SaveProgress` | `StateStore`, `StateFile` |
| Job execution | `internal/execution/job.go`, `hook*.go` | result so far, grace timer | hooks, backups, `forget`, notifications, run record | `JobRun` |
| restic runner | `internal/execution/restic*.go` | child process | backup, forget, stop on interrupt | `JobRun`, `Execution` (as outcomes) |
| exec | `internal/execution/exec.go` | repository lock | gate, read-mode check, lock or refuse, pass through | `Sharing`, `Execution` (the lock) |
| Status | `cmd/status.go` | none | load state, probe job lock, read progress and lists | `Status` |
| Check-in, enrolment | `cmd/checkin.go`, `enrol.go`, `internal/central` | enrolment file, check-in record | build, send, record; enrol, unenrol | `Checkin`, `Reporting` |
| Secrets, relock | `internal/secrets`, `cmd/secret.go`, `enrol.go` | host key, recovery recipients, config file | create key, lock, re-lock every value | `Relock` |
| Config | `internal/config` | none | parse, validate, resolve retention | `Sharing` (retention, who shares a repository) |
| Ownership check, output, Windows variants, installers | `internal/statedir`, `internal/color`, ... | none | | not modelled |

How they interact: `tick` records itself (`RecordTick`), checks in, loads the
state, lists what is due and dispatches each job in a goroutine into
`executeWithSlot`; `run` calls `executeWithSlot` for one job. That takes the
locks, asks the state file again, and calls `executeAndRecord`, which marks
the job as running, calls `RunJob` and records the run. `exec` takes one
repository lock without waiting, after checks that look at the config and at
the repository without it. `status` and the check-in read the state, probe the
job locks with locks of their own, and read the other files, one after
another. Every one of these may be killed anywhere, and the user may edit the
config under all of them.

The properties that make each component correct:

* **Job start**: a job is not executed twice at once nor twice for one period;
  two restic processes never share a repository; the cap holds across
  processes; nothing of a job runs before it has everything; waiting cannot
  deadlock and ends; an interrupted job that is still queued does not begin.
* **State store**: every update is atomic and none is lost to another
  process, thread, failure or kill; the history keeps the newest runs.
* **Job execution**: a success has backed up everywhere; hooks, notifications
  and record agree on the outcome; an interrupted run ends; a failing job is
  dated from its first failure, alerts are spaced, undelivered ones retried,
  recoveries announced.
* **Status**: what is shown of one job, read at four moments, was true of one;
  probing turns no execution away.
* **Check-in**: nothing the app has not received counts as acknowledged; an
  start or end of an outage that is recorded is told once; the app ends up with
  the host's state.
* **Relock**: all values or none; whoever could open a value still can.
* **A shared repository**: no job loses its latest snapshot to another's
  retention; nothing is restored in another read mode than it was taken in.

What is hard to test in all this is listed with its line under `hazards` in
`PROJECT.json`, together with the properties that cover it.

## Modules

| Module | What it is |
|---|---|
| `Schedule` | The calendar arithmetic, as operators on whole minutes |
| `Execution` | Processes, jobs and lock files; uses `Schedule` to decide what is due |
| `Concurrency` | What `Execution` promises: all processes together are one scheduler |
| `StateStore` | What the store promises: atomic updates |
| `StateFile` | How it keeps that promise: mutex, lock file, temporary file, rename |
| `JobRun` | The executions of one job, one after another, and the job's record |
| `Status` | Reports on one job while it is executed |
| `Reporting` | What check-ins promise: a channel that may lose, repeat and reorder, but mixes nothing up |
| `Checkin` | Check-ins with the central app, and the enrolment they go by |
| `Relock` | Locked values, and the keys that open them |
| `Sharing` | One repository: its jobs' backups and retention, and exec |
| `MCExecution`, `MCStateFile`, `MCJobRun`, `MCStatus`, `MCCheckin`, `MCRelock`, `MCSharing` | Values for the constants, for TLC |
| `ScheduleProofs`, `ExecutionProofs`, `StateFileProofs`, `JobRunProofs`, `StatusProofs`, `CheckinProofs`, `RelockProofs`, `SharingProofs` | Theorems, for every value of the constants |

`Status` and `Sharing` do not INSTANCE `Execution`. Each takes from it what its
theorems show, and keeps only what its own question needs: `Status` that one
execution at a time holds the job lock, with the tries for it that `Execution`
abstracts; `Sharing` the repository lock.

Definitions marked "Slip:" in a comment are not part of a specification: each
is a copy of the definition below it with a plausible programming mistake,
used to confirm that a property notices the mistake (`mutants` in
`PROJECT.json`).

### Execution and the source

An *execution* is a pair of a process and a job: one call of
`executeWithSlot`. `pc[e]` says where it is: `acquire` (line 54 of
`cmd/exec.go`), `clear` (65), `check` (68), `repos` (72), `slot` (82), `ready`
(89), `running` (`executeAndRecord`), `recorded` (its deferred
`RemoveProgress`), `unlock` (the deferred unlocks, last to first). A lock file
is a variable holding its owner. `flock` waits are polled
(`lock.go:62`), so taking a lock is one step that is possible when the file is
free, and losing a race is simply somebody else's step. `AlreadyRunning` is
`AcquireJob` giving up; `LockError` is a lock file that cannot be opened, for
the processes in `MayFail`, whose state writes may fail as well.

A tick goes `listing` (it has read the clock, `tick.go:44`), `dispatching`,
`done`. `Dispatched(p)` are the goroutines holding a place in its worker pool,
which they keep while they wait (`tick.go:160`, `169`). `stamp` is the tick's
own time; `StillDue` uses the clock of the moment, as `tick.go:179` does. A
crash drops the process's locks and leaves its marker, progress record and
restic children. An `exec` is modelled on its locked path only.

`Concurrency` states what all this is for, with no lock in it: jobs being
executed, commands being passed on, their restic processes, the last runs, and
who was stopped. A job begins (`Begin`) only if nobody executes it, nothing uses
a repository of its, every cap leaves room, its process was not stopped and, for
a tick, the period has no run yet (`NoRunYet`); it works on one repository after
another and ends with its record. `Execution` maps to it by `Executing`,
`Passing`, `Working` and `Halted`; taking locks, listing, dispatching and
clearing leftovers are stutters. `SchedulerSpec` is that specification under
the mapping. restic processes of killed parents are outside the promise (see
`ExecutionOrphan`), so `Working` leaves them out.

Of the state file this module has what start decisions and leftovers depend
on: last run, running marker, progress record. A read or write is one step
here; that it may be treated so is what `StateFile` shows.

### StateFile and the source

Each thread makes a fixed list of updates (`Program`): a tick's main thread
`RecordTick` and `RecordCheckin`, a job's thread `ClearRunning`,
`MarkRunning`, `RecordRun` and one `SaveSnapshots`. `Enter`, `Lock` or
`NotLocked`, `Load`, `WriteTemp`, `Rename` or `Fail`, `Release` are the lines
of `Store.update` and `writeAtomic`; several threads of a process share the
mutex and all processes share `state.lock`. A run record is abstracted to the
thread that made it. A thread's `SaveSnapshots` is for one repository
(`RepoOf`); the two executions of one job save different repositories' lists,
which is the case where a lost update would show. A job thread whose job turns
out not to be due would stop after `clear`; that is a prefix of what is
modelled and is left out. A file that cannot be read fails an update of the
state file (nothing is written) but is *replaced* by `SaveSnapshots`
(`snapshots.go:86`): that exception is in the abstract specification too,
through `Changes`.

`StateStore` says that each update is `pending` until it is `applied`, in one
step and to the contents of that moment, or has `failed` with no effect.
`StoreSpec` is that specification with `contents` mapped to the two files.

### JobRun and the source

`stage` follows `RunJob`: `before`, `repos` (with `forget` inside), `always`,
`success` or `failure`, `notify` and its command lists (`alert`, `recovery`,
`report` for the config's `failure`, `recovery`, `success`), `record`.
`MoreCommands` is the only difference between `runHooksStopOnError` and
`runHooksAll`. `Cancelled` is the context of the stage: `work` (first signal)
up to the backups, then `afterCtx`, which the second signal or the grace
period ends. Under a cancelled context a command is refused without being
started, and a running one ends in failure (Go's `Cmd.Wait` returns the
context's error even for exit status 0). `Success` is asked wherever the code
asks it, each time of the result as it is then. `record` is the job's entry in
the state file, `run.prior` the copy `executeAndRecord` read. The initial
record may be a failure written by a version that did not keep `FailingSince`.

`past` is a history variable: what an observer knows of each execution. Only
properties and the bound on executions read it.

### Status and the source

One job. An execution that gets the job lock is a *turn*, numbered in that
order, which is the order of the start times in the files; markers, records,
progress and lists are told apart by their turn. `pc[p]` follows
`executeWithSlot` and `executeAndRecord` (`trying`: `AcquireJob`'s loop;
`clear`, `tidy`: `ClearRunning` and `RemoveProgress` of leftovers; `queued`: all
other locks; `running`; `recorded`; `listed`; `unlock`). A reader goes `Load`
(state file), `Probe` (`JobHeld` takes a shared lock, or finds an exclusive
one), `Release`, `ReadProgress`, `ReadLists`. `TryInVain` counts how often
`AcquireJob` found the lock held, by a turn or by probes only; it may try
`Tries` times in its quarter of a second. How many probes there are is not
limited, but a probe in the way of one try has ended before the next (`MayTry`):
it takes a lock and gives it back at once, and the next try is 10 milliseconds
later. `met` counts the probes that fall into an attempt, up to `Tries`.
`holder`, `atLoad`, `atProbe` and the history sets are what an observer knows.
Repositories, due times and the printed and JSON forms, computed from the same
values, are left out.

What the model shows about the code, and the properties state: between
`RecordRun` and `Unlock` a job is shown as "waiting" although its run is on
record; a killed run's marker that was loaded before the next holder cleared
it is shown as running, with the next holder's lock for evidence; the progress
of a later turn can be shown under the start of an earlier one; and probes,
one after another, each caught by another of its tries, can make an execution
give up though nobody executes the job.

### Checkin and the source

`Start` is `checkIn` up to `CheckinFor(state)`; `Build` is `buildCheckin` with
the snapshot lists and the config's text read at that moment; then the request
is `posted`, the app answers (`Answer`, `Refuse`) or the host gives up
(`GiveUp`). `Record` is `RecordCheckin`, `RecordFails` one that cannot be read
or written; a process for which that was news (`ToTell`: it failed and the
check-in on record before had not, or the reverse) is then `recorded`, and
prints it in a step of its own, `Tell`, or is killed before (`KillUntold`). A
request given up on may still arrive (`AnswerLate`). A part's content stands for
its fingerprint. `CheckinFor` is the code's rule that a record of another host
ID counts for nothing; it is asked again when the outcome is written. `Enrol`
gives the host a new ID while check-ins of the old one are in flight. The app is
external: it is modelled by what `contract/checkin/v1` says, including that of a
part received twice it keeps the later `sent_at` and that it asks for a part it
does not have.

`Reporting` is the promise without the processes: parts are read for an ID
(`Read`), may be lost (`Lose`), arrive while the app knows that ID (`Arrive`),
and what has arrived under an ID is noted for it (`Note`), where a new ID starts
from nothing (`NotedFor`). `OnTheWay` maps to it the status of check-ins that
have started, and the requests posted or left behind; `ReportingSpec` is the
specification under that mapping. When the host says what of an outage, what is
sent again, and what the app keeps of two reports are left to `Checkin`.

Left out: the facts about the host and the cached restic version that go along
(`checkin.go:318`-`381`), `--print`, the values of the time limits. Saving an
enrolment is one step with the reply: nothing uses a host ID before it is saved.
`told` and `spoiled` are what an observer of the host knows: how many more
starts than ends of outages have been told, and of which hosts a record, or a
process that had recorded and not told yet, was lost; of those nothing is
counted any more (`Spoil`).

What the model shows about the code, and the property states: a process killed
between recording and printing (`checkin.go:151` or `187`, and `208`) says
nothing of an outage, and every later tick is silent about it because it is on
record; and overlapping check-ins may print in another order than they recorded,
so that the last line need not be how things stand.

### Relock and the source

A command's process goes through `start` (`LoadHostKey`), `make`, `fill`,
`again` (`Generate`, then loading what it made), `request`, `list`, `offer`
(enrol's recovery keys and its offer to relock), `recovery` (`LoadRecipients`),
`config`, `write`, `rename` (`relockConfig` with `replaceFile`); `mem[p]` is
what it has read so far. A locked value is what it stands for and the keys that
open it. `Relocked` is the loop over the values; `Relockable` its error paths,
each of which leaves the file alone. The user edits config, key file and
recipients, at most `MaxEdits` times; each edit starts from what the file
holds when it is saved. `Quit` stands for any failing read, write or request,
for a question answered no and for an interrupt.

Left out: the text of the config outside of locked values (told apart by its
version), symbolic links, anchors and merges, malformed values (a value that no
key opens), the key file's permissions (a load that fails), and how the
executing jobs open values. A value used in several places is one value.

### Sharing and the source

A repository, its snapshots with their tags, and everybody who changes them.
A job goes `Load` (its process reads the config), `Begin` (it gets the
repository lock), and per reference `Backup`, then `Forget` with
`EffectiveRetention`; `RepoFails` includes the backup that fails and yet left a
snapshot, and the forget that removed only a part. An exec is given (`Give`:
`gateBlocked`, `LatestAllowed`, whether `--job` names a job of the repository),
looks at the one snapshot it names (`Look`: `SnapshotTags`), takes the lock or
is refused (`TakeLock`), and restic does its work (`PassForget`, `PassTag`,
`PassOther`). Each process goes by the config it loaded; `EditConfig` changes
the file under it. restic is external: `KeptIn` is its retention as the code
relies on it (of each group of paths, the newest snapshot of each of the latest
n periods).

Left out: a backup by hand, `rewrite --forget` and `repair snapshots --forget`,
which change or replace snapshots as well, the new ID `restic tag` gives a snapshot, negative
counts, clocks set back between snapshots. That no job's own tag looks like a
read mode's is an assumption; the code does not check it.

## Runs

| Run | Instance | What it shows |
|---|---|---|
| `ExecutionOverlap` | two ticks and a run, two jobs listing the same two repositories in opposite orders and one of them twice, caps 1 and 2, an hour boundary (496,347 states) | `JobNotTwice`, `OncePerPeriod`, `NoDeadlock`, types |
| `ExecutionKilled` | a tick that may be interrupted and killed, a run with failing file operations, an exec that may be killed (1,002,066) | refinement `SchedulerSpec`, `RepositoryExclusive`, `LeftoversOnlyFromKilled`, `InterruptedNeverBegins` |
| `ExecutionLive` | two ticks, two jobs, cap 1, an hour boundary, fair (24,643) | `EveryProcessEnds`, `DueJobsRun`, `ConcurrencyCap` |
| `StateFile` | a tick with two job threads that may be killed anywhere, a run whose file operations may fail, `MaxRuns` 1, fair (164,872) | refinement `StoreSpec`, `HistoryKept`, `TempsOnlyFromKilled`, `EveryThreadEnds` |
| `JobStops` | two executions, two repositories, commands in every list (two in `before` and `always`), two signals at any moment, fair (22,001) | `SuccessMeansBackedUp`, `OneOutcome`, `InterruptEnds` |
| `JobAlerts` | three executions that may fail, be killed, lose the record or not read it; three instants, interval 2, two alert commands (2,691,747) | `FailingSinceStart`, `AlertsApart`, `NoSilentFailure`, `RecoveryAnswersAlert` |
| `Status` | two processes executing the job, a status and a check-in, two turns, two tries, one fault (7,667,277) | `ShownWasRunning`, `ShownWhileRunning`, `ProgressNotOlder`, `SettledLists`, `NotTurnedAwayByReports` |
| `Checkin` | a tick and a command, each again and again, two enrolments, one part, one change, one fault, fair (1,975,183) | refinement `ReportingSpec`, `OutageToldOnce`, `EventuallyReported` |
| `Relock` | two commands, two values, two host keys and a recovery key, two edits (897,902) | `WholeConfig`, `StaysOpen` |
| `Sharing` | two jobs, four configs, one edit, three snapshots, two of fourteen exec commands (3,141,056) | `LatestKept`, `RestoredAsTaken` |
| `ExecutionQueue` | *violation* | head-of-line blocking, see Findings |
| `ExecutionOrphan` | *violation* | orphaned restic, see Findings |

Why the bounds are enough. Every lock is taken by one execution at a time and
none depends on how many others wait, so a conflict needs two owners, and a
deadlock between two waiters needs two repositories; a third process lets one
win while another is between listing and locking. One hour boundary is all
that two successive due-ness checks can tell apart. A lost update needs two
processes, and two threads of one of them for the mutex. `MaxRuns` is 20 in
the code and 1 in the run, so that the history overflows with two runs. For
alerts, three executions allow alert, failure within the interval, and the
failure or success after; a boundary value is met because the interval is the
distance of the first and last instant. `MaxExecutions` and `Instants` are the
only bounds in guards of those runs.

For `Status` two turns make one that left something behind and one that meets
it, and two tries as many as there are probes in the run, so that an execution
is turned away by probes alone (the case `NotTurnedAwayByReports` names) and by
nothing less. `Checkin` has one part only, the config, because it is the part
with every rule (read late, withheld, asked for again); the parts meet in
nothing but the request that carries them, and the theorems are about any number
of them. One fault and one change suffice for each way of losing a message; two
enrolments for one that replaces another. A process killed with only its line
left to print (`KillUntold`) is not counted as a fault, so that one fault makes
the outage and its line may be lost as well; that, and lines printed in the
other order, happen in the run. Caps that differ only matter to the cap with a
third job or process, which a run with liveness cannot afford: in
`ExecutionLive` every cap is 1, and different caps rest on `CapHolds` and
`ImplementsScheduler`. In `Relock` a conflict needs two commands, and a value
that is treated apart from another two values; two edits take a key away and
bring one back. In `Sharing` the configs are chosen so that b shares nothing,
shares with a retention from three levels on a repository it lists twice, takes
a's name for a tag, or keeps without a count; the commands so that each branch
of the gate and of the read-mode check is taken. Every exception in `StaysOpen`,
`LatestKept` and `RestoredAsTaken` is reached in its run: without it the
property fails. Bounds in guards: `MaxTurns`, `MaxReports`, `MaxFaults`;
`MaxHosts`, `MaxClock`, `MaxChanges`, `MaxFaults`; `MaxEdits`; `MaxSnapshots`,
`MaxEdits`. Symmetry is over interchangeable processes, values and keys, in runs
without liveness only. The theorems below are for every value of these bounds.

### Fairness

`Execution`: a started process and its goroutines are scheduled
(`WF(Proceed(p))`, `WF(Step(e))`) and restic ends (`WF(ResticExit)`), an
assumption about restic the code makes as well: it has no timeout for it.
Nothing makes processes start, signals arrive or the clock move.
Weak fairness suffices although `flock` is polled, because with finitely many
executions a lock cannot be taken away from a waiter infinitely often.

`StateFile`: `WF(Step(t))`. Somebody who keeps finding `state.lock` held gives
up after five seconds, so `Lock` or `NotLocked` is always possible to a waiter.

`JobRun`: `WF(Proceed)` for the program itself and `WF(EndGrace)` for its
timer. A command or restic is *not* assumed to end, except once its context is
cancelled (`WF(Cancelled /\ End)`): then it gets SIGTERM or SIGINT and is
killed after `hookWaitDelay` or `resticWaitDelay`. `InterruptEnds` therefore
holds for hooks that hang for ever.

`Checkin`: cron keeps starting ticks (`WF(Start(c))` for ticks only), and a
check-in that has started goes on (`WF(Proceed(c))`): the app answers, for a
time limit ends the wait otherwise and that is one of the bounded faults.
Nobody makes commands start, faults happen or late requests arrive.

`Status`, `Relock` and `Sharing` state no liveness: what they wait for is
waited for in `Execution`, and `AcquireJob`'s bounded tries are a safety
property here.

`EveryProcessEnds` and `DueJobsRun` are checked without interrupts, kills or
failing writes, which would defeat `DueJobsRun` legitimately. `DueJobsRun` has
one exception, stated in its formula: if the previous execution has recorded
its run just before the boundary and not yet unlocked, the tick reports
"already running" and leaves the job to the next tick.

## Theorems

All proofs are checked by tlapm, for every value of the constants that the
named assumptions allow (`ConstantsAssumption`, `StateFileAssumption`,
`JobRunAssumption`, `StatusAssumption`, `CheckinAssumption`,
`RelockAssumption`, `SharingAssumption`): any number of processes, jobs and repositories, any caps,
any schedule, any set of processes that crash or fail. `ConstantsAssumption`
asks for finitely many repositories, which a config file has;
`CheckinAssumption` and `StatusAssumption` for finitely many processes, which
are counted.

* **`ExecutionProofs`.** `LockInv` is the inductive invariant, the one
  strengthening the safety properties need: at each stage an execution holds
  the job lock, the repositories it has passed in order, and from `ready` on a
  slot below its own cap, which it takes last (`SlotLast`; all of it
  `ExecutionInv`); what is still due has not been
  started (`DueNotStarted`, so that dispatching a job starts a fresh
  execution); and a restic process whose parent lives is covered by the
  parent's lock (`ResticLocked`). `LockStep` proves it in two halves: a step of
  `e` is *local* (`StepLocal`: it takes only free locks, frees only its own),
  so the others' parts survive (`OthersKept`), and it keeps its own part
  (`StepKeepsLocks`). From it follow `RepositoryExclusion`, `JobExclusion`,
  `LocksBeforeWork` directly; `CapHolds` by an injection
  from running executions to slots below the cap. `DeadlockFree` says that no
  set of blocked executions waits for nobody but each other. Along waiting
  executions the awaited repository increases (`WaitsUpward`), and of finitely
  many repositories one is the last (`Largest`, by well-founded induction on
  the set, applied to a set given as a constant); whoever holds a slot has every
  repository and waits for nobody, which is what `SlotLast` is for.
  `ImplementsScheduler` is the refinement of `Concurrency`: each step of a
  process maps to one action of the scheduler or to a stutter (`BeginSeen`,
  `WorkSeen`, `EndSeen`, `StepSeen`, `ProcessSeen`, `EnvironmentSeen`). Its
  `Begin` needs all three invariants at once: the locks for exclusion and the
  caps, counted after the step as well (`SlotsBound`), and `PeriodInv` for the
  period. `TickRunsOncePerPeriod`
  needs a second invariant, `PeriodInv`: no run is recorded in the future,
  and once `StillDue` has been confirmed under the job lock the last run stays
  in an earlier period, because nobody else can record one. It uses the
  calendar facts of `ScheduleProofs` and a clock that does not go back.
  `InterruptKeepsQueuedJobs` rests on `TraceInv`: an execution that has not
  begun has left no marker, no progress and no restic process. `LeftoversFromKilled`
  follows each marker and progress record to the execution that answers for it
  (`LeftoversOf`): its own steps keep it, and the others' steps cannot touch it.
* **`ScheduleProofs`.** `PeriodAround`, `TruncateMonotone`, `DueFromNextDue`:
  all three schedules are rounding to multiples of a length, weeks included.
* **`StateFileProofs`.** `FileInv`: a thread between load and rename holds
  `state.lock` and its copy is the change applied to what the file holds *now*;
  the lists likewise under the job lock; an update that has not returned is
  still pending. `Refinement` follows: a rename is `Apply`, a failure is
  `Reject`, everything else stutters. `RunsKept` has an invariant of its own,
  `HistoryInv`: a job's history has recorded runs only, each once, and all of
  them until it is full, so a full one that lacks a run has `MaxRuns` others
  (`FiniteSetTheorems` does the counting); and the run whose execution has the
  job lock is in front. `TempsFromKilled` needs only that each stage that has
  a temporary file removes it when it is left alive.
* **`JobRunProofs`.** `JobInv`: one result per repository the loop has passed,
  the outcome settled once the `always` hooks are done, and a date for every
  failing job. `SuccessBacksUp` and `OutcomeAgrees` follow. The four
  notification properties quantify over the whole history, so they are proved
  together (`RecordTells`) from what the program carries of it: the run in
  progress started from the record and its times are in order (`RunBegun`); what
  it has announced fits its outcome and the alert before it (`Announced`); and
  the record agrees with the history (`PastInv`): it says failed exactly when
  the last recorded run was (`LastRecorded`), and an alert that every run since
  knew of is either on record or was `NotifyInterval` ago when the last of
  them ended (`AlertRemembered`), which is what makes a failed alert safe to
  repeat. Only the end of an execution adds to the history (`Ends`), and each
  property has its lemma for that step.
* **`StatusProofs`.** `Inv`: the lock is the latest turn's (`LockInv`); the
  marker is of a turn in progress or one that left it, and later than the run
  on record, progress and lists are as recent as the stage implies (`FileInv`);
  and each report so far is `Sound`, which relates what it has read to the
  files as they are *now*, since the later reads build on it. The five
  properties but the last follow. `ProbesAreHarmless` has `CountInv`:
  while no turn has been in the way of an attempt, the probes counted in it are
  at least its vain tries and those under way that no try has met yet. A
  try in vain meets one of these, and `MayTry` makes each probe meet only one
  try. No bound on the number of reports is needed.
* **`CheckinProofs`.** `TypeInv`; `ReceivedInv`: what a check-in that has been
  answered included has been received. `ImplementsReporting` is the refinement,
  one lemma for each kind of step (`StartSeen`, `BuildSeen`, `AnswerSeen`,
  `RecordSeen`, `EndSeen`, `EnvironmentSeen`); it needs `IssuedInv`, that every
  check-in under way goes by an ID that was given out, and the lemma that a
  check-in changes what is on the way by its own parts only (`WayOfOne`).
  The run has one part, the config; the theorem is about any, the status
  included, which is read earlier than the others. `OutageInv`: what has
  been told of each host and what is still owed (`Owed`) add up to what
  `CheckinFor` says of it. Recording changes record and debt together
  (`RecordOutage`), telling pays, and no other step
  touches either
  (`OutageKept`, `OthersOutage`); a process that dies in debt
  makes its host an exception.
* **`RelockProofs`.** `HistoryInv`: the config, and the copy of every command
  about to write, is whole with respect to the user's edit whose version it
  bears. `StaysOpen` is proved action by action from it.
* **`SharingProofs`.** `Inv`: the job at work holds the lock; numbers are
  unique; a job's latest snapshot is as taken, and the newest of all when the
  job forgets (`LastInv`); a read mode's tag tells the truth (`ModeInv`); and
  what each command's checks have established still holds (`ExecInv`). The
  lemma `Effects` sorts all steps by what they do to the repository, and
  `NewestIsKept` shows that no retention removes the newest of a group.

Only model-checked: the liveness properties `EveryProcessEnds`, `DueJobsRun`,
`EveryThreadEnds`, `InterruptEnds` and `EventuallyReported`, which are outside
the prover's reach. Every other property of a passing run is a theorem.

## Findings

* `ExecutionQueue`: a tick's worker pool has `max_concurrent` places and a job
  takes one *before* it looks at any lock (`tick.go:160`). Jobs that only wait
  for a repository can thus fill it, and a due job behind them stays put
  although its repository and a slot are free. The concurrency-control spec
  (`openspec/specs/concurrency-control/spec.md:28`) promises a start "as soon
  as it is no longer blocked by either rule".
* `ExecutionOrphan`: the repository lock belongs to the rest-o-matic process.
  When that is killed its restic child goes on unlocked, against the comment
  on `AcquireRepository` (`lock.go:153`); restic's own repository locks remain.

Met while modelling, without a run of their own:

* `spec.md:45` wants the job that became due earlier to start first. The code
  goes by name and says so (`tick.go:69`); `docs/concurrency.md` promises no
  order between waiters.
* `Due` compares periods for inequality only. A clock that is set back across
  a boundary makes jobs due again, and again when it is set right. The model's
  clock does not go back.
* The comment at `job.go:197` has the grace period start at the interrupt;
  after an interrupt during the backups it starts with the after hooks.
* A signal between the last backup and the check at `job.go:190` marks the run
  as interrupted, and so as failed, although every backup finished.
* A job that is killed in every run never records a failure and so never
  alerts. An alert whose record is lost is sent again within the interval, and
  its recovery may go unannounced. `AlertsApart` and `RecoveryAnswersAlert`
  say exactly when.

* The gate on shared repositories asks whether an argument of a restore *is*
  `latest` (`exec.go:83`); `restore latest:/sub` passes it, which
  `openspec/specs/restic-exec/spec.md` ("Tag-Safety Gate for Restore with
  Relative Selectors") means to block. The read-mode check does see it.
* Gate and read-mode check look at the first argument only: a flag of restic's
  before the subcommand passes both (`exec.go:288`-`294`), against the same
  document's "No Bypass Flag for the Tag-Safety Gate". `RestoredAsTaken` and `LatestKept` name this case.
* A job that has another job's name among its tags has its snapshots forgotten
  by that job's retention; `openspec/specs/backup-execution/spec.md:139` and
  the comment at `restic.go:244` promise that the job tag keeps jobs apart.
  `LatestKept` leaves such
  snapshots out.
* `exec`'s help has it "wait" for the repository guard; it is refused at once
  (`exec.go:325`).
* A process that is killed while it creates the host key leaves a file that is
  not a key and that `keygen` and `enrol` will not replace: somebody has to
  remove it.

## Not modelled

The contents of hooks, environments, messages and restic's output; YAML and
JSON, and with them most of `internal/config` (decoding, validation messages,
the JSON schema: parsing and wording without state of its own); the ownership
check of the state directory, made once before anything starts; terminal
output; prompts; Windows. `exec --force` skips the repository
lock, which `Sharing` models. Of the progress recorder, the
figures and their throttling. Durability across power loss is outside: the code
does not sync, and the model's crash is a killed process.

## Plan

Done: every module planned, their proofs, and an abstract specification with a
proved refinement for job start, the state store and check-ins. Left:

1. The safety core of `EveryProcessEnds`: with `DeadlockFree`, that each step of
   an execution makes lexicographic progress (stage, repositories missing,
   repositories not yet attempted, locks left to give back).
2. An abstract specification of a job's alerts, as a refinement of `JobRun`;
   today the four notification properties say as much over its history.
3. The cached restic version and host facts of a check-in, one more update of
   the state file of the kind `StateFile` models.
