------------------------------- MODULE JobRun -------------------------------
(***************************************************************************)
(* The executions of one job, one after another: its hooks and backups     *)
(* (RunJob), the interrupts that cut them short, the notification commands *)
(* that apply, and the record that tells the next execution what happened. *)
(* The job lock keeps executions of the job apart (module Execution), so   *)
(* there is never more than one here.  What the state file's own protocol  *)
(* does to an update is in module StateFile; here a write of the record    *)
(* happens or fails as a whole.  The snapshot lists a run saves are there  *)
(* too, and its progress record is in module Execution.                    *)
(***************************************************************************)
EXTENDS Integers, Sequences

CONSTANTS
  Repositories,    \* how many repositories the job lists
  Commands,        \* Commands[l]: how many commands list l of the config has
  NotifyInterval,  \* failureNotifyInterval
  Instants,        \* the instants the clock may show
  MaxExecutions,   \* bound: executions of the job
  MayInterrupt,    \* whether SIGINT and SIGTERM arrive
  MayCrash,        \* whether an execution may be killed
  MayFail,         \* which accesses of the state file may fail
  None

(* Every list of commands: the job's hooks, then the config's notify block. *)
Lists == {"before", "always", "success", "failure", "alert", "recovery", "report"}
Hooks == {"always", "success", "failure"}
Notifications == {"alert", "recovery", "report"}

ASSUME JobRunAssumption ==
  /\ Repositories \in Nat
  /\ Commands \in [Lists -> Nat]
  /\ NotifyInterval \in Nat
  /\ Instants \subseteq Nat /\ 0 \in Instants
  /\ MaxExecutions \in Nat
  /\ MayInterrupt \in BOOLEAN /\ MayCrash \in BOOLEAN
  /\ MayFail \subseteq {"load", "record"}
  /\ None \notin Nat

VARIABLES
  now,      \* the wall clock
  stage,    \* where the execution is
  next,     \* how many commands or repositories of this stage are behind it
  busy,     \* whether it is waiting for a command or for restic
  signals,  \* how many signals its process has acted on
  graceOver, \* whether cleanupGrace has passed
  run,      \* its JobResult so far, and what it started from
  record,   \* the job's entry in the state file
  past      \* what became of the executions before it, oldest first

vars == <<now, stage, next, busy, signals, graceOver, run, record, past>>

Stages == {"idle", "prepare", "repos", "forget", "notify", "record"} \cup Lists

(* The stages under afterCtx. *)
AfterStages == Hooks \cup Notifications \cup {"notify"}

Times == Instants \cup {None}
Records == [outcome : {"none", "success", "failed"}, lastRun : Times,
            failingSince : Times, failureNotified : Times]
NoRecord == [outcome |-> "none", lastRun |-> None,
             failingSince |-> None, failureNotified |-> None]

(* What earlier versions wrote of a failed run: no failing state with it. *)
LegacyFailure == [NoRecord EXCEPT !.outcome = "failed", !.lastRun = 0]

RepoResults == {"ok", "backupFailed", "forgetFailed"}

Results == [prior : Records, read : BOOLEAN, started : Times, jobStarted : Times,
            repos : Seq(RepoResults), interrupted : BOOLEAN, failedIn : SUBSET Lists,
            ran : SUBSET Lists, failingSince : Times, failureNotified : Times,
            alerted : Times]
NoResult == [prior |-> NoRecord, read |-> TRUE, started |-> None, jobStarted |-> None,
             repos |-> <<>>, interrupted |-> FALSE, failedIn |-> {}, ran |-> {},
             failingSince |-> None, failureNotified |-> None, alerted |-> None]

Entries == [outcome : {"success", "failed", "killed"}, started : Times, finished : Times,
            ran : SUBSET Lists, alerted : Times, read : BOOLEAN, recorded : BOOLEAN]

TypeOK ==
  /\ now \in Instants
  /\ stage \in Stages
  /\ next \in Nat
  /\ busy \in BOOLEAN
  /\ signals \in 0 .. 2
  /\ graceOver \in BOOLEAN
  /\ run \in Results /\ Len(run.repos) <= Repositories
  /\ record \in Records
  /\ past \in Seq(Entries)

(* A file may have a failure from an earlier version in it. *)
Init ==
  /\ now = 0
  /\ stage = "idle" /\ next = 0 /\ busy = FALSE
  /\ signals = 0 /\ graceOver = FALSE
  /\ run = NoResult
  /\ \/ record = NoRecord /\ past = <<>>
     \/ /\ record = LegacyFailure
        /\ past = <<[outcome |-> "failed", started |-> 0, finished |-> 0, ran |-> {},
                     alerted |-> None, read |-> TRUE, recorded |-> TRUE]>>

-----------------------------------------------------------------------------
(* The clock, signals and the grace period.                                *)

AdvanceClock ==
  /\ \E t \in Instants : t > now /\ now' = t
  /\ UNCHANGED <<stage, next, busy, signals, graceOver, run, record, past>>

(* The first signal cancels work, the second cleanup; the handler looks at *)
(* no others.                                                              *)
Signal ==
  /\ MayInterrupt /\ stage # "idle" /\ signals < 2
  /\ signals' = signals + 1
  /\ UNCHANGED <<now, stage, next, busy, graceOver, run, record, past>>

(* Slip: the timer is only set if the backups were interrupted. *)
EndGraceOfInterrupted ==
  /\ stage \in AfterStages /\ signals > 0 /\ ~graceOver /\ run.interrupted
  /\ graceOver' = TRUE
  /\ UNCHANGED <<now, stage, next, busy, signals, run, record, past>>

(* The timer runs from the interrupt, or from the first after hook if that *)
(* is later.                                                               *)
EndGrace ==
  /\ stage \in AfterStages /\ signals > 0 /\ ~graceOver
  /\ graceOver' = TRUE
  /\ UNCHANGED <<now, stage, next, busy, signals, run, record, past>>

(* The context of the stage the execution is in: work, then afterCtx. *)
Cancelled ==
  IF stage \in AfterStages THEN signals = 2 \/ graceOver ELSE signals > 0

-----------------------------------------------------------------------------
(* Commands and restic.                                                    *)

(* runHooksStopOnError and runHooksAll differ only in this. *)
MoreCommands ==
  /\ stage \in Lists /\ next < Commands[stage]
  /\ stage = "before" => "before" \notin run.failedIn

StartCommand ==
  /\ MoreCommands /\ ~busy /\ ~Cancelled
  /\ busy' = TRUE
  /\ UNCHANGED <<now, stage, next, signals, graceOver, run, record, past>>

CommandFailed == run' = [run EXCEPT !.failedIn = @ \cup {stage}]

(* Under a cancelled context a command fails without being started. *)
RefuseCommand ==
  /\ MoreCommands /\ ~busy /\ Cancelled
  /\ CommandFailed
  /\ next' = next + 1
  /\ UNCHANGED <<now, stage, busy, signals, graceOver, record, past>>

(* A command stopped by the cancellation of its context has failed. *)
EndCommand ==
  /\ busy /\ stage \in Lists
  /\ CommandFailed \/ (~Cancelled /\ UNCHANGED run)
  /\ busy' = FALSE
  /\ next' = next + 1
  /\ UNCHANGED <<now, stage, signals, graceOver, record, past>>

(* Slip: one repository too many. *)
StartBackupBeyond ==
  /\ stage = "repos" /\ ~busy /\ next <= Repositories /\ ~Cancelled
  /\ busy' = TRUE
  /\ UNCHANGED <<now, stage, next, signals, graceOver, run, record, past>>

(* runRepo: restic backup, ...                                             *)
StartBackup ==
  /\ stage = "repos" /\ ~busy /\ next < Repositories /\ ~Cancelled
  /\ busy' = TRUE
  /\ UNCHANGED <<now, stage, next, signals, graceOver, run, record, past>>

RepoDone(result) ==
  /\ run' = [run EXCEPT !.repos = Append(@, result)]
  /\ next' = next + 1
  /\ stage' = "repos" /\ busy' = FALSE

EndBackup ==
  /\ stage = "repos" /\ busy
  /\ \/ RepoDone("backupFailed")
     \/ ~Cancelled /\ stage' = "forget" /\ UNCHANGED <<next, busy, run>>
  /\ UNCHANGED <<now, signals, graceOver, record, past>>

(* ... and restic forget in the same repository, if the backup worked.     *)
EndForget ==
  /\ stage = "forget"
  /\ RepoDone("forgetFailed") \/ (~Cancelled /\ RepoDone("ok"))
  /\ UNCHANGED <<now, signals, graceOver, record, past>>

-----------------------------------------------------------------------------
(* From one stage to the next.                                             *)

Goto(s) == stage' = s /\ next' = 0

(* Success of a JobResult. *)
Success(r) ==
  /\ {"before", "always"} \cap r.failedIn = {}
  /\ ~r.interrupted
  /\ \A i \in DOMAIN r.repos : r.repos[i] = "ok"

(* executeAndRecord: what the last run left behind, and the time.  A state *)
(* that can't be read counts as a job that never ran.                      *)
Prepare ==
  /\ stage = "idle" /\ Len(past) < MaxExecutions
  /\ \E read \in BOOLEAN :
        /\ read \/ "load" \in MayFail
        /\ run' = [NoResult EXCEPT !.prior = IF read THEN record ELSE NoRecord,
                                   !.read = read, !.started = now]
  /\ Goto("prepare")
  /\ signals' = 0 /\ graceOver' = FALSE
  /\ UNCHANGED <<now, busy, record, past>>

(* RunJob reads the clock again, after the running marker was written. *)
StartJob ==
  /\ stage = "prepare"
  /\ run' = [run EXCEPT !.jobStarted = now]
  /\ Goto("before")
  /\ UNCHANGED <<now, busy, signals, graceOver, record, past>>

EndBefore ==
  /\ stage = "before" /\ ~busy /\ ~MoreCommands
  /\ IF "before" \in run.failedIn
       THEN /\ run' = [run EXCEPT !.interrupted = signals > 0]
            /\ Goto("always")
       ELSE Goto("repos") /\ UNCHANGED run
  /\ UNCHANGED <<now, busy, signals, graceOver, record, past>>

(* Slip: the loop is left on an interrupt, and nobody is told. *)
EndReposUntold ==
  /\ stage = "repos" /\ ~busy
  /\ next = Repositories \/ Cancelled
  /\ Goto("always")
  /\ UNCHANGED <<now, busy, signals, graceOver, run, record, past>>

(* The loop over the repositories ends early once work is cancelled. *)
EndRepos ==
  /\ stage = "repos" /\ ~busy
  /\ next = Repositories \/ Cancelled
  /\ run' = [run EXCEPT !.interrupted = signals > 0]
  /\ Goto("always")
  /\ UNCHANGED <<now, busy, signals, graceOver, record, past>>

(* Slip: the outcome is taken before the always hooks had their say. *)
EndAlwaysAnyway ==
  /\ stage = "always" /\ ~busy /\ ~MoreCommands
  /\ LET outcome == IF Success([run EXCEPT !.failedIn = @ \ {"always"}])
                      THEN "success" ELSE "failure" IN
     /\ run' = [run EXCEPT !.ran = @ \cup {outcome}]
     /\ Goto(outcome)
  /\ UNCHANGED <<now, busy, signals, graceOver, record, past>>

EndAlways ==
  /\ stage = "always" /\ ~busy /\ ~MoreCommands
  /\ LET outcome == IF Success(run) THEN "success" ELSE "failure" IN
     /\ run' = [run EXCEPT !.ran = @ \cup {outcome}]
     /\ Goto(outcome)
  /\ UNCHANGED <<now, busy, signals, graceOver, record, past>>

EndOutcome ==
  /\ stage \in {"success", "failure"} /\ ~busy /\ ~MoreCommands
  /\ Goto("notify")
  /\ UNCHANGED <<now, busy, signals, graceOver, run, record, past>>

(* Since when a job that was already failing has been. *)
PriorFailingSince(prior) ==
  IF prior.failingSince # None THEN prior.failingSince ELSE prior.lastRun

(* Slip: every failed run counts as the first. *)
FailingSinceNow(r) == r.jobStarted

FailingSince(r) ==
  IF r.prior.outcome = "failed" THEN PriorFailingSince(r.prior) ELSE r.jobStarted

(* When the last alert of this run of failures was sent. *)
LastNotified(r) ==
  IF r.prior.outcome = "failed" THEN r.prior.failureNotified ELSE None

AlertDue(r) ==
  /\ Commands["alert"] > 0
  /\ LastNotified(r) = None \/ now - LastNotified(r) >= NotifyInterval

(* Slip: a recovery only where an alert is on record. *)
ToNotifyOfAlerted(r) ==
  IF Success(r) THEN IF r.prior.failureNotified # None THEN "recovery" ELSE "report"
                ELSE IF AlertDue(r) THEN "alert" ELSE "record"

(* The first list of notification commands that applies, if any. *)
ToNotify(r) ==
  IF Success(r) THEN IF r.prior.outcome = "failed" THEN "recovery" ELSE "report"
                ELSE IF AlertDue(r) THEN "alert" ELSE "record"

Notify ==
  /\ stage = "notify"
  /\ run' = IF Success(run) THEN [run EXCEPT !.ran = @ \cup {ToNotify(run)}]
            ELSE [run EXCEPT !.failingSince = FailingSince(run),
                             !.failureNotified = LastNotified(run),
                             !.ran = @ \cup ({ToNotify(run)} \cap Lists)]
  /\ Goto(ToNotify(run))
  /\ UNCHANGED <<now, busy, signals, graceOver, record, past>>

(* The success commands follow the recovery commands. *)
EndRecovery ==
  /\ stage = "recovery" /\ ~busy /\ ~MoreCommands
  /\ run' = [run EXCEPT !.ran = @ \cup {"report"}]
  /\ Goto("report")
  /\ UNCHANGED <<now, busy, signals, graceOver, record, past>>

EndReport ==
  /\ stage = "report" /\ ~busy /\ ~MoreCommands
  /\ Goto("record")
  /\ UNCHANGED <<now, busy, signals, graceOver, run, record, past>>

(* Slip: an alert counts as sent however its commands went. *)
EndAlertAnyway ==
  /\ stage = "alert" /\ ~busy /\ ~MoreCommands
  /\ run' = [run EXCEPT !.failureNotified = now,
                        !.alerted = IF "alert" \in run.failedIn THEN None ELSE now]
  /\ Goto("record")
  /\ UNCHANGED <<now, busy, signals, graceOver, record, past>>

(* The alert was sent if every one of its commands worked. *)
EndAlert ==
  LET sent == IF "alert" \in run.failedIn THEN None ELSE now IN
  /\ stage = "alert" /\ ~busy /\ ~MoreCommands
  /\ run' = [run EXCEPT !.failureNotified = sent, !.alerted = sent]
  /\ Goto("record")
  /\ UNCHANGED <<now, busy, signals, graceOver, record, past>>

-----------------------------------------------------------------------------
(* The end of an execution.                                                *)

Outcome(r) == IF Success(r) THEN "success" ELSE "failed"

(* past is history: what an observer knows of the execution. *)
Remember(outcome, recorded) ==
  past' = Append(past, [outcome |-> outcome, started |-> run.started, finished |-> now,
                        ran |-> run.ran, alerted |-> run.alerted,
                        read |-> run.read, recorded |-> recorded])

(* Slip: a failed run loses track of the alert sent before it. *)
RecordFreshAlert(r) ==
  [outcome |-> Outcome(r), lastRun |-> now,
   failingSince |-> IF Success(r) THEN None ELSE r.failingSince,
   failureNotified |-> IF Success(r) THEN None ELSE r.alerted]

(* runRecord and RecordRun: a success clears the failing state. *)
RecordOf(r) ==
  [outcome |-> Outcome(r), lastRun |-> now,
   failingSince |-> IF Success(r) THEN None ELSE r.failingSince,
   failureNotified |-> IF Success(r) THEN None ELSE r.failureNotified]

(* A record that can't be written is only warned about. *)
RecordRun ==
  /\ stage = "record"
  /\ \/ record' = RecordOf(run) /\ Remember(Outcome(run), TRUE)
     \/ "record" \in MayFail /\ UNCHANGED record /\ Remember(Outcome(run), FALSE)
  /\ run' = NoResult
  /\ Goto("idle")
  /\ signals' = 0 /\ graceOver' = FALSE
  /\ UNCHANGED <<now, busy>>

(* The process is killed: nothing of the run is recorded. *)
Crash ==
  /\ MayCrash /\ stage # "idle"
  /\ Remember("killed", FALSE)
  /\ run' = NoResult
  /\ busy' = FALSE
  /\ Goto("idle")
  /\ signals' = 0 /\ graceOver' = FALSE
  /\ UNCHANGED <<now, record>>

-----------------------------------------------------------------------------
(* What the program does of itself; how long a command or restic takes is  *)
(* not up to it.                                                           *)
Proceed ==
  \/ StartCommand \/ RefuseCommand \/ StartBackup
  \/ StartJob \/ EndBefore \/ EndRepos \/ EndAlways \/ EndOutcome
  \/ Notify \/ EndRecovery \/ EndReport \/ EndAlert \/ RecordRun

End == EndCommand \/ EndBackup \/ EndForget

(* The bound on executions is the only thing that stops them. *)
Terminated ==
  /\ stage = "idle" /\ Len(past) = MaxExecutions
  /\ UNCHANGED vars

Next ==
  \/ Prepare \/ Proceed \/ End \/ AdvanceClock \/ Signal \/ EndGrace \/ Crash
  \/ Terminated

Spec == Init /\ [][Next]_vars

(* A command or a restic of a cancelled context ends: it is sent SIGTERM   *)
(* or SIGINT, and killed when that does not help.                          *)
Fairness == WF_vars(Proceed) /\ WF_vars(EndGrace) /\ WF_vars(Cancelled /\ End)

FairSpec == Spec /\ Fairness
-----------------------------------------------------------------------------
(* Properties.                                                             *)

(* A run that comes out as a success has backed up to every repository the *)
(* job lists, however the run was cut short (the loop in RunJob).          *)
SuccessMeansBackedUp ==
  stage = "record" /\ Success(run) =>
    Len(run.repos) = Repositories /\ \A i \in DOMAIN run.repos : run.repos[i] = "ok"

(* The hooks, the notifications and the record agree on how a run came     *)
(* out, whatever signals arrive while they run (RunJob asks three times).  *)
OneOutcome ==
  stage = "record" =>
    /\ (Outcome(run) = "success") <=> "success" \in run.ran
    /\ (Outcome(run) = "failed") <=> "failure" \in run.ran
    /\ (Outcome(run) = "success") <=> run.failingSince = None

(* An interrupted run comes to its end although its commands and restic    *)
(* may hang for ever (interruptContexts, cleanupGrace).                    *)
InterruptEnds == signals > 0 ~> stage = "idle"

(* All executions i to j failed, as far as anybody recorded. *)
FailingThroughout(i, j) == \A k \in i .. j : past[k].recorded => past[k].outcome = "failed"

(* The recorded executions among the latest that failed, without a success *)
(* between them. *)
Streak == {i \in DOMAIN past : past[i].recorded /\ FailingThroughout(i, Len(past))}

(* The state file dates a failing job from the first failed run since the  *)
(* last success, however many failed in between, were killed or could not  *)
(* be recorded (notify, RecordRun).                                        *)
FailingSinceStart ==
  /\ record.outcome = "failed" <=> Streak # {}
  /\ record.outcome # "failed" => record.failingSince = None /\ record.failureNotified = None
  /\ (\A i \in Streak : past[i].read) =>
       \A first \in Streak :
         (\A i \in Streak : first <= i) =>
            /\ past[first].started <= PriorFailingSince(record)
            /\ PriorFailingSince(record) <= past[first].finished

(* Two alerts of one run of failures that were both delivered are at least *)
(* NotifyInterval apart, unless the record of the first or of a run        *)
(* between them was lost, or could not be read (failureNotifyInterval).    *)
AlertsApart ==
  \A i, j \in DOMAIN past :
     /\ i < j /\ past[i].alerted # None /\ past[j].alerted # None
     /\ FailingThroughout(i, j)
     /\ \A k \in i .. j - 1 : past[k].recorded
     /\ \A k \in i + 1 .. j : past[k].read
     => past[j].alerted - past[i].alerted >= NotifyInterval

(* A failed run keeps quiet only within NotifyInterval of an alert of the  *)
(* same run of failures that was delivered: one that was not is tried      *)
(* again, and so is one whose record was lost (notify).                    *)
NoSilentFailure ==
  Commands["alert"] > 0 =>
  \A j \in DOMAIN past :
     /\ past[j].outcome = "failed" /\ "failure" \in past[j].ran
     /\ "alert" \notin past[j].ran
     => \E i \in 1 .. j - 1 :
          /\ past[i].alerted # None /\ past[i].recorded
          /\ FailingThroughout(i, j)
          /\ past[j].started - past[i].alerted < NotifyInterval

(* A recovery is announced exactly when the run before it that anybody     *)
(* recorded had failed, so an alert whose run was recorded gets its        *)
(* recovery, and one that was not may go without (notify).                 *)
RecoveryAnswersAlert ==
  \A j \in DOMAIN past :
     past[j].outcome = "success" /\ past[j].read =>
       (("recovery" \in past[j].ran) <=>
          \E i \in 1 .. j - 1 :
             /\ past[i].recorded /\ past[i].outcome = "failed"
             /\ \A k \in i + 1 .. j - 1 : ~past[k].recorded)

-----------------------------------------------------------------------------
(* The inductive invariant behind SuccessMeansBackedUp and OneOutcome.     *)

(* Every repository the loop has got past has its result. *)
RepositoriesCounted ==
  /\ stage \in {"idle", "prepare", "before"} => run.repos = <<>>
  /\ stage \in {"repos", "forget"} => Len(run.repos) = next /\ next <= Repositories
  /\ stage = "forget" \/ (stage = "repos" /\ busy) => next < Repositories
  /\ stage \in AfterStages \cup {"record"} =>
        Len(run.repos) = Repositories \/ run.interrupted \/ "before" \in run.failedIn

(* The stages after the always hooks, when the outcome no longer changes. *)
Settled == {"success", "failure", "notify", "record"} \cup Notifications

OutcomeSettled ==
  /\ stage \in Settled =>
        /\ Success(run) <=> "success" \in run.ran
        /\ Success(run) <=> "failure" \notin run.ran
  /\ stage \notin Settled => "success" \notin run.ran /\ "failure" \notin run.ran

(* A failing job always has a time to date the failures from. *)
FailureDated ==
  /\ record.outcome = "failed" => record.lastRun # None
  /\ run.prior.outcome = "failed" => run.prior.lastRun # None
  /\ stage \notin {"idle", "prepare"} => run.jobStarted # None
  /\ stage \in {"record"} \cup Notifications => (Success(run) <=> run.failingSince = None)
  /\ stage \notin {"record"} \cup Notifications => run.failingSince = None

JobInv == RepositoriesCounted /\ OutcomeSettled /\ FailureDated
=============================================================================
