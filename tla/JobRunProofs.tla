---------------------------- MODULE JobRunProofs ----------------------------
(***************************************************************************)
(* Proofs about JobRun, for any number of repositories and commands, any   *)
(* notification interval and any signals, kills and failing writes: what a *)
(* run reports, tells its hooks and records of its outcome is one and the  *)
(* same, and never a success that left out a repository; and over any      *)
(* number of executions alerts, recoveries and the date of the failures    *)
(* are right by what was recorded.                                         *)
(***************************************************************************)
EXTENDS JobRun, TLAPS

(* What the actions make of a result is a result again. *)
LEMMA ResultType ==
  ASSUME NEW r \in Results, NEW l \in Lists, NEW t \in Times, NEW b \in BOOLEAN
  PROVE  /\ [r EXCEPT !.failedIn = @ \cup {l}] \in Results
         /\ [r EXCEPT !.ran = @ \cup {l}] \in Results
         /\ [r EXCEPT !.interrupted = b] \in Results
         /\ [r EXCEPT !.jobStarted = t] \in Results
         /\ [r EXCEPT !.failureNotified = t, !.alerted = t] \in Results
  BY DEF Results

(* A repository's result goes to the end of the results.                   *)
LEMMA AppendResult ==
  ASSUME NEW r \in Results, NEW result \in RepoResults
  PROVE  /\ [r EXCEPT !.repos = Append(@, result)] \in Results
         /\ [r EXCEPT !.repos = Append(@, result)].repos = Append(r.repos, result)
         /\ Len(Append(r.repos, result)) = Len(r.repos) + 1
<1>1. r.repos \in Seq(RepoResults)
  BY DEF Results
<1>2. Append(r.repos, result) \in Seq(RepoResults)
  BY <1>1
<1>3. Len(Append(r.repos, result)) = Len(r.repos) + 1
  BY <1>1
<1> DEFINE repos == Append(r.repos, result)
<1>4. [r EXCEPT !.repos = repos] \in Results
  <2> HIDE DEF repos
  <2>1. repos \in Seq(RepoResults)
    BY <1>2 DEF repos
  <2> QED
    BY <2>1 DEF Results
<1>5. [r EXCEPT !.repos = repos].repos = repos
  BY DEF Results
<1> QED
  BY <1>3, <1>4, <1>5

-----------------------------------------------------------------------------
(* Type correctness.                                                       *)

(* The invariant holds of a file without the job and of a legacy failure.  *)
LEMMA TypeInit == Init => TypeOK /\ JobInv
<1> SUFFICES ASSUME Init PROVE TypeOK /\ JobInv
  OBVIOUS
<1>1. 0 \in Instants /\ None \notin Nat /\ Repositories \in Nat
  BY JobRunAssumption
<1>2. NoRecord \in Records /\ LegacyFailure \in Records
  BY <1>1 DEF NoRecord, LegacyFailure, Records, Times
<1>3. NoResult \in Results /\ NoResult.repos = <<>> /\ Len(<<>>) = 0
  BY <1>2 DEF NoResult, Results, Times
<1>4. past \in Seq(Entries)
  <2> DEFINE legacy == [outcome |-> "failed", started |-> 0, finished |-> 0, ran |-> {},
                        alerted |-> None, read |-> TRUE, recorded |-> TRUE]
  <2>1. legacy \in Entries
    BY <1>1 DEF Entries, Times
  <2>2. past = <<>> \/ past = <<legacy>>
    BY DEF Init
  <2> HIDE DEF legacy
  <2>3. <<legacy>> \in Seq(Entries) /\ <<>> \in Seq(Entries)
    BY <2>1
  <2> QED
    BY <2>2, <2>3
<1>5. TypeOK
  <2>1. run = NoResult /\ Len(run.repos) <= Repositories
    BY <1>1, <1>3 DEF Init
  <2>2. now \in Instants /\ stage \in Stages /\ record \in Records
    BY <1>1, <1>2 DEF Init, Stages
  <2>3. next \in Nat /\ signals \in 0 .. 2
    BY DEF Init
  <2>4. busy \in BOOLEAN /\ graceOver \in BOOLEAN
    BY DEF Init
  <2> QED
    BY <1>3, <1>4, <2>1, <2>2, <2>3, <2>4 DEF TypeOK
<1>6. JobInv
  <2>1. /\ stage = "idle" /\ run.repos = <<>> /\ run.ran = {} /\ run.failingSince = None
        /\ run.prior.outcome = "none"
    BY DEF Init, NoResult, NoRecord
  <2>2. record.outcome = "failed" => record.lastRun # None
    <3>1. NoRecord.outcome = "none" /\ LegacyFailure.lastRun = 0
      BY DEF NoRecord, LegacyFailure
    <3>2. record = NoRecord \/ record = LegacyFailure
      BY DEF Init
    <3> QED
      BY <1>1, <3>1, <3>2
  <2>3. stage \notin {"repos", "forget", "record"} \cup AfterStages \cup Settled
    BY <2>1 DEF AfterStages, Hooks, Notifications, Settled
  <2> QED
    BY <2>1, <2>2, <2>3 DEF JobInv, RepositoriesCounted, OutcomeSettled, FailureDated, Settled
<1> QED
  BY <1>5, <1>6

(* What a result is recorded as is a record.                               *)
LEMMA RecordOfType ==
  ASSUME NEW r \in Results, now \in Instants
  PROVE  /\ RecordOf(r) \in Records
         /\ Outcome(r) \in {"success", "failed"}
  BY DEF RecordOf, Records, Results, Outcome, Times

(* What is remembered of an execution is an entry.                         *)
LEMMA RememberType ==
  ASSUME TypeOK, NEW outcome \in {"success", "failed", "killed"}, NEW recorded \in BOOLEAN,
         Remember(outcome, recorded)
  PROVE  past' \in Seq(Entries)
<1> DEFINE entry == [outcome |-> outcome, started |-> run.started, finished |-> now,
                     ran |-> run.ran, alerted |-> run.alerted,
                     read |-> run.read, recorded |-> recorded]
<1>1. entry \in Entries
  BY DEF TypeOK, Results, Entries, Times
<1> HIDE DEF entry
<1> QED
  BY <1>1 DEF TypeOK, Remember, entry

(* Every step keeps the types.                                             *)
LEMMA TypeStep == TypeOK /\ JobInv /\ [Next]_vars => TypeOK'
<1> SUFFICES ASSUME TypeOK, JobInv, [Next]_vars PROVE TypeOK'
  OBVIOUS
<1>a. /\ now \in Instants /\ None \notin Nat /\ Instants \subseteq Nat /\ Repositories \in Nat
      /\ stage \in Stages /\ next \in Nat /\ busy \in BOOLEAN /\ signals \in 0 .. 2
      /\ graceOver \in BOOLEAN /\ record \in Records /\ past \in Seq(Entries)
      /\ run \in Results /\ Len(run.repos) <= Repositories
      /\ next + 1 \in Nat
  BY JobRunAssumption DEF TypeOK
<1>b. now \in Times /\ None \in Times
  BY <1>a DEF Times
<1>c. /\ NoResult \in Results /\ NoResult.repos = <<>> /\ Len(<<>>) = 0
      /\ NoRecord \in Records
  BY <1>b DEF NoResult, NoRecord, Results, Records
<1>1. CASE AdvanceClock
  BY <1>1, <1>a DEF AdvanceClock, TypeOK
<1>2. CASE Signal
  BY <1>2 DEF Signal, TypeOK
<1>16. CASE EndGrace
  BY <1>16 DEF EndGrace, TypeOK
<1>3. CASE StartCommand \/ StartBackup
  BY <1>3, <1>a DEF StartCommand, StartBackup, TypeOK
<1>4. CASE RefuseCommand \/ EndCommand
  <2>1. run' \in Results /\ run'.repos = run.repos
    <3>1. stage \in Lists /\ (CommandFailed \/ run' = run)
      BY <1>4 DEF RefuseCommand, EndCommand, MoreCommands
    <3>2. CASE run' = run
      BY <1>a, <3>2
    <3>3. CASE CommandFailed
      BY <1>a, <3>1, <3>3, ResultType DEF CommandFailed, Results
    <3> QED
      BY <3>1, <3>2, <3>3
  <2> QED
    BY <1>4, <1>a, <2>1 DEF RefuseCommand, EndCommand, TypeOK
<1>5. CASE EndBackup \/ EndForget
  <2>1. ASSUME NEW result \in RepoResults, RepoDone(result), Len(run.repos) < Repositories
        PROVE  /\ run' \in Results /\ Len(run'.repos) <= Repositories
               /\ next' \in Nat /\ stage' \in Stages /\ busy' \in BOOLEAN
    <3>1. /\ run' \in Results /\ Len(run'.repos) = Len(run.repos) + 1
      BY <1>a, <2>1, AppendResult DEF RepoDone
    <3>2. Len(run.repos) \in Nat
      BY <1>a DEF Results
    <3>3. next' \in Nat /\ stage' \in Stages /\ busy' \in BOOLEAN
      BY <1>a, <2>1 DEF RepoDone, Stages
    <3> QED
      BY <1>a, <2>1, <3>1, <3>2, <3>3
  <2>2. Len(run.repos) < Repositories
    BY <1>5, <1>a DEF EndBackup, EndForget, JobInv, RepositoriesCounted
  <2>3. /\ run' \in Results /\ Len(run'.repos) <= Repositories
        /\ next' \in Nat /\ stage' \in Stages /\ busy' \in BOOLEAN
    BY <1>5, <1>a, <2>1, <2>2 DEF EndBackup, EndForget, RepoResults, Stages
  <2> QED
    BY <1>5, <1>a, <2>3 DEF EndBackup, EndForget, TypeOK
<1>6. CASE Prepare
  <2>1. PICK read \in BOOLEAN :
          run' = [NoResult EXCEPT !.prior = IF read THEN record ELSE NoRecord,
                                  !.read = read, !.started = now]
    BY <1>6 DEF Prepare
  <2>2. run' \in Results /\ run'.repos = <<>>
    BY <1>a, <1>b, <1>c, <2>1 DEF Results
  <2>3. signals' \in 0 .. 2 /\ next' \in Nat
    BY <1>6 DEF Prepare, Goto
  <2>4. graceOver' \in BOOLEAN /\ stage' \in Stages
    BY <1>6 DEF Prepare, Goto, Stages
  <2>5. Len(run'.repos) <= Repositories
    BY <1>a, <1>c, <2>2
  <2> QED
    BY <1>6, <1>a, <2>2, <2>3, <2>4, <2>5 DEF Prepare, TypeOK
<1>7. CASE StartJob
  <2>1. run' \in Results /\ run'.repos = run.repos
    BY <1>7, <1>a, <1>b, ResultType DEF StartJob, Results
  <2> QED
    BY <1>7, <1>a, <2>1 DEF StartJob, Goto, TypeOK, Stages, Lists
<1>8. CASE EndBefore \/ EndRepos
  <2>1. run' \in Results /\ run'.repos = run.repos
    <3> DEFINE interrupted == signals > 0
    <3>1. run' = run \/ run' = [run EXCEPT !.interrupted = interrupted]
      BY <1>8 DEF EndBefore, EndRepos
    <3>2. interrupted \in BOOLEAN
      OBVIOUS
    <3> HIDE DEF interrupted
    <3>3. /\ [run EXCEPT !.interrupted = interrupted] \in Results
          /\ [run EXCEPT !.interrupted = interrupted].repos = run.repos
      BY <1>a, <3>2 DEF Results
    <3> QED
      BY <1>a, <3>1, <3>3
  <2> QED
    BY <1>8, <1>a, <2>1 DEF EndBefore, EndRepos, Goto, TypeOK, Stages, Lists
<1>9. CASE EndAlways
  <2>1. PICK outcome \in {"success", "failure"} :
          run' = [run EXCEPT !.ran = @ \cup {outcome}] /\ Goto(outcome)
    BY <1>9 DEF EndAlways
  <2>2. run' \in Results /\ run'.repos = run.repos
    <3> DEFINE ran == run.ran \cup {outcome}
    <3>1. run' = [run EXCEPT !.ran = ran]
      BY <2>1
    <3>2. ran \subseteq Lists
      BY <1>a, <2>1 DEF Results, Lists
    <3> HIDE DEF ran
    <3> QED
      BY <1>a, <3>1, <3>2 DEF Results
  <2> QED
    BY <1>9, <1>a, <2>1, <2>2 DEF EndAlways, Goto, TypeOK, Stages, Lists
<1>10. CASE EndOutcome \/ EndReport
  BY <1>10, <1>a DEF EndOutcome, EndReport, Goto, TypeOK, Stages, Lists
<1>11. CASE Notify
  <2>1. ToNotify(run) \in {"recovery", "report", "alert", "record"}
    BY DEF ToNotify
  <2>2. FailingSince(run) \in Times /\ LastNotified(run) \in Times
    BY <1>a, <1>b DEF FailingSince, LastNotified, PriorFailingSince, Results, Records
  <2>3. run' \in Results /\ run'.repos = run.repos
    <3>1. {ToNotify(run)} \cap Lists \subseteq Lists
      OBVIOUS
    <3>2. Success(run) => ToNotify(run) \in Lists
      BY DEF ToNotify, Lists
    <3> QED
      BY <1>11, <1>a, <2>2, <3>1, <3>2 DEF Notify, Results
  <2> QED
    BY <1>11, <1>a, <2>1, <2>3 DEF Notify, Goto, TypeOK, Stages, Lists
<1>12. CASE EndRecovery \/ EndAlert
  <2>1. run' \in Results /\ run'.repos = run.repos
    <3>1. CASE EndRecovery
      BY <3>1, <1>a, <1>b DEF EndRecovery, Results, Lists
    <3>2. CASE EndAlert
      BY <3>2, <1>a, <1>b DEF EndAlert, Results, Lists
    <3> QED
      BY <1>12, <3>1, <3>2
  <2> QED
    BY <1>12, <1>a, <2>1 DEF EndRecovery, EndAlert, Goto, TypeOK, Stages, Lists
<1>13. CASE RecordRun
  <2>1. record' \in Records
    BY <1>13, <1>a, RecordOfType DEF RecordRun
  <2>2. past' \in Seq(Entries)
    BY <1>13, <1>a, RecordOfType, RememberType DEF RecordRun
  <2>3. signals' \in 0 .. 2 /\ next' \in Nat
    BY <1>13 DEF RecordRun, Goto
  <2>4. graceOver' \in BOOLEAN /\ busy' \in BOOLEAN /\ stage' \in Stages
    BY <1>13, <1>a DEF RecordRun, Goto, Stages
  <2>5. run' \in Results /\ Len(run'.repos) <= Repositories
    BY <1>13, <1>a, <1>c DEF RecordRun
  <2> QED
    BY <1>13, <1>a, <2>1, <2>2, <2>3, <2>4, <2>5 DEF RecordRun, TypeOK
<1>14. CASE Crash
  <2>1. past' \in Seq(Entries)
    BY <1>14, RememberType DEF Crash
  <2>3. signals' \in 0 .. 2 /\ next' \in Nat
    BY <1>14 DEF Crash, Goto
  <2>4. graceOver' \in BOOLEAN /\ busy' \in BOOLEAN /\ stage' \in Stages
    BY <1>14, <1>a DEF Crash, Goto, Stages
  <2>5. run' \in Results /\ Len(run'.repos) <= Repositories
    BY <1>14, <1>a, <1>c DEF Crash
  <2> QED
    BY <1>14, <1>a, <2>1, <2>3, <2>4, <2>5 DEF Crash, TypeOK
<1>15. CASE UNCHANGED vars
  BY <1>15 DEF vars, TypeOK
<1> QED
  BY <1>1, <1>2, <1>3, <1>4, <1>5, <1>6, <1>7, <1>8, <1>9, <1>10, <1>11, <1>12, <1>13,
     <1>14, <1>15, <1>16 DEF Next, Proceed, End, Terminated

-----------------------------------------------------------------------------
(* The inductive invariant, one part at a time.                            *)

(* Which stage is of which kind. *)
LEMMA StageKinds ==
  /\ AfterStages = {"always", "success", "failure", "alert", "recovery", "report", "notify"}
  /\ Settled = {"success", "failure", "notify", "record", "alert", "recovery", "report"}
  /\ Lists \cap {"idle", "prepare", "repos", "forget", "notify", "record"} = {}
  BY DEF AfterStages, Settled, Hooks, Notifications, Lists

(* The actions that leave the stage and the result alone. *)
Aside == AdvanceClock \/ Signal \/ EndGrace \/ StartCommand \/ StartBackup \/ UNCHANGED vars

(* Steps of the clock, the signals and the like leave the run alone.       *)
LEMMA AsideStep == Aside => UNCHANGED <<stage, next, run, record>>
  BY DEF Aside, AdvanceClock, Signal, EndGrace, StartCommand, StartBackup, vars

(* A command that fails changes nothing else. *)
LEMMA CommandStep ==
  ASSUME TypeOK, RefuseCommand \/ EndCommand
  PROVE  /\ stage \in Lists /\ UNCHANGED <<stage, record>>
         /\ run' = run \/ run' = [run EXCEPT !.failedIn = @ \cup {stage}]
         /\ run'.repos = run.repos /\ run'.interrupted = run.interrupted
         /\ run'.ran = run.ran /\ run'.prior = run.prior
         /\ run'.failingSince = run.failingSince /\ run'.jobStarted = run.jobStarted
         /\ run.failedIn \subseteq run'.failedIn
<1>1. /\ stage \in Lists /\ UNCHANGED <<stage, record>>
      /\ run' = run \/ run' = [run EXCEPT !.failedIn = @ \cup {stage}]
  BY DEF RefuseCommand, EndCommand, MoreCommands, CommandFailed
<1>2. run \in Results
  BY DEF TypeOK
<1> QED
  BY <1>1, <1>2 DEF Results

(* Results stay counted along with the loop over the repositories.         *)
LEMMA CountedStep == TypeOK /\ JobInv /\ [Next]_vars => RepositoriesCounted'
<1> SUFFICES ASSUME TypeOK, JobInv, [Next]_vars PROVE RepositoriesCounted'
  OBVIOUS
<1>a. /\ next \in Nat /\ Repositories \in Nat /\ run \in Results /\ busy \in BOOLEAN
      /\ run.repos \in Seq(RepoResults) /\ Len(run.repos) \in Nat
  BY JobRunAssumption DEF TypeOK, Results
<1>b. RepositoriesCounted
  BY DEF JobInv
<1>1. CASE Aside
  <2>1. UNCHANGED <<stage, next, run>>
    BY <1>1, AsideStep
  <2>2. stage' = "repos" /\ busy' => next < Repositories
    BY <1>1, <1>b, StageKinds DEF Aside, AdvanceClock, Signal, EndGrace, StartCommand, StartBackup,
       MoreCommands, vars, RepositoriesCounted
  <2> QED
    BY <1>b, <2>1, <2>2 DEF RepositoriesCounted
<1>2. CASE RefuseCommand \/ EndCommand
  <2>1. stage \in Lists /\ stage' = stage /\ run'.repos = run.repos
        /\ run'.interrupted = run.interrupted /\ run.failedIn \subseteq run'.failedIn
    BY <1>2, CommandStep
  <2> QED
    BY <1>b, <2>1, StageKinds DEF RepositoriesCounted
<1>3. CASE EndBackup \/ EndForget
  <2>1. CASE \E result \in RepoResults : RepoDone(result)
    <3>1. PICK result \in RepoResults : RepoDone(result)
      BY <2>1
    <3>2. next < Repositories /\ Len(run.repos) = next
      BY <1>3, <1>b DEF EndBackup, EndForget, RepositoriesCounted
    <3>3. Len(run'.repos) = Len(run.repos) + 1
      BY <1>a, <3>1, AppendResult DEF RepoDone
    <3>4. stage' = "repos" /\ ~busy' /\ next' = next + 1
      BY <3>1 DEF RepoDone
    <3>5. Len(run'.repos) = next' /\ next' <= Repositories
      BY <1>a, <3>2, <3>3, <3>4
    <3> QED
      BY <3>4, <3>5, StageKinds DEF RepositoriesCounted
  <2>2. CASE EndBackup /\ stage' = "forget" /\ UNCHANGED <<next, busy, run>>
    BY <1>b, <2>2, StageKinds DEF EndBackup, RepositoriesCounted
  <2> QED
    BY <1>3, <2>1, <2>2 DEF EndBackup, EndForget, RepoResults
<1>4. CASE Prepare \/ StartJob
  <2>1. run'.repos = <<>> /\ stage' \in {"prepare", "before"}
    <3>1. CASE Prepare
      BY <3>1 DEF Prepare, Goto, NoResult
    <3>2. CASE StartJob
      BY <1>a, <1>b, <3>2 DEF StartJob, Goto, RepositoriesCounted, Results
    <3> QED
      BY <1>4, <3>1, <3>2
  <2> QED
    BY <2>1, StageKinds DEF RepositoriesCounted
<1>5. CASE EndBefore
  <2>1. CASE "before" \in run.failedIn
    <3>1. stage' = "always" /\ run'.failedIn = run.failedIn
      BY <1>5, <1>a, <2>1 DEF EndBefore, Goto, Results
    <3> QED
      BY <2>1, <3>1, StageKinds DEF RepositoriesCounted
  <2>2. CASE "before" \notin run.failedIn
    <3>1. stage' = "repos" /\ next' = 0 /\ run' = run /\ ~busy'
      BY <1>5, <2>2 DEF EndBefore, Goto
    <3>2. run.repos = <<>> /\ Len(<<>>) = 0
      BY <1>5, <1>b DEF EndBefore, RepositoriesCounted
    <3> QED
      BY <1>a, <3>1, <3>2, StageKinds DEF RepositoriesCounted
  <2> QED
    BY <2>1, <2>2
<1>6. CASE EndRepos
  <2>1. stage' = "always"
    BY <1>6 DEF EndRepos, Goto
  <2>2. run'.repos = run.repos /\ (signals > 0 => run'.interrupted)
    BY <1>6, <1>a DEF EndRepos, Results
  <2>3. Len(run.repos) = Repositories \/ signals > 0
    BY <1>6, <1>b, StageKinds DEF EndRepos, Cancelled, RepositoriesCounted
  <2> QED
    BY <2>1, <2>2, <2>3, StageKinds DEF RepositoriesCounted
<1>7. CASE EndAlways \/ EndOutcome \/ Notify \/ EndRecovery \/ EndReport \/ EndAlert
  <2>1. stage \in AfterStages
    BY <1>7, StageKinds DEF EndAlways, EndOutcome, Notify, EndRecovery, EndReport, EndAlert
  <2>2. stage' \in AfterStages \cup {"record"}
    BY <1>7, StageKinds DEF EndAlways, EndOutcome, Notify, EndRecovery, EndReport, EndAlert,
       Goto, ToNotify
  <2>3. /\ run'.repos = run.repos /\ run'.interrupted = run.interrupted
        /\ run'.failedIn = run.failedIn
    BY <1>7, <1>a DEF EndAlways, EndOutcome, Notify, EndRecovery, EndReport, EndAlert, Results
  <2> QED
    BY <1>b, <2>1, <2>2, <2>3, StageKinds DEF RepositoriesCounted
<1>8. CASE RecordRun \/ Crash
  <2>1. stage' = "idle" /\ run' = NoResult
    BY <1>8 DEF RecordRun, Crash, Goto
  <2>2. run'.repos = <<>>
    BY <2>1 DEF NoResult
  <2> QED
    BY <2>1, <2>2, StageKinds DEF RepositoriesCounted
<1> QED
  BY <1>1, <1>2, <1>3, <1>4, <1>5, <1>6, <1>7, <1>8 DEF Aside, Next, Proceed, End, Terminated

(* Only the hooks before and after the backups count for the outcome. *)
LEMMA SuccessKept ==
  ASSUME NEW r \in Results, NEW s \in Results, s.repos = r.repos,
         s.interrupted = r.interrupted, NEW l \in Lists \ {"before", "always"},
         s.failedIn = r.failedIn \/ s.failedIn = r.failedIn \cup {l}
  PROVE  Success(s) <=> Success(r)
  BY DEF Success

(* The outcome stays what the hooks were told it is.                       *)
LEMMA OutcomeStep == TypeOK /\ JobInv /\ [Next]_vars => OutcomeSettled'
<1> SUFFICES ASSUME TypeOK, JobInv, [Next]_vars PROVE OutcomeSettled'
  OBVIOUS
<1>a. run \in Results /\ run' \in Results
  BY TypeStep DEF TypeOK
<1>b. OutcomeSettled
  BY DEF JobInv
<1>1. CASE Aside
  <2>1. stage' = stage /\ run' = run
    BY <1>1, AsideStep
  <2> QED
    BY <1>b, <2>1 DEF OutcomeSettled, Success
<1>2. CASE RefuseCommand \/ EndCommand
  <2>1. /\ stage \in Lists /\ stage' = stage /\ run'.repos = run.repos
        /\ run'.interrupted = run.interrupted /\ run'.ran = run.ran
        /\ run'.failedIn = run.failedIn \/ run'.failedIn = run.failedIn \cup {stage}
    BY <1>2, <1>a, CommandStep DEF Results
  <2>2. CASE stage \in Settled
    <3>1. stage \in Lists \ {"before", "always"}
      BY <2>1, <2>2, StageKinds
    <3>2. Success(run') <=> Success(run)
      BY <1>a, <2>1, <3>1, SuccessKept
    <3> QED
      BY <1>b, <2>1, <2>2, <3>2 DEF OutcomeSettled, Success
  <2>3. CASE stage \notin Settled
    BY <1>b, <2>1, <2>3 DEF OutcomeSettled
  <2> QED
    BY <2>2, <2>3
<1>3. CASE EndBackup \/ EndForget \/ StartJob \/ EndBefore \/ EndRepos
  <2>1. stage \notin Settled /\ stage' \notin Settled
    BY <1>3, StageKinds DEF EndBackup, EndForget, RepoDone, StartJob, EndBefore, EndRepos, Goto
  <2>2. run'.ran = run.ran
    BY <1>3, <1>a DEF EndBackup, EndForget, RepoDone, StartJob, EndBefore, EndRepos, Results
  <2> QED
    BY <1>b, <2>1, <2>2 DEF OutcomeSettled
<1>4. CASE Prepare \/ RecordRun \/ Crash
  <2>1. stage' \notin Settled
    BY <1>4, StageKinds DEF Prepare, RecordRun, Crash, Goto
  <2>2. run'.ran = {}
    <3>1. CASE Prepare
      BY <3>1 DEF Prepare, NoResult
    <3>2. CASE RecordRun \/ Crash
      <4>1. run' = NoResult
        BY <3>2 DEF RecordRun, Crash
      <4> QED
        BY <4>1 DEF NoResult
    <3> QED
      BY <1>4, <3>1, <3>2
  <2> QED
    BY <2>1, <2>2 DEF OutcomeSettled
<1>5. CASE EndAlways
  <2>1. "success" \notin run.ran /\ "failure" \notin run.ran
    BY <1>5, <1>b, StageKinds DEF EndAlways, OutcomeSettled
  <2>2. Success(run') <=> Success(run)
    BY <1>5, <1>a DEF EndAlways, Results, Success
  <2>3. run'.ran = run.ran \cup {IF Success(run) THEN "success" ELSE "failure"}
    BY <1>5, <1>a DEF EndAlways, Results
  <2>4. stage' \in Settled
    BY <1>5, StageKinds DEF EndAlways, Goto
  <2>5. (Success(run) <=> "success" \in run'.ran) /\ (Success(run) <=> "failure" \notin run'.ran)
    BY <2>1, <2>3
  <2> QED
    BY <2>2, <2>4, <2>5 DEF OutcomeSettled, Success
<1>6. CASE EndOutcome \/ Notify \/ EndRecovery \/ EndReport \/ EndAlert
  <2>1. stage \in Settled /\ stage' \in Settled
    BY <1>6, StageKinds DEF EndOutcome, Notify, EndRecovery, EndReport, EndAlert, Goto, ToNotify
  <2>2. /\ run'.repos = run.repos /\ run'.interrupted = run.interrupted
        /\ run'.failedIn = run.failedIn
    BY <1>6, <1>a DEF EndOutcome, Notify, EndRecovery, EndReport, EndAlert, Results
  <2>3. ("success" \in run'.ran <=> "success" \in run.ran)
        /\ ("failure" \in run'.ran <=> "failure" \in run.ran)
    <3>1. ToNotify(run) \notin {"success", "failure"}
      BY DEF ToNotify
    <3>2. CASE EndOutcome \/ EndReport \/ EndAlert
      BY <1>a, <3>2 DEF EndOutcome, EndReport, EndAlert, Results
    <3>3. CASE EndRecovery
      BY <1>a, <3>3 DEF EndRecovery, Results
    <3>4. CASE Notify
      <4>1. \/ run'.ran = run.ran \cup {ToNotify(run)}
            \/ run'.ran = run.ran \cup ({ToNotify(run)} \cap Lists)
        BY <1>a, <3>4 DEF Notify, Results
      <4> QED
        BY <3>1, <4>1
    <3> QED
      BY <1>6, <3>2, <3>3, <3>4
  <2>4. Success(run') <=> Success(run)
    BY <1>a, <2>2 DEF Success
  <2> QED
    BY <1>b, <2>1, <2>3, <2>4 DEF OutcomeSettled, Success
<1> QED
  BY <1>1, <1>2, <1>3, <1>4, <1>5, <1>6 DEF Aside, Next, Proceed, End, Terminated

(* What a failing job is dated from is a time, and a success has none. *)
LEMMA DatedStep == TypeOK /\ JobInv /\ [Next]_vars => FailureDated'
<1> SUFFICES ASSUME TypeOK, JobInv, [Next]_vars PROVE FailureDated'
  OBVIOUS
<1>a. /\ run \in Results /\ run' \in Results /\ now \in Nat /\ None \notin Nat
      /\ record \in Records
  BY TypeStep, JobRunAssumption DEF TypeOK
<1>b. FailureDated /\ OutcomeSettled'
  BY OutcomeStep DEF JobInv
<1> DEFINE Notified == {"record"} \cup Notifications
<1>c. Notified = {"record", "alert", "recovery", "report"} /\ Notified \subseteq Settled
  BY StageKinds DEF Notifications
<1>d. record' = record \/ (RecordRun /\ record' = RecordOf(run))
  BY DEF vars, Next, Proceed, End, Terminated, AdvanceClock, Signal, EndGrace, StartCommand,
     StartBackup, RefuseCommand, EndCommand, EndBackup, EndForget, Prepare, StartJob,
     EndBefore, EndRepos, EndAlways, EndOutcome, Notify, EndRecovery, EndReport, EndAlert,
     RecordRun, Crash
<1>e. record'.outcome = "failed" => record'.lastRun # None
  <2>1. now # None
    BY <1>a
  <2>2. RecordOf(run).lastRun = now
    BY DEF RecordOf
  <2> QED
    BY <1>b, <1>d, <2>1, <2>2 DEF FailureDated
<1>1. CASE Aside
  <2>1. stage' = stage /\ run' = run
    BY <1>1, AsideStep
  <2> QED
    BY <1>b, <1>e, <2>1 DEF FailureDated, Success
<1>2. CASE RefuseCommand \/ EndCommand
  <2>1. /\ stage \in Lists /\ stage' = stage /\ run'.repos = run.repos
        /\ run'.interrupted = run.interrupted /\ run'.prior = run.prior
        /\ run'.failingSince = run.failingSince /\ run'.jobStarted = run.jobStarted
        /\ run'.failedIn = run.failedIn \/ run'.failedIn = run.failedIn \cup {stage}
    BY <1>2, <1>a, CommandStep DEF Results
  <2>2. stage \in Notified => (Success(run') <=> Success(run))
    BY <1>a, <1>c, <2>1, StageKinds, SuccessKept
  <2> QED
    BY <1>b, <1>e, <2>1, <2>2 DEF FailureDated, Success
<1>3. CASE EndBackup \/ EndForget \/ EndBefore \/ EndRepos \/ EndAlways \/ EndOutcome
  <2>1. /\ stage \notin Notified \cup {"idle", "prepare"}
        /\ stage' \notin Notified \cup {"idle", "prepare"}
    BY <1>3, <1>c, StageKinds DEF EndBackup, EndForget, RepoDone, EndBefore, EndRepos,
       EndAlways, EndOutcome, Goto
  <2>2. /\ run'.prior = run.prior /\ run'.jobStarted = run.jobStarted
        /\ run'.failingSince = run.failingSince
    <3>1. CASE EndBackup \/ EndForget
      BY <1>a, <3>1 DEF EndBackup, EndForget, RepoDone, Results
    <3>2. CASE EndBefore \/ EndRepos
      BY <1>a, <3>2 DEF EndBefore, EndRepos, Results
    <3>3. CASE EndAlways \/ EndOutcome
      BY <1>a, <3>3 DEF EndAlways, EndOutcome, Results
    <3> QED
      BY <1>3, <3>1, <3>2, <3>3
  <2> QED
    BY <1>b, <1>e, <2>1, <2>2 DEF FailureDated
<1>4. CASE Prepare
  <2>1. /\ run'.prior = record \/ run'.prior = NoRecord
        /\ run'.failingSince = None
    BY <1>4 DEF Prepare, NoResult
  <2>2. stage' = "prepare"
    BY <1>4 DEF Prepare, Goto
  <2>3. NoRecord.outcome # "failed"
    BY DEF NoRecord
  <2> QED
    BY <1>b, <1>c, <1>e, <2>1, <2>2, <2>3 DEF FailureDated
<1>5. CASE StartJob
  <2>1. /\ run'.prior = run.prior /\ run'.jobStarted = now
        /\ run'.failingSince = run.failingSince /\ stage = "prepare" /\ stage' = "before"
    BY <1>5, <1>a DEF StartJob, Goto, Results
  <2> QED
    BY <1>a, <1>b, <1>c, <1>e, <2>1 DEF FailureDated
<1>6. CASE Notify
  <2>1. stage = "notify" /\ stage' \in Notified
    BY <1>6, <1>c DEF Notify, Goto, ToNotify
  <2>2. /\ run'.prior = run.prior /\ run'.jobStarted = run.jobStarted
        /\ run'.failingSince = IF Success(run) THEN run.failingSince ELSE FailingSince(run)
        /\ Success(run') <=> Success(run)
    BY <1>6, <1>a DEF Notify, Results, Success
  <2>3. FailingSince(run) # None
    BY <1>a, <1>b, <2>1 DEF FailingSince, PriorFailingSince, FailureDated
  <2>4. run.failingSince = None
    BY <1>b, <1>c, <2>1 DEF FailureDated
  <2> QED
    BY <1>b, <1>e, <2>1, <2>2, <2>3, <2>4, <1>c DEF FailureDated, Success
<1>7. CASE EndRecovery \/ EndReport \/ EndAlert
  <2>1. stage \in Notified /\ stage' \in Notified
    BY <1>7, <1>c DEF EndRecovery, EndReport, EndAlert, Goto
  <2>2. /\ run'.prior = run.prior /\ run'.jobStarted = run.jobStarted
        /\ run'.failingSince = run.failingSince
        /\ Success(run') <=> Success(run)
    BY <1>7, <1>a DEF EndRecovery, EndReport, EndAlert, Results, Success
  <2> QED
    BY <1>b, <1>c, <1>e, <2>1, <2>2 DEF FailureDated, Success
<1>8. CASE RecordRun \/ Crash
  <2>1. run' = NoResult /\ stage' = "idle"
    BY <1>8 DEF RecordRun, Crash, Goto
  <2>2. run'.prior.outcome # "failed" /\ run'.failingSince = None
    BY <2>1 DEF NoResult, NoRecord
  <2> QED
    BY <1>c, <1>e, <2>1, <2>2 DEF FailureDated
<1> QED
  BY <1>1, <1>2, <1>3, <1>4, <1>5, <1>6, <1>7, <1>8 DEF Aside, Next, Proceed, End, Terminated

-----------------------------------------------------------------------------
(* The theorems.                                                           *)

(* The inductive invariant holds throughout: the types, a result for every *)
(* repository the loop of RunJob has passed, an outcome that no longer     *)
(* changes once RunJob has asked for it, and a date for every failing job. *)
THEOREM Invariance == Spec => [](TypeOK /\ JobInv)
<1>1. TypeOK /\ JobInv /\ [Next]_vars => (TypeOK /\ JobInv)'
  BY TypeStep, CountedStep, OutcomeStep, DatedStep DEF JobInv
<1> QED
  BY TypeInit, <1>1, PTL DEF Spec

(* Every variable of the model keeps to its type, the results of a run and *)
(* the record in the state file among them (JobResult, state.JobRun).      *)
THEOREM TypeCorrect == Spec => []TypeOK
  BY Invariance, PTL

(* A run that is recorded as a success has backed up to every repository   *)
(* the job lists, for any number of them and wherever an interrupt cut the *)
(* loop over them short (RunJob).                                          *)
THEOREM SuccessBacksUp == Spec => []SuccessMeansBackedUp
<1>1. TypeOK /\ JobInv => SuccessMeansBackedUp
  <2> SUFFICES ASSUME TypeOK, JobInv, stage = "record", Success(run)
               PROVE  /\ Len(run.repos) = Repositories
                      /\ \A i \in DOMAIN run.repos : run.repos[i] = "ok"
    BY DEF SuccessMeansBackedUp
  <2>1. ~run.interrupted /\ "before" \notin run.failedIn
    BY DEF Success
  <2> QED
    BY <2>1 DEF Success, JobInv, RepositoriesCounted
<1> QED
  BY Invariance, <1>1, PTL

(* The hooks that ran, the notifications that were sent and what is        *)
(* recorded agree on how a run came out, for any commands and whatever     *)
(* signals arrive while they run (RunJob, notify, runRecord).              *)
THEOREM OutcomeAgrees == Spec => []OneOutcome
<1>1. JobInv => OneOutcome
  <2> SUFFICES ASSUME JobInv, stage = "record"
               PROVE  /\ (Outcome(run) = "success") <=> "success" \in run.ran
                      /\ (Outcome(run) = "failed") <=> "failure" \in run.ran
                      /\ (Outcome(run) = "success") <=> run.failingSince = None
    BY DEF OneOutcome
  <2>1. (Success(run) <=> "success" \in run.ran) /\ (Success(run) <=> "failure" \notin run.ran)
    BY StageKinds DEF JobInv, OutcomeSettled
  <2>2. Success(run) <=> run.failingSince = None
    BY DEF JobInv, FailureDated
  <2>3. (Outcome(run) = "success" <=> Success(run)) /\ (Outcome(run) = "failed" <=> ~Success(run))
    BY DEF Outcome
  <2> QED
    BY <2>1, <2>2, <2>3
<1> QED
  BY Invariance, <1>1, PTL
-----------------------------------------------------------------------------
(* What an execution under way knows, and what its entry will say of it.   *)

(* A run starts from what is on record, and from no later time. *)
RunBegun ==
  /\ stage # "idle" =>
       /\ run.prior = IF run.read THEN record ELSE NoRecord
       /\ run.started # None /\ run.started <= now
       /\ run.prior.lastRun # None => run.prior.lastRun <= run.started
  /\ stage \notin {"idle", "prepare"} =>
       run.jobStarted # None /\ run.started <= run.jobStarted /\ run.jobStarted <= now
  /\ record.lastRun # None => record.lastRun <= now

(* NotifyInterval has passed at t since the last alert, if there was one. *)
Waited(t) == LastNotified(run) = None \/ t - LastNotified(run) >= NotifyInterval

(* What the run has been told to announce fits how it came out. *)
Announced ==
  /\ stage \notin {"record"} \cup Notifications =>
       run.ran \cap Notifications = {} /\ run.alerted = None
  /\ stage = "alert" =>
       /\ ~Success(run) /\ "alert" \in run.ran /\ run.alerted = None
       /\ Waited(now) /\ run.failingSince = FailingSince(run)
  /\ stage \in {"recovery", "report"} =>
       /\ Success(run) /\ run.alerted = None
       /\ "recovery" \in run.ran <=> run.prior.outcome = "failed"
  /\ stage = "record" /\ Success(run) =>
       run.alerted = None /\ ("recovery" \in run.ran <=> run.prior.outcome = "failed")
  /\ stage = "record" /\ ~Success(run) =>
       /\ run.failingSince = FailingSince(run)
       /\ "alert" \in run.ran =>
            /\ run.failureNotified = run.alerted /\ Waited(now)
            /\ run.alerted # None =>
                 run.started <= run.alerted /\ run.alerted <= now /\ Waited(run.alerted)
       /\ "alert" \notin run.ran =>
            /\ run.alerted = None /\ run.failureNotified = LastNotified(run)
            /\ Commands["alert"] > 0 =>
                 /\ LastNotified(run) # None
                 /\ run.started - LastNotified(run) < NotifyInterval

(* What the last run to be recorded tells the next one. *)
LastRecorded ==
  /\ record.outcome = "failed" <=>
       \E i \in DOMAIN past :
          /\ past[i].recorded /\ past[i].outcome = "failed"
          /\ \A k \in i + 1 .. Len(past) : ~past[k].recorded
  /\ record.failureNotified # None =>
       \E i \in DOMAIN past :
          /\ past[i].alerted = record.failureNotified /\ past[i].recorded
          /\ FailingThroughout(i, Len(past))

(* An alert every run since knew of is on record, or was NotifyInterval    *)
(* ago when the last of them ended.                                        *)
AlertRemembered ==
  \A i \in DOMAIN past :
     /\ past[i].alerted # None
     /\ \A k \in i .. Len(past) : past[k].recorded /\ past[k].outcome = "failed"
     /\ \A k \in i + 1 .. Len(past) : past[k].read
     => \/ record.failureNotified # None /\ past[i].alerted <= record.failureNotified
        \/ /\ record.failureNotified = None /\ record.lastRun # None
           /\ record.lastRun - past[i].alerted >= NotifyInterval

PastInv ==
  /\ LastRecorded /\ AlertRemembered
  /\ FailingSinceStart /\ AlertsApart /\ NoSilentFailure /\ RecoveryAnswersAlert
(* Steps that leave the record and what the run started from alone. *)
LEMMA BegunKept ==
  ASSUME TypeOK, TypeOK', RunBegun, now <= now', record' = record,
         (stage # "idle" /\ stage' # "idle") \/ stage' = stage,
         stage # "prepare" \/ stage' = stage,
         stage' # "prepare" \/ stage' = stage,
         run'.prior = run.prior, run'.read = run.read,
         run'.started = run.started, run'.jobStarted = run.jobStarted
  PROVE  RunBegun'
<1>1. /\ now \in Nat /\ now' \in Nat /\ None \notin Nat
      /\ run.started \in Nat \cup {None} /\ run.jobStarted \in Nat \cup {None}
      /\ record.lastRun \in Nat \cup {None}
  BY JobRunAssumption DEF TypeOK, Results, Records, Times
<1>2. stage' # "idle" =>
       /\ run'.prior = IF run'.read THEN record' ELSE NoRecord
       /\ run'.started # None /\ run'.started <= now'
       /\ run'.prior.lastRun # None => run'.prior.lastRun <= run'.started
  BY <1>1 DEF RunBegun
<1>3. stage' \notin {"idle", "prepare"} =>
       run'.jobStarted # None /\ run'.started <= run'.jobStarted /\ run'.jobStarted <= now'
  BY <1>1 DEF RunBegun
<1>4. record'.lastRun # None => record'.lastRun <= now'
  BY <1>1 DEF RunBegun
<1> QED
  BY <1>2, <1>3, <1>4 DEF RunBegun

(* The run knows what is on record, and its times are in order, at every   *)
(* step: nobody else records the job while it runs, and the clock does not *)
(* go back.                                                                *)
LEMMA BegunStep == TypeOK /\ JobInv /\ RunBegun /\ [Next]_vars => RunBegun'
<1> SUFFICES ASSUME TypeOK, JobInv, RunBegun, [Next]_vars PROVE RunBegun'
  OBVIOUS
<1>a. /\ TypeOK' /\ run \in Results /\ run' \in Results /\ record \in Records
      /\ now \in Nat /\ now' \in Nat /\ None \notin Nat
      /\ run.started \in Nat \cup {None} /\ record.lastRun \in Nat \cup {None}
  BY TypeStep, JobRunAssumption DEF TypeOK, Results, Records, Times
<1>1. CASE Aside
  <2>1. now <= now'
    BY <1>1, <1>a DEF Aside, AdvanceClock, Signal, EndGrace, StartCommand, StartBackup, vars
  <2> QED
    BY <1>1, <1>a, <2>1, AsideStep, BegunKept
<1>2. CASE RefuseCommand \/ EndCommand
  <2>1. /\ run' = run \/ run' = [run EXCEPT !.failedIn = @ \cup {stage}]
        /\ UNCHANGED <<now, stage, record>>
    BY <1>2, CommandStep DEF RefuseCommand, EndCommand
  <2>2. /\ run'.prior = run.prior /\ run'.read = run.read
        /\ run'.started = run.started /\ run'.jobStarted = run.jobStarted
    BY <1>a, <2>1 DEF Results
  <2> QED
    BY <1>a, <2>1, <2>2, BegunKept
<1>3. CASE \/ EndBackup \/ EndForget \/ EndBefore \/ EndRepos \/ EndAlways \/ EndOutcome
           \/ Notify \/ EndRecovery \/ EndReport \/ EndAlert
  <2>1. /\ UNCHANGED <<now, record>>
        /\ stage \notin {"idle", "prepare"} /\ stage' \notin {"idle", "prepare"}
    BY <1>3 DEF EndBackup, EndForget, RepoDone, EndBefore, EndRepos, EndAlways, EndOutcome,
       Notify, EndRecovery, EndReport, EndAlert, Goto, ToNotify
  <2>2. /\ run'.prior = run.prior /\ run'.read = run.read
        /\ run'.started = run.started /\ run'.jobStarted = run.jobStarted
    <3>1. CASE EndBackup \/ EndForget \/ EndBefore \/ EndRepos
      BY <1>a, <3>1 DEF EndBackup, EndForget, RepoDone, EndBefore, EndRepos, Results
    <3>2. CASE EndAlways \/ EndOutcome \/ EndRecovery \/ EndReport \/ EndAlert
      BY <1>a, <3>2 DEF EndAlways, EndOutcome, EndRecovery, EndReport, EndAlert, Results
    <3>3. CASE Notify
      BY <1>a, <3>3 DEF Notify, Results
    <3> QED
      BY <1>3, <3>1, <3>2, <3>3
  <2> QED
    BY <1>a, <2>1, <2>2, BegunKept
<1>4. CASE Prepare
  <2>1. /\ UNCHANGED <<now, record>> /\ stage' = "prepare"
        /\ run'.prior = IF run'.read THEN record ELSE NoRecord
        /\ run'.started = now
    BY <1>4, <1>a DEF Prepare, Goto, NoResult
  <2>2. run'.prior.lastRun # None => run'.prior.lastRun <= now
    BY <2>1 DEF RunBegun, NoRecord
  <2> QED
    BY <1>a, <2>1, <2>2 DEF RunBegun
<1>5. CASE StartJob
  <2>1. /\ UNCHANGED <<now, record>> /\ stage = "prepare" /\ stage' = "before"
        /\ run'.jobStarted = now
        /\ run'.prior = run.prior /\ run'.read = run.read /\ run'.started = run.started
    BY <1>5, <1>a DEF StartJob, Goto, Results
  <2> QED
    BY <1>a, <2>1 DEF RunBegun
<1>6. CASE RecordRun \/ Crash
  <2>1. stage' = "idle" /\ now' = now /\ (record' = record \/ record' = RecordOf(run))
    BY <1>6 DEF RecordRun, Crash, Goto
  <2>2. RecordOf(run).lastRun = now
    BY DEF RecordOf
  <2> QED
    BY <1>a, <2>1, <2>2 DEF RunBegun
<1> QED
  BY <1>1, <1>2, <1>3, <1>4, <1>5, <1>6 DEF Aside, Next, Proceed, End, Terminated

(* The state of the job's failures is what the run started from. *)
LEMMA PriorKept ==
  ASSUME run'.prior = run.prior, run'.jobStarted = run.jobStarted
  PROVE  /\ FailingSince(run)' = FailingSince(run)
         /\ LastNotified(run)' = LastNotified(run)
  BY DEF FailingSince, LastNotified, PriorFailingSince

(* What has been announced stays fitting while nothing but the clock and   *)
(* the commands of the list that runs go on.                               *)
LEMMA AnnouncedKept ==
  ASSUME TypeOK, TypeOK', Announced, now <= now', stage' = stage,
         stage \in Settled => (Success(run)' <=> Success(run)),
         run'.prior = run.prior, run'.started = run.started,
         run'.jobStarted = run.jobStarted, run'.ran = run.ran,
         run'.failingSince = run.failingSince, run'.alerted = run.alerted,
         run'.failureNotified = run.failureNotified
  PROVE  Announced'
<1>1. /\ now \in Nat /\ now' \in Nat /\ None \notin Nat /\ NotifyInterval \in Nat
      /\ LastNotified(run) \in Nat \cup {None} /\ run.alerted \in Nat \cup {None}
  BY JobRunAssumption DEF TypeOK, Results, Records, Times, LastNotified
<1>2. FailingSince(run)' = FailingSince(run) /\ LastNotified(run)' = LastNotified(run)
  BY PriorKept
<1>3. Waited(now) => Waited(now)'
  BY <1>1, <1>2 DEF Waited
<1>4. Waited(run.alerted) => Waited(run.alerted)'
  BY <1>2 DEF Waited
<1>5. run.alerted # None /\ run.alerted <= now => run'.alerted <= now'
  BY <1>1
<1>6. CASE stage \notin {"record"} \cup Notifications
  BY <1>6 DEF Announced, Notifications
<1>7. CASE stage = "alert"
  BY <1>2, <1>3, <1>7, StageKinds DEF Announced, Notifications
<1>8. CASE stage \in {"recovery", "report"}
  BY <1>8, StageKinds DEF Announced, Notifications
<1>9. CASE stage = "record"
  <2>1. Success(run)' <=> Success(run)
    BY <1>9, StageKinds
  <2>2. CASE Success(run)
    BY <1>9, <2>1, <2>2 DEF Announced, Notifications
  <2>3. CASE ~Success(run)
    BY <1>2, <1>3, <1>4, <1>5, <1>9, <2>1, <2>3 DEF Announced, Notifications
  <2> QED
    BY <2>2, <2>3
<1> QED
  BY <1>6, <1>7, <1>8, <1>9 DEF Notifications

(* Every step keeps the announcements fitting: which are due is decided    *)
(* once (notify), and by the alerts that were sent before the run.         *)
LEMMA AnnouncedStep ==
  TypeOK /\ JobInv /\ RunBegun /\ Announced /\ [Next]_vars => Announced'
<1> SUFFICES ASSUME TypeOK, JobInv, RunBegun, Announced, [Next]_vars PROVE Announced'
  OBVIOUS
<1>a. /\ TypeOK' /\ run \in Results /\ run' \in Results
      /\ now \in Nat /\ now' \in Nat /\ None \notin Nat /\ NotifyInterval \in Nat
      /\ run.started \in Nat \cup {None}
      /\ LastNotified(run) \in Nat \cup {None}
  BY TypeStep, JobRunAssumption DEF TypeOK, Results, Records, Times, LastNotified
<1>1. CASE Aside
  <2>1. now <= now'
    BY <1>1, <1>a DEF Aside, AdvanceClock, Signal, EndGrace, StartCommand, StartBackup, vars
  <2>2. UNCHANGED <<stage, run>>
    BY <1>1, AsideStep
  <2>3. Success(run)' <=> Success(run)
    BY <2>2 DEF Success
  <2> QED
    BY <1>a, <2>1, <2>2, <2>3, AnnouncedKept
<1>2. CASE RefuseCommand \/ EndCommand
  <2>1. /\ run' = run \/ run' = [run EXCEPT !.failedIn = @ \cup {stage}]
        /\ UNCHANGED <<now, stage>> /\ stage \in Lists
        /\ run'.repos = run.repos /\ run'.interrupted = run.interrupted
    BY <1>2, CommandStep DEF RefuseCommand, EndCommand
  <2>2. /\ run'.prior = run.prior /\ run'.started = run.started
        /\ run'.jobStarted = run.jobStarted /\ run'.ran = run.ran
        /\ run'.failingSince = run.failingSince /\ run'.alerted = run.alerted
        /\ run'.failureNotified = run.failureNotified
        /\ run'.failedIn = run.failedIn \/ run'.failedIn = run.failedIn \cup {stage}
    BY <1>a, <2>1 DEF Results
  <2>3. stage \in Settled => (Success(run)' <=> Success(run))
    <3> SUFFICES ASSUME stage \in Settled PROVE Success(run') <=> Success(run)
      BY DEF Success
    <3>1. stage \in Lists \ {"before", "always"}
      BY <2>1, StageKinds
    <3> QED
      BY <1>a, <2>1, <2>2, <3>1, SuccessKept
  <2> QED
    BY <1>a, <2>1, <2>2, <2>3, AnnouncedKept
<1>3. CASE EndBackup \/ EndForget \/ EndBefore \/ EndRepos \/ EndAlways \/ EndOutcome \/ StartJob
  <2>1. /\ stage \notin {"record"} \cup Notifications
        /\ stage' \notin {"record"} \cup Notifications
    BY <1>3 DEF EndBackup, EndForget, RepoDone, EndBefore, EndRepos, EndAlways, EndOutcome,
       StartJob, Goto, Notifications
  <2>2. run'.ran \cap Notifications = {} /\ run'.alerted = None
    <3>1. run.ran \cap Notifications = {} /\ run.alerted = None
      BY <2>1 DEF Announced
    <3>2. CASE EndBackup \/ EndForget \/ EndBefore \/ EndRepos \/ EndOutcome \/ StartJob
      BY <1>a, <3>1, <3>2 DEF EndBackup, EndForget, RepoDone, EndBefore, EndRepos, EndOutcome,
         StartJob, Results
    <3>3. CASE EndAlways
      BY <1>a, <3>1, <3>3 DEF EndAlways, Results, Notifications
    <3> QED
      BY <1>3, <3>2, <3>3
  <2> QED
    BY <2>1, <2>2 DEF Announced, Notifications
<1>4. CASE Prepare \/ RecordRun \/ Crash
  <2>1. stage' \in {"prepare", "idle"}
    BY <1>4 DEF Prepare, RecordRun, Crash, Goto
  <2>2. run'.ran = {} /\ run'.alerted = None
    <3>1. CASE Prepare
      BY <3>1 DEF Prepare, NoResult
    <3>2. CASE RecordRun \/ Crash
      <4>1. run' = NoResult
        BY <3>2 DEF RecordRun, Crash
      <4> QED
        BY <4>1 DEF NoResult
    <3> QED
      BY <1>4, <3>1, <3>2
  <2> QED
    BY <2>1, <2>2 DEF Announced, Notifications
<1>5. CASE Notify
  <2>1. run.ran \cap Notifications = {} /\ run.alerted = None /\ stage = "notify"
    BY <1>5 DEF Notify, Announced, Notifications
  <2>2. /\ run'.prior = run.prior /\ run'.jobStarted = run.jobStarted
        /\ run'.started = run.started /\ run'.alerted = None
        /\ Success(run)' <=> Success(run)
        /\ now' = now /\ stage' = ToNotify(run)
    BY <1>5, <1>a, <2>1 DEF Notify, Results, Success, Goto
  <2>3. FailingSince(run)' = FailingSince(run) /\ LastNotified(run)' = LastNotified(run)
    BY <2>2, PriorKept
  <2>4. CASE Success(run)
    <3>1. run'.ran = run.ran \cup {ToNotify(run)}
      BY <1>5, <1>a, <2>4 DEF Notify, Results
    <3>2. ToNotify(run) = IF run.prior.outcome = "failed" THEN "recovery" ELSE "report"
      BY <2>4 DEF ToNotify
    <3>3. stage' \in {"recovery", "report"}
      BY <2>2, <3>2
    <3>4. "recovery" \in run'.ran <=> run.prior.outcome = "failed"
      BY <2>1, <3>1, <3>2 DEF Notifications
    <3> QED
      BY <2>2, <2>4, <3>3, <3>4 DEF Announced, Notifications
  <2>5. CASE ~Success(run)
    <3>1. /\ run'.failingSince = FailingSince(run)
          /\ run'.failureNotified = LastNotified(run)
          /\ run'.ran = run.ran \cup ({ToNotify(run)} \cap Lists)
      BY <1>5, <1>a, <2>5 DEF Notify, Results
    <3>2. CASE AlertDue(run)
      <4>1. stage' = "alert" /\ "alert" \in run'.ran
        BY <2>2, <2>5, <3>1, <3>2 DEF ToNotify, Lists
      <4>2. Waited(now)'
        BY <2>2, <2>3, <3>2 DEF Waited, AlertDue
      <4> QED
        BY <2>2, <2>3, <2>5, <3>1, <4>1, <4>2 DEF Announced, Notifications
    <3>3. CASE ~AlertDue(run)
      <4>1. stage' = "record" /\ run'.ran = run.ran
        BY <2>2, <2>5, <3>1, <3>3 DEF ToNotify, Lists
      <4>2. "alert" \notin run'.ran
        BY <2>1, <4>1 DEF Notifications
      <4>3. run.started # None /\ run.started <= now
        BY <2>1 DEF RunBegun
      <4>4. Commands["alert"] > 0 =>
              LastNotified(run) # None /\ run.started - LastNotified(run) < NotifyInterval
        BY <1>a, <3>3, <4>3 DEF AlertDue
      <4> QED
        BY <2>2, <2>3, <2>5, <3>1, <4>1, <4>2, <4>4 DEF Announced, Notifications
    <3> QED
      BY <3>2, <3>3
  <2> QED
    BY <2>4, <2>5
<1>6. CASE EndRecovery \/ EndReport
  <2>1. /\ stage \in {"recovery", "report"} /\ stage' \in {"report", "record"}
        /\ Success(run) /\ run.alerted = None
        /\ "recovery" \in run.ran <=> run.prior.outcome = "failed"
    BY <1>6 DEF EndRecovery, EndReport, Announced, Goto
  <2>2. /\ run'.prior = run.prior /\ run'.alerted = run.alerted
        /\ run'.ran = run.ran \/ run'.ran = run.ran \cup {"report"}
        /\ Success(run)' <=> Success(run)
    BY <1>6, <1>a DEF EndRecovery, EndReport, Results, Success
  <2> QED
    BY <2>1, <2>2 DEF Announced, Notifications
<1>7. CASE EndAlert
  <2>1. /\ stage = "alert" /\ stage' = "record" /\ now' = now
        /\ ~Success(run) /\ "alert" \in run.ran /\ Waited(now)
        /\ run.failingSince = FailingSince(run)
    BY <1>7 DEF EndAlert, Announced, Goto
  <2>2. /\ run'.prior = run.prior /\ run'.jobStarted = run.jobStarted
        /\ run'.started = run.started /\ run'.ran = run.ran
        /\ run'.failingSince = run.failingSince
        /\ run'.failureNotified = run'.alerted
        /\ run'.alerted = now \/ run'.alerted = None
        /\ Success(run)' <=> Success(run)
    BY <1>7, <1>a DEF EndAlert, Results, Success
  <2>3. FailingSince(run)' = FailingSince(run) /\ LastNotified(run)' = LastNotified(run)
    BY <2>2, PriorKept
  <2>4. Waited(now)' /\ (run'.alerted # None => Waited(run.alerted)')
    BY <2>1, <2>2, <2>3 DEF Waited
  <2>5. run.started # None /\ run.started <= now /\ now <= now
    BY <1>a, <2>1 DEF RunBegun
  <2> QED
    BY <2>1, <2>2, <2>3, <2>4, <2>5 DEF Announced, Notifications
<1> QED
  BY <1>1, <1>2, <1>3, <1>4, <1>5, <1>6, <1>7 DEF Aside, Next, Proceed, End, Terminated
-----------------------------------------------------------------------------
(* One more execution has ended.                                           *)

(* How an execution ends: recorded, or with the record as it was. *)
Ends(outcome, recorded) ==
  /\ stage # "idle"
  /\ Remember(outcome, recorded)
  /\ outcome = "killed" \/ (stage = "record" /\ outcome = Outcome(run))
  /\ IF recorded THEN outcome # "killed" /\ record' = RecordOf(run) ELSE record' = record

(* The entry comes after those that were there. *)
LEMMA Longer ==
  ASSUME TypeOK, NEW outcome, NEW recorded, Remember(outcome, recorded)
  PROVE  /\ Len(past) \in Nat /\ DOMAIN past = 1 .. Len(past)
         /\ Len(past') = Len(past) + 1 /\ DOMAIN past' = 1 .. Len(past) + 1
         /\ \A i \in 1 .. Len(past) : past'[i] = past[i]
         /\ LET e == past'[Len(past) + 1] IN
            /\ e.outcome = outcome /\ e.recorded = recorded
            /\ e.started = run.started /\ e.finished = now
            /\ e.ran = run.ran /\ e.alerted = run.alerted /\ e.read = run.read
<1> DEFINE entry == [outcome |-> outcome, started |-> run.started, finished |-> now,
                     ran |-> run.ran, alerted |-> run.alerted,
                     read |-> run.read, recorded |-> recorded]
<1>1. past \in Seq(Entries) /\ past' = Append(past, entry)
  BY DEF TypeOK, Remember
<1>2. /\ entry.outcome = outcome /\ entry.recorded = recorded
      /\ entry.started = run.started /\ entry.finished = now
      /\ entry.ran = run.ran /\ entry.alerted = run.alerted /\ entry.read = run.read
  OBVIOUS
<1> HIDE DEF entry
<1>3. /\ Len(past) \in Nat /\ DOMAIN past = 1 .. Len(past)
      /\ Len(past') = Len(past) + 1 /\ DOMAIN past' = 1 .. Len(past) + 1
      /\ \A i \in 1 .. Len(past) : past'[i] = past[i]
      /\ past'[Len(past) + 1] = entry
  BY <1>1
<1> QED
  BY <1>2, <1>3

(* A run of failures goes on unless a success is recorded. *)
LEMMA LongerThroughout ==
  ASSUME TypeOK, NEW outcome, NEW recorded, Remember(outcome, recorded),
         NEW i \in 1 .. Len(past)
  PROVE  /\ \A j \in 1 .. Len(past) : FailingThroughout(i, j)' <=> FailingThroughout(i, j)
         /\ FailingThroughout(i, Len(past))' <=>
              FailingThroughout(i, Len(past)) /\ (recorded => outcome = "failed")
<1> DEFINE n == Len(past)
<1>1. /\ n \in Nat /\ \A k \in 1 .. n : past'[k] = past[k]
      /\ past'[n + 1].recorded = recorded /\ past'[n + 1].outcome = outcome
  BY Longer
<1>2. ASSUME NEW j \in 1 .. n
      PROVE  FailingThroughout(i, j)' <=> FailingThroughout(i, j)
  <2>1. \A k \in i .. j : past'[k] = past[k]
    BY <1>1
  <2> QED
    BY <2>1 DEF FailingThroughout
<1>3. FailingThroughout(i, Len(past))' <=> \A k \in i .. n + 1 :
                                          past'[k].recorded => past'[k].outcome = "failed"
  <2>1. Len(past') = n + 1
    BY Longer
  <2> QED
    BY <2>1 DEF FailingThroughout
<1>4. i .. n + 1 = (i .. n) \cup {n + 1} /\ \A k \in i .. n : past'[k] = past[k]
  BY <1>1
<1> QED
  BY <1>1, <1>2, <1>3, <1>4 DEF FailingThroughout
(* What an entry is made of. *)
LEMMA EndsWith ==
  ASSUME TypeOK, JobInv, RunBegun, Announced,
         NEW outcome, NEW recorded \in BOOLEAN, Ends(outcome, recorded)
  PROVE  /\ Remember(outcome, recorded)
         /\ run.read \in BOOLEAN
         /\ run.read => run.prior = record
         /\ ~run.read => run.prior.outcome # "failed" /\ LastNotified(run) = None
         /\ run.started \in Nat /\ now \in Nat /\ None \notin Nat /\ NotifyInterval \in Nat
         /\ run.prior.lastRun # None => run.prior.lastRun <= run.started
         /\ outcome \in {"success", "failed", "killed"}
         /\ outcome # "killed" => stage = "record" /\ (outcome = "success" <=> Success(run))
         /\ recorded => outcome # "killed" /\ record'.outcome = outcome /\ record'.lastRun = now
         /\ recorded /\ outcome = "success" =>
              record'.failingSince = None /\ record'.failureNotified = None
         /\ recorded /\ outcome = "failed" =>
              /\ record'.failingSince = run.failingSince
              /\ record'.failureNotified = run.failureNotified
         /\ ~recorded => record' = record
<1>1. /\ run \in Results /\ now \in Nat /\ None \notin Nat /\ NotifyInterval \in Nat
      /\ run.started \in Nat \cup {None}
  BY JobRunAssumption DEF TypeOK, Results, Times
<1>2. /\ Remember(outcome, recorded) /\ stage # "idle"
      /\ outcome = "killed" \/ (stage = "record" /\ outcome = Outcome(run))
      /\ IF recorded THEN outcome # "killed" /\ record' = RecordOf(run) ELSE record' = record
  BY DEF Ends
<1>3. /\ run.prior = IF run.read THEN record ELSE NoRecord
      /\ run.started # None
      /\ run.prior.lastRun # None => run.prior.lastRun <= run.started
  BY <1>2 DEF RunBegun
<1>4. NoRecord.outcome # "failed" /\ run.read \in BOOLEAN
  BY <1>1 DEF NoRecord, Results
<1>5. outcome # "killed" => stage = "record" /\ (outcome = "success" <=> Success(run))
                            /\ outcome \in {"success", "failed"}
  BY <1>2 DEF Outcome
<1>6. recorded => record'.outcome = outcome /\ record'.lastRun = now
  BY <1>2 DEF RecordOf
<1>7. recorded => /\ record'.failingSince = IF Success(run) THEN None ELSE run.failingSince
                  /\ record'.failureNotified = IF Success(run) THEN None ELSE run.failureNotified
  BY <1>2 DEF RecordOf
<1>8. ~run.read => run.prior.outcome # "failed" /\ LastNotified(run) = None
  BY <1>3, <1>4 DEF LastNotified
<1> QED
  BY <1>1, <1>2, <1>3, <1>4, <1>5, <1>6, <1>7, <1>8

(* A delivered alert is that of a failed run, which waited for it. *)
LEMMA AlertedRun ==
  ASSUME TypeOK, RunBegun, Announced, stage # "idle", run.alerted # None
  PROVE  /\ stage = "record" /\ ~Success(run) /\ "alert" \in run.ran
         /\ run.failureNotified = run.alerted /\ run.alerted \in Nat
         /\ run.started <= run.alerted /\ run.alerted <= now /\ Waited(run.alerted)
<1>1. stage = "record" /\ ~Success(run)
  BY DEF Announced, Notifications
<1>2. "alert" \in run.ran
  BY <1>1 DEF Announced
<1>3. run.alerted \in Nat
  BY JobRunAssumption DEF TypeOK, Results, Times
<1> QED
  BY <1>1, <1>2, <1>3 DEF Announced

(* The record goes on telling how the last recorded run came out. *)
LEMMA LastRecordedEnds ==
  ASSUME TypeOK, JobInv, RunBegun, Announced, PastInv,
         NEW outcome, NEW recorded \in BOOLEAN, Ends(outcome, recorded)
  PROVE  LastRecorded'
<1> DEFINE n == Len(past)
<1>a. /\ n \in Nat /\ DOMAIN past = 1 .. n /\ DOMAIN past' = 1 .. n + 1 /\ Len(past') = n + 1
      /\ \A k \in 1 .. n : past'[k] = past[k]
      /\ past'[n + 1].outcome = outcome /\ past'[n + 1].recorded = recorded
      /\ past'[n + 1].alerted = run.alerted
  BY Longer, EndsWith
<1>b. LastRecorded /\ FailingSinceStart
  BY DEF PastInv
<1> DEFINE Last(i) == /\ past[i].recorded /\ past[i].outcome = "failed"
                      /\ \A k \in i + 1 .. n : ~past[k].recorded
           NewLast(i) == /\ past'[i].recorded /\ past'[i].outcome = "failed"
                         /\ \A k \in i + 1 .. n + 1 : ~past'[k].recorded
<1>1. ASSUME NEW i \in 1 .. n PROVE NewLast(i) <=> Last(i) /\ ~recorded
  <2>1. i + 1 .. n + 1 = (i + 1 .. n) \cup {n + 1} /\ \A k \in i + 1 .. n : k \in 1 .. n
    BY <1>a
  <2> QED
    BY <1>a, <2>1
<1>2. NewLast(n + 1) <=> recorded /\ outcome = "failed"
  BY <1>a
<1>3. record'.outcome = "failed" <=> \E i \in 1 .. n + 1 : NewLast(i)
  <2>1. 1 .. n + 1 = (1 .. n) \cup {n + 1}
    BY <1>a
  <2>2. record.outcome = "failed" <=> \E i \in 1 .. n : Last(i)
    BY <1>a, <1>b DEF LastRecorded
  <2>3. CASE recorded
    <3>1. record'.outcome = outcome
      BY <2>3, EndsWith
    <3> HIDE DEF Last, NewLast
    <3> QED
      BY <1>1, <1>2, <2>1, <2>3, <3>1
  <2>4. CASE ~recorded
    <3>1. record' = record
      BY <2>4, EndsWith
    <3> HIDE DEF Last, NewLast
    <3> QED
      BY <1>1, <1>2, <2>1, <2>2, <2>4, <3>1
  <2> QED
    BY <2>3, <2>4
<1>4. ASSUME record'.failureNotified # None
      PROVE  \E i \in DOMAIN past' :
                /\ past'[i].alerted = record'.failureNotified /\ past'[i].recorded
                /\ FailingThroughout(i, Len(past))'
  <2>1. CASE recorded /\ outcome = "failed" /\ run.alerted # None
    <3>1. record'.failureNotified = run.alerted
      BY <2>1, EndsWith, AlertedRun DEF Ends
    <3>2. \A k \in n + 1 .. n + 1 : past'[k].recorded => past'[k].outcome = "failed"
      BY <1>a, <2>1
    <3>3. \A k \in n + 1 .. Len(past') : past'[k].recorded => past'[k].outcome = "failed"
      BY <1>a, <3>2
    <3>4. n + 1 \in DOMAIN past' /\ past'[n + 1].recorded
          /\ past'[n + 1].alerted = record'.failureNotified
      BY <1>a, <2>1, <3>1
    <3> HIDE DEF n
    <3> QED
      BY <3>3, <3>4 DEF FailingThroughout
  <2>2. CASE ~recorded \/ (outcome = "failed" /\ run.alerted = None)
    <3>1. /\ record.failureNotified = record'.failureNotified
          /\ recorded => outcome = "failed"
      <4>1. CASE ~recorded
        BY <4>1, EndsWith
      <4>2. CASE recorded /\ outcome = "failed" /\ run.alerted = None
        <5>1. /\ stage = "record" /\ ~Success(run)
              /\ record'.failureNotified = run.failureNotified
          BY <4>2, EndsWith
        <5>2. run.failureNotified = LastNotified(run)
          BY <1>4, <4>2, <5>1 DEF Announced
        <5>3. run.read /\ run.prior = record
          BY <1>4, <5>1, <5>2, EndsWith
        <5> QED
          BY <1>4, <4>2, <5>1, <5>2, <5>3 DEF LastNotified
      <4> QED
        BY <2>2, <4>1, <4>2
    <3>2. PICK i \in 1 .. n :
            /\ past[i].alerted = record.failureNotified /\ past[i].recorded
            /\ FailingThroughout(i, Len(past))
      BY <1>4, <1>a, <1>b, <3>1 DEF LastRecorded
    <3>3. FailingThroughout(i, Len(past))'
      BY <3>1, <3>2, LongerThroughout, EndsWith
    <3>4. i \in DOMAIN past' /\ past'[i] = past[i]
      BY <1>a
    <3> QED
      BY <3>1, <3>2, <3>3, <3>4
  <2>3. recorded => outcome = "failed"
    BY <1>4, EndsWith
  <2> QED
    BY <2>1, <2>2, <2>3
<1> QED
  BY <1>3, <1>4, <1>a DEF LastRecorded
(* What a run that knows of an alert does about the next one. *)
LEMMA AlertKnown ==
  ASSUME TypeOK, JobInv, RunBegun, Announced, PastInv,
         NEW outcome, NEW recorded \in BOOLEAN, Ends(outcome, recorded), run.read,
         NEW i \in 1 .. Len(past), past[i].alerted # None,
         \A k \in i .. Len(past) : past[k].recorded /\ past[k].outcome = "failed",
         \A k \in i + 1 .. Len(past) : past[k].read
  PROVE  /\ past[i].alerted \in Nat
         /\ LastNotified(run) \in Nat \cup {None}
         /\ LastNotified(run) # None => past[i].alerted <= LastNotified(run)
         /\ LastNotified(run) = None => run.started - past[i].alerted >= NotifyInterval
<1>1. past[i].alerted \in Nat
  <2>1. past[i] \in Entries
    BY DEF TypeOK
  <2> QED
    BY <2>1, JobRunAssumption DEF Entries, Times
<1>2. /\ record.lastRun \in Nat \cup {None} /\ record.failureNotified \in Nat \cup {None}
      /\ None \notin Nat
  BY JobRunAssumption DEF TypeOK, Records, Times
<1>3. \/ record.failureNotified # None /\ past[i].alerted <= record.failureNotified
      \/ /\ record.failureNotified = None /\ record.lastRun # None
         /\ record.lastRun - past[i].alerted >= NotifyInterval
  <2>1. i \in DOMAIN past
    BY Longer, EndsWith
  <2> QED
    BY <2>1 DEF PastInv, AlertRemembered
<1>4. /\ run.prior = record /\ run.started \in Nat /\ NotifyInterval \in Nat
      /\ record.lastRun # None => record.lastRun <= run.started
  BY EndsWith
<1>5. LastNotified(run) = record.failureNotified
  BY <1>4 DEF LastNotified, PastInv, FailingSinceStart
<1> QED
  BY <1>1, <1>2, <1>3, <1>4, <1>5

(* Alerts stay remembered. *)
LEMMA AlertRememberedEnds ==
  ASSUME TypeOK, JobInv, RunBegun, Announced, PastInv,
         NEW outcome, NEW recorded \in BOOLEAN, Ends(outcome, recorded)
  PROVE  AlertRemembered'
<1> DEFINE n == Len(past)
<1>a. /\ n \in Nat /\ DOMAIN past' = 1 .. n + 1 /\ Len(past') = n + 1
      /\ \A k \in 1 .. n : past'[k] = past[k]
      /\ past'[n + 1].outcome = outcome /\ past'[n + 1].recorded = recorded
      /\ past'[n + 1].alerted = run.alerted /\ past'[n + 1].read = run.read
  BY Longer, EndsWith
<1> SUFFICES ASSUME NEW i \in 1 .. n + 1, past'[i].alerted # None,
                    \A k \in i .. n + 1 : past'[k].recorded /\ past'[k].outcome = "failed",
                    \A k \in i + 1 .. n + 1 : past'[k].read
             PROVE  \/ /\ record'.failureNotified # None
                       /\ past'[i].alerted <= record'.failureNotified
                    \/ /\ record'.failureNotified = None /\ record'.lastRun # None
                       /\ record'.lastRun - past'[i].alerted >= NotifyInterval
  BY <1>a DEF AlertRemembered
<1>1. recorded /\ outcome = "failed"
  BY <1>a
<1>2. /\ stage = "record" /\ ~Success(run)
      /\ record'.failureNotified = run.failureNotified /\ record'.lastRun = now
      /\ now \in Nat /\ None \notin Nat /\ run.started \in Nat /\ NotifyInterval \in Nat
      /\ run.started <= now
  BY <1>1, EndsWith DEF RunBegun
<1>3. CASE i = n + 1
  <2>1. run.alerted # None /\ past'[i].alerted = run.alerted
    BY <1>3, <1>a
  <2> QED
    BY <2>1, <1>2, AlertedRun
<1>4. CASE i # n + 1
  <2>1. i \in 1 .. n /\ past'[i] = past[i] /\ run.read
    BY <1>4, <1>a
  <2>2. /\ past[i].alerted # None
        /\ \A k \in i .. n : past[k].recorded /\ past[k].outcome = "failed"
        /\ \A k \in i + 1 .. n : past[k].read
    <3>1. \A k \in i .. n : k \in i .. n + 1 /\ past'[k] = past[k]
      BY <1>a
    <3>2. \A k \in i + 1 .. n : k \in i + 1 .. n + 1 /\ past'[k] = past[k]
      BY <1>a
    <3> QED
      BY <2>1, <3>1, <3>2
  <2>3. /\ past[i].alerted \in Nat
        /\ LastNotified(run) \in Nat \cup {None}
        /\ LastNotified(run) # None => past[i].alerted <= LastNotified(run)
        /\ LastNotified(run) = None => run.started - past[i].alerted >= NotifyInterval
    BY <2>1, <2>2, AlertKnown
  <2>4. CASE "alert" \in run.ran /\ run.alerted # None
    <3>1. /\ run.failureNotified = run.alerted /\ run.alerted \in Nat
          /\ run.started <= run.alerted /\ Waited(run.alerted)
      BY <1>2, <2>4, AlertedRun
    <3> QED
      BY <1>2, <2>1, <2>3, <3>1 DEF Waited
  <2>5. CASE "alert" \in run.ran /\ run.alerted = None
    <3>1. run.failureNotified = None /\ Waited(now)
      BY <1>2, <2>5 DEF Announced
    <3> QED
      BY <1>2, <2>1, <2>3, <3>1 DEF Waited
  <2>6. CASE "alert" \notin run.ran
    <3>1. run.failureNotified = LastNotified(run)
      BY <1>2, <2>6 DEF Announced
    <3> QED
      BY <1>2, <2>1, <2>3, <3>1
  <2> QED
    BY <2>4, <2>5, <2>6
<1> QED
  BY <1>3, <1>4

(* Alerts stay apart. *)
LEMMA AlertsApartEnds ==
  ASSUME TypeOK, JobInv, RunBegun, Announced, PastInv,
         NEW outcome, NEW recorded \in BOOLEAN, Ends(outcome, recorded)
  PROVE  AlertsApart'
<1> DEFINE n == Len(past)
<1>a. /\ n \in Nat /\ DOMAIN past = 1 .. n /\ DOMAIN past' = 1 .. n + 1 /\ Len(past') = n + 1
      /\ \A k \in 1 .. n : past'[k] = past[k]
      /\ past'[n + 1].alerted = run.alerted /\ past'[n + 1].read = run.read
  BY Longer, EndsWith
<1> SUFFICES ASSUME NEW i \in 1 .. n + 1, NEW j \in 1 .. n + 1, i < j,
                    past'[i].alerted # None, past'[j].alerted # None,
                    FailingThroughout(i, j)',
                    \A k \in i .. j - 1 : past'[k].recorded,
                    \A k \in i + 1 .. j : past'[k].read
             PROVE  past'[j].alerted - past'[i].alerted >= NotifyInterval
  BY <1>a DEF AlertsApart
<1>1. i \in 1 .. n /\ past'[i] = past[i]
  BY <1>a
<1>2. CASE j \in 1 .. n
  <2>1. past'[j] = past[j] /\ FailingThroughout(i, j)
    BY <1>1, <1>2, <1>a, LongerThroughout, EndsWith
  <2>2. (\A k \in i .. j - 1 : past[k].recorded) /\ (\A k \in i + 1 .. j : past[k].read)
    <3>1. \A k \in i .. j : past'[k] = past[k]
      BY <1>1, <1>2, <1>a
    <3> QED
      BY <3>1, <1>1, <1>2
  <2> QED
    BY <1>1, <1>2, <1>a, <2>1, <2>2 DEF PastInv, AlertsApart
<1>3. CASE j = n + 1
  <2>1. \A k \in i .. n : k \in i .. j - 1 /\ k \in i .. j /\ past'[k] = past[k]
    BY <1>1, <1>3, <1>a
  <2>2. \A k \in i .. n : past[k].recorded /\ past[k].outcome = "failed"
    <3>1. \A k \in i .. j : past'[k].recorded => past'[k].outcome = "failed"
      BY DEF FailingThroughout
    <3> QED
      BY <2>1, <3>1
  <2>3. \A k \in i + 1 .. n : past[k].read
    <3>1. \A k \in i + 1 .. n : k \in i + 1 .. j /\ past'[k] = past[k]
      BY <1>1, <1>3, <1>a
    <3> QED
      BY <3>1
  <2>4. run.read /\ run.alerted # None
    BY <1>1, <1>3, <1>a
  <2>5. /\ past[i].alerted \in Nat
        /\ LastNotified(run) \in Nat \cup {None}
        /\ LastNotified(run) # None => past[i].alerted <= LastNotified(run)
        /\ LastNotified(run) = None => run.started - past[i].alerted >= NotifyInterval
    BY <1>1, <2>2, <2>3, <2>4, AlertKnown
  <2>6. /\ run.alerted \in Nat /\ run.started <= run.alerted /\ Waited(run.alerted)
        /\ run.started \in Nat /\ NotifyInterval \in Nat
    BY <2>4, AlertedRun, EndsWith DEF Ends
  <2> QED
    BY <1>1, <1>3, <1>a, <2>5, <2>6 DEF Waited
<1> QED
  BY <1>2, <1>3

(* Nobody keeps quiet for longer than they should. *)
LEMMA NoSilentFailureEnds ==
  ASSUME TypeOK, JobInv, RunBegun, Announced, PastInv,
         NEW outcome, NEW recorded \in BOOLEAN, Ends(outcome, recorded)
  PROVE  NoSilentFailure'
<1> DEFINE n == Len(past)
<1>a. /\ n \in Nat /\ DOMAIN past = 1 .. n /\ DOMAIN past' = 1 .. n + 1 /\ Len(past') = n + 1
      /\ \A k \in 1 .. n : past'[k] = past[k]
      /\ past'[n + 1].outcome = outcome /\ past'[n + 1].recorded = recorded
      /\ past'[n + 1].started = run.started /\ past'[n + 1].ran = run.ran
  BY Longer, EndsWith
<1> SUFFICES ASSUME Commands["alert"] > 0, NEW j \in 1 .. n + 1,
                    past'[j].outcome = "failed", "failure" \in past'[j].ran,
                    "alert" \notin past'[j].ran
             PROVE  \E i \in 1 .. j - 1 :
                       /\ past'[i].alerted # None /\ past'[i].recorded
                       /\ FailingThroughout(i, j)'
                       /\ past'[j].started - past'[i].alerted < NotifyInterval
  BY <1>a DEF NoSilentFailure
<1>1. CASE j \in 1 .. n
  <2>1. past'[j] = past[j]
    BY <1>1, <1>a
  <2>2. PICK i \in 1 .. j - 1 :
          /\ past[i].alerted # None /\ past[i].recorded
          /\ FailingThroughout(i, j)
          /\ past[j].started - past[i].alerted < NotifyInterval
    BY <1>1, <1>a, <2>1 DEF PastInv, NoSilentFailure
  <2>3. i \in 1 .. n /\ past'[i] = past[i]
    BY <1>1, <1>a
  <2>4. FailingThroughout(i, j)'
    BY <1>1, <2>2, <2>3, LongerThroughout, EndsWith
  <2> QED
    BY <2>1, <2>2, <2>3, <2>4
<1>2. CASE j = n + 1
  <2>1. outcome = "failed" /\ "alert" \notin run.ran
    BY <1>2, <1>a
  <2>2. /\ stage = "record" /\ ~Success(run)
    BY <2>1, EndsWith
  <2>3. LastNotified(run) # None /\ run.started - LastNotified(run) < NotifyInterval
    BY <2>1, <2>2 DEF Announced
  <2>4. run.prior = record /\ LastNotified(run) = record.failureNotified
    <3>1. run.read
      BY <2>3, EndsWith
    <3> QED
      BY <2>3, <3>1, EndsWith DEF LastNotified
  <2>5. PICK i \in 1 .. n :
          /\ past[i].alerted = record.failureNotified /\ past[i].recorded
          /\ FailingThroughout(i, Len(past))
    BY <1>a, <2>3, <2>4 DEF PastInv, LastRecorded
  <2>6. FailingThroughout(i, Len(past))'
    BY <2>1, <2>5, LongerThroughout, EndsWith
  <2>7. FailingThroughout(i, j)'
    <3>1. \A k \in i .. Len(past') : past'[k].recorded => past'[k].outcome = "failed"
      BY <2>6 DEF FailingThroughout
    <3>2. Len(past') = j
      BY <1>2, <1>a
    <3> QED
      BY <3>1, <3>2 DEF FailingThroughout
  <2>8. i \in 1 .. j - 1 /\ past'[i] = past[i] /\ past'[j].started = run.started
    BY <1>2, <1>a
  <2> QED
    BY <2>3, <2>4, <2>5, <2>7, <2>8
<1> QED
  BY <1>1, <1>2

(* Recoveries go on answering the failure before them. *)
LEMMA RecoveryEnds ==
  ASSUME TypeOK, JobInv, RunBegun, Announced, PastInv,
         NEW outcome, NEW recorded \in BOOLEAN, Ends(outcome, recorded)
  PROVE  RecoveryAnswersAlert'
<1> DEFINE n == Len(past)
<1>a. /\ n \in Nat /\ DOMAIN past = 1 .. n /\ DOMAIN past' = 1 .. n + 1 /\ Len(past') = n + 1
      /\ \A k \in 1 .. n : past'[k] = past[k]
      /\ past'[n + 1].outcome = outcome /\ past'[n + 1].read = run.read
      /\ past'[n + 1].ran = run.ran
  BY Longer, EndsWith
<1> DEFINE Answered(i, j) == /\ past[i].recorded /\ past[i].outcome = "failed"
                             /\ \A k \in i + 1 .. j - 1 : ~past[k].recorded
           NewAnswered(i, j) == /\ past'[i].recorded /\ past'[i].outcome = "failed"
                                /\ \A k \in i + 1 .. j - 1 : ~past'[k].recorded
<1> SUFFICES ASSUME NEW j \in 1 .. n + 1, past'[j].outcome = "success", past'[j].read
             PROVE  ("recovery" \in past'[j].ran) <=> \E i \in 1 .. j - 1 : NewAnswered(i, j)
  BY <1>a DEF RecoveryAnswersAlert
<1>1. ASSUME NEW i \in 1 .. j - 1 PROVE NewAnswered(i, j) <=> Answered(i, j)
  <2>1. i \in 1 .. n /\ \A k \in i + 1 .. j - 1 : k \in 1 .. n
    BY <1>a
  <2> QED
    BY <1>a, <2>1
<1>2. CASE j \in 1 .. n
  <2>1. past'[j] = past[j]
    BY <1>2, <1>a
  <2>2. ("recovery" \in past[j].ran) <=> \E i \in 1 .. j - 1 : Answered(i, j)
    BY <1>2, <1>a, <2>1 DEF PastInv, RecoveryAnswersAlert
  <2> HIDE DEF Answered, NewAnswered
  <2> QED
    BY <1>1, <2>1, <2>2
<1>3. CASE j = n + 1
  <2>1. outcome = "success" /\ run.read /\ past'[j].ran = run.ran
    BY <1>3, <1>a
  <2>2. stage = "record" /\ Success(run) /\ run.prior = record
    BY <2>1, EndsWith
  <2>3. "recovery" \in run.ran <=> record.outcome = "failed"
    BY <2>2 DEF Announced
  <2>4. record.outcome = "failed" <=> \E i \in 1 .. j - 1 : Answered(i, j)
    <3>1. j - 1 = n
      BY <1>3, <1>a
    <3> QED
      BY <1>a, <3>1 DEF PastInv, LastRecorded
  <2> HIDE DEF Answered, NewAnswered
  <2> QED
    BY <1>1, <2>1, <2>3, <2>4
<1> QED
  BY <1>2, <1>3
(* The run of failures is one longer, over, or as it was. *)
LEMMA StreakEnds ==
  ASSUME TypeOK, NEW outcome, NEW recorded \in BOOLEAN, Remember(outcome, recorded)
  PROVE  /\ Streak \subseteq 1 .. Len(past)
         /\ Streak' = IF ~recorded THEN Streak
                      ELSE IF outcome = "failed" THEN Streak \cup {Len(past) + 1}
                      ELSE {}
<1> DEFINE n == Len(past)
           new == IF ~recorded THEN Streak
                  ELSE IF outcome = "failed" THEN Streak \cup {n + 1} ELSE {}
<1>a. /\ n \in Nat /\ DOMAIN past = 1 .. n /\ DOMAIN past' = 1 .. n + 1 /\ Len(past') = n + 1
      /\ \A k \in 1 .. n : past'[k] = past[k]
      /\ past'[n + 1].outcome = outcome /\ past'[n + 1].recorded = recorded
  BY Longer
<1>1. Streak \subseteq 1 .. n
  BY <1>a DEF Streak
<1>2. Streak' \subseteq 1 .. n + 1
  BY <1>a DEF Streak
<1>3. new \subseteq 1 .. n + 1
  <2>1. Streak \subseteq 1 .. n + 1 /\ n + 1 \in 1 .. n + 1
    BY <1>1, <1>a
  <2> HIDE DEF n
  <2> QED
    BY <2>1
<1>4. ASSUME NEW i \in 1 .. n PROVE i \in Streak' <=> i \in new
  <2>1. FailingThroughout(i, Len(past))' <=>
          FailingThroughout(i, Len(past)) /\ (recorded => outcome = "failed")
    BY LongerThroughout
  <2>2. i \in Streak' <=> past[i].recorded /\ FailingThroughout(i, Len(past))'
    BY <1>a DEF Streak
  <2>3. i \in Streak <=> past[i].recorded /\ FailingThroughout(i, Len(past))
    BY <1>a DEF Streak
  <2>4. i # n + 1
    BY <1>a
  <2> QED
    BY <2>1, <2>2, <2>3, <2>4
<1>5. n + 1 \in Streak' <=> n + 1 \in new
  <2>1. (\A k \in n + 1 .. Len(past') : past'[k].recorded => past'[k].outcome = "failed")
          <=> (recorded => outcome = "failed")
    BY <1>a
  <2>2. n + 1 \in Streak' <=> recorded /\ outcome = "failed"
    <3>1. DOMAIN past' = 1 .. n + 1 /\ n + 1 \in 1 .. n + 1
      BY <1>a
    <3> HIDE DEF n
    <3> QED
      BY <1>a, <2>1, <3>1 DEF Streak, FailingThroughout
  <2>3. n + 1 \notin Streak
    BY <1>1, <1>a
  <2> QED
    BY <2>2, <2>3
<1>6. 1 .. n + 1 = (1 .. n) \cup {n + 1}
  BY <1>a
<1>7. Streak' = new
  <2> DEFINE streak == Streak'
             old == 1 .. n
             all == 1 .. n + 1
  <2>1. streak \subseteq all /\ new \subseteq all /\ all = old \cup {n + 1}
    BY <1>2, <1>3, <1>6
  <2>2. \A i \in old : i \in streak <=> i \in new
    BY <1>4
  <2>3. n + 1 \in streak <=> n + 1 \in new
    BY <1>5
  <2> HIDE DEF streak, old, all, new, n
  <2>4. streak = new
    BY <2>1, <2>2, <2>3
  <2> QED
    BY <2>4 DEF streak
<1> QED
  BY <1>1, <1>7

(* The record goes on dating the failures from the first of them. *)
LEMMA FailingSinceEnds ==
  ASSUME TypeOK, JobInv, RunBegun, Announced, PastInv,
         NEW outcome, NEW recorded \in BOOLEAN, Ends(outcome, recorded)
  PROVE  FailingSinceStart'
<1> DEFINE n == Len(past)
<1>a. /\ n \in Nat /\ \A k \in 1 .. n : past'[k] = past[k]
      /\ past'[n + 1].started = run.started /\ past'[n + 1].finished = now
      /\ past'[n + 1].read = run.read
  BY Longer, EndsWith
<1>b. /\ Streak \subseteq 1 .. n
      /\ Streak' = IF ~recorded THEN Streak
                   ELSE IF outcome = "failed" THEN Streak \cup {n + 1} ELSE {}
  BY StreakEnds, EndsWith
<1>c. FailingSinceStart
  BY DEF PastInv
<1>1. CASE ~recorded
  <2>1. record' = record /\ Streak' = Streak /\ \A k \in Streak : past'[k] = past[k]
    BY <1>1, <1>a, <1>b, EndsWith
  <2> QED
    BY <1>c, <2>1 DEF FailingSinceStart, PriorFailingSince
<1>2. CASE recorded /\ outcome # "failed"
  <2>1. /\ Streak' = {} /\ record'.outcome # "failed"
        /\ record'.failingSince = None /\ record'.failureNotified = None
    BY <1>2, <1>b, EndsWith
  <2> QED
    BY <2>1 DEF FailingSinceStart
<1>3. CASE recorded /\ outcome = "failed"
  <2>1. /\ Streak' = Streak \cup {n + 1} /\ record'.outcome = "failed"
        /\ record'.failingSince = run.failingSince
        /\ stage = "record" /\ ~Success(run)
    BY <1>3, <1>b, EndsWith
  <2>2. PriorFailingSince(record)' = FailingSince(run)
    <3>1. run.failingSince = FailingSince(run) /\ run.failingSince # None
      BY <2>1 DEF Announced, JobInv, FailureDated
    <3> QED
      BY <2>1, <3>1 DEF PriorFailingSince
  <2> SUFFICES ASSUME \A i \in Streak' : past'[i].read, NEW first \in Streak',
                      \A i \in Streak' : first <= i
               PROVE  /\ past'[first].started <= FailingSince(run)
                      /\ FailingSince(run) <= past'[first].finished
    BY <2>1, <2>2 DEF FailingSinceStart
  <2>3. run.read /\ run.prior = record
    <3>1. past'[n + 1].read
      BY <2>1
    <3> QED
      BY <1>a, <3>1, EndsWith
  <2>4. CASE Streak = {}
    <3>1. first = n + 1 /\ record.outcome # "failed"
      BY <1>c, <2>1, <2>4 DEF FailingSinceStart
    <3>2. FailingSince(run) = run.jobStarted
      BY <2>3, <3>1 DEF FailingSince
    <3>3. run.started <= run.jobStarted /\ run.jobStarted <= now
      BY <2>1 DEF RunBegun
    <3> QED
      BY <1>a, <3>1, <3>2, <3>3
  <2>5. CASE Streak # {}
    <3>1. PICK s \in Streak : TRUE
      BY <2>5
    <3>2. first \in Streak /\ past'[first] = past[first]
      <4>1. first <= s /\ s \in 1 .. n /\ first \in 1 .. n + 1
        BY <1>a, <1>b, <2>1
      <4>2. first # n + 1
        BY <1>a, <4>1
      <4> QED
        BY <1>a, <1>b, <2>1, <4>2
    <3>3. \A i \in Streak : first <= i /\ past[i].read
      BY <1>a, <1>b, <2>1
    <3>4. FailingSince(run) = PriorFailingSince(record)
      BY <1>c, <2>3, <2>5 DEF FailingSince, FailingSinceStart
    <3> QED
      BY <1>c, <3>2, <3>3, <3>4 DEF FailingSinceStart
  <2> QED
    BY <2>4, <2>5
<1> QED
  BY <1>1, <1>2, <1>3

(* While an execution goes on, what was before it stays as it is. *)
LEMMA PastKept == PastInv /\ UNCHANGED <<past, record>> => PastInv'
<1> SUFFICES ASSUME PastInv, UNCHANGED <<past, record>> PROVE PastInv'
  OBVIOUS
<1>1. LastRecorded' /\ AlertRemembered'
  BY DEF PastInv, LastRecorded, AlertRemembered, FailingThroughout
<1>2. FailingSinceStart'
  BY DEF PastInv, FailingSinceStart, Streak, PriorFailingSince, FailingThroughout
<1>3. AlertsApart' /\ NoSilentFailure' /\ RecoveryAnswersAlert'
  BY DEF PastInv, AlertsApart, NoSilentFailure, RecoveryAnswersAlert, FailingThroughout
<1> QED
  BY <1>1, <1>2, <1>3 DEF PastInv

(* Every step keeps what the record says true of what happened.            *)
LEMMA PastStep ==
  TypeOK /\ JobInv /\ RunBegun /\ Announced /\ PastInv /\ [Next]_vars => PastInv'
<1> SUFFICES ASSUME TypeOK, JobInv, RunBegun, Announced, PastInv, [Next]_vars PROVE PastInv'
  OBVIOUS
<1>1. ASSUME NEW outcome, NEW recorded \in BOOLEAN, Ends(outcome, recorded) PROVE PastInv'
  BY <1>1, LastRecordedEnds, AlertRememberedEnds, FailingSinceEnds, AlertsApartEnds,
     NoSilentFailureEnds, RecoveryEnds DEF PastInv
<1>2. CASE RecordRun
  <2>1. stage = "record" /\ Outcome(run) # "killed"
    BY <1>2 DEF RecordRun, Outcome
  <2>2. Ends(Outcome(run), TRUE) \/ Ends(Outcome(run), FALSE)
    BY <1>2, <2>1 DEF RecordRun, Ends
  <2> QED
    BY <1>1, <2>2
<1>3. CASE Crash
  <2>1. Ends("killed", FALSE)
    BY <1>3 DEF Crash, Ends
  <2> QED
    BY <1>1, <2>1
<1>4. CASE ~RecordRun /\ ~Crash
  <2>1. UNCHANGED <<past, record>>
    BY <1>4 DEF vars, Next, Proceed, End, Terminated, AdvanceClock, Signal, EndGrace,
       StartCommand, StartBackup, RefuseCommand, EndCommand, EndBackup, EndForget, Prepare,
       StartJob, EndBefore, EndRepos, EndAlways, EndOutcome, Notify, EndRecovery, EndReport,
       EndAlert
  <2> QED
    BY <2>1, PastKept
<1> QED
  BY <1>2, <1>3, <1>4

(* A job that never ran, and one that failed under an earlier version. *)
LEMMA PastInit == Init => RunBegun /\ Announced /\ PastInv
<1> SUFFICES ASSUME Init PROVE RunBegun /\ Announced /\ PastInv
  OBVIOUS
<1>1. stage = "idle" /\ run.ran = {} /\ run.alerted = None /\ now = 0
  BY DEF Init, NoResult
<1>2. record = NoRecord \/ record = LegacyFailure
  BY DEF Init
<1>3. /\ NoRecord.outcome = "none" /\ NoRecord.lastRun = None
      /\ NoRecord.failingSince = None /\ NoRecord.failureNotified = None
  BY DEF NoRecord
<1>4. /\ LegacyFailure.outcome = "failed" /\ LegacyFailure.lastRun = 0
      /\ LegacyFailure.failingSince = None /\ LegacyFailure.failureNotified = None
  BY DEF LegacyFailure, NoRecord
<1>5. RunBegun /\ Announced
  BY <1>1, <1>2, <1>3, <1>4 DEF RunBegun, Announced, Notifications
<1>6. CASE record = NoRecord /\ past = <<>>
  <2>1. DOMAIN past = {} /\ Streak = {}
    BY <1>6 DEF Streak
  <2>2. LastRecorded /\ AlertRemembered
    BY <1>3, <1>6, <2>1 DEF LastRecorded, AlertRemembered
  <2>3. FailingSinceStart
    BY <1>3, <1>6, <2>1 DEF FailingSinceStart
  <2>4. AlertsApart /\ NoSilentFailure /\ RecoveryAnswersAlert
    BY <2>1 DEF AlertsApart, NoSilentFailure, RecoveryAnswersAlert
  <2> QED
    BY <1>5, <2>2, <2>3, <2>4 DEF PastInv
<1>7. CASE record = LegacyFailure /\ Len(past) = 1 /\ DOMAIN past = {1}
           /\ past[1].outcome = "failed" /\ past[1].started = 0 /\ past[1].finished = 0
           /\ past[1].ran = {} /\ past[1].alerted = None /\ past[1].recorded
  <2>1. FailingThroughout(1, 1) /\ Streak = {1}
    <3>1. FailingThroughout(1, 1)
      BY <1>7 DEF FailingThroughout
    <3> QED
      BY <1>7, <3>1 DEF Streak
  <2>2. LastRecorded
    <3>1. 1 + 1 .. Len(past) = {}
      BY <1>7
    <3> QED
      BY <1>4, <1>7, <3>1 DEF LastRecorded
  <2>3. AlertRemembered
    BY <1>7 DEF AlertRemembered
  <2>4. FailingSinceStart
    <3>1. PriorFailingSince(record) = 0
      BY <1>4, <1>7 DEF PriorFailingSince
    <3> QED
      BY <1>4, <1>7, <2>1, <3>1 DEF FailingSinceStart
  <2>5. AlertsApart /\ NoSilentFailure /\ RecoveryAnswersAlert
    BY <1>7 DEF AlertsApart, NoSilentFailure, RecoveryAnswersAlert
  <2> QED
    BY <1>5, <2>2, <2>3, <2>4, <2>5 DEF PastInv
<1>8. \/ record = NoRecord /\ past = <<>>
      \/ /\ record = LegacyFailure /\ Len(past) = 1 /\ DOMAIN past = {1}
         /\ past[1].outcome = "failed" /\ past[1].started = 0 /\ past[1].finished = 0
         /\ past[1].ran = {} /\ past[1].alerted = None /\ past[1].recorded
  BY DEF Init
<1> QED
  BY <1>5, <1>6, <1>7, <1>8

-----------------------------------------------------------------------------
(* What the state file tells the notifications.                            *)

(* At every step the record says of the executions so far what notify will *)
(* ask of it: whether the last one recorded failed, since when the job has *)
(* been failing and when an alert was last delivered.                      *)
THEOREM RecordTells == Spec => [](RunBegun /\ Announced /\ PastInv)
<1> DEFINE Inv == TypeOK /\ JobInv /\ RunBegun /\ Announced /\ PastInv
<1>1. Init => Inv
  BY TypeInit, PastInit
<1>2. Inv /\ [Next]_vars => Inv'
  BY TypeStep, CountedStep, OutcomeStep, DatedStep, BegunStep, AnnouncedStep, PastStep
     DEF JobInv
<1> QED
  BY <1>1, <1>2, PTL DEF Spec

(* The state file dates a failing job from its first failed run since the  *)
(* last success, for any number of executions, kills and records that were *)
(* lost (notify, RecordRun).                                               *)
THEOREM FailingSinceKept == Spec => []FailingSinceStart
  BY RecordTells, PTL DEF PastInv

(* Two alerts delivered in one run of failures are NotifyInterval apart,   *)
(* for any interval and any number of failed alerts and runs between them  *)
(* (failureNotifyInterval).                                                *)
THEOREM AlertsKeepInterval == Spec => []AlertsApart
  BY RecordTells, PTL DEF PastInv

(* A failed run keeps quiet only when an alert of the same failures was    *)
(* delivered within NotifyInterval, for any history of the job (notify).   *)
THEOREM FailuresAreTold == Spec => []NoSilentFailure
  BY RecordTells, PTL DEF PastInv

(* A recovery is announced exactly after a run that was recorded as        *)
(* failed, for any history of the job (notify).                            *)
THEOREM RecoveriesAnswer == Spec => []RecoveryAnswersAlert
  BY RecordTells, PTL DEF PastInv
=============================================================================
