-------------------------------- MODULE Status --------------------------------
(***************************************************************************)
(* What status and the check-in report about one job: buildJobStatuses of  *)
(* cmd/rest-o-matic/status.go reads the state file, then probes the job's  *)
(* lock with a shared lock of its own (lock.JobHeld), and then reads the   *)
(* job's progress record and its snapshot lists.  Executions of the job    *)
(* start, run, record and end in between, or are killed, leaving marker    *)
(* and progress behind; and a probe may be in their way when they take the *)
(* job lock (lock.AcquireJob), which they try for a quarter of a second.   *)
(*                                                                         *)
(* A turn is an execution that got the job lock; they are numbered in that *)
(* order, which is also that of the start times the files hold.  Zero is   *)
(* no turn.  The other locks an execution waits for are in Execution.      *)
(***************************************************************************)
EXTENDS Integers, FiniteSets

CONSTANTS
  Processes,    \* processes that run the job, each again and again
  Readers,      \* processes that report on it, likewise
  WithProgress, \* those that show progress: status does, the check-in does not
  Tries,        \* how often AcquireJob tries within jobProbeWait
  MaxFaults,    \* bound on writes and reads that fail and on processes killed
  MaxTurns,     \* bound on turns
  MaxReports    \* bound on reports

ASSUME StatusAssumption ==
  /\ IsFiniteSet(Readers) /\ WithProgress \subseteq Readers
  /\ Tries \in Nat \ {0}
  /\ MaxTurns \in Nat /\ MaxReports \in Nat /\ MaxFaults \in Nat

Turns == 1 .. MaxTurns
NoTurn == 0

VARIABLES
  pc,        \* pc[p]: where process p is in executeWithSlot
  turn,      \* turn[p]: its turn, once it has the job lock
  tries,     \* tries[p]: how often it has tried for the lock in vain
  inTheWay,  \* inTheWay[p]: the probes it found in its way when it last tried
  turns,     \* how many turns there have been
  lockFile,  \* whether the job's lock file exists
  holder,    \* the turn that holds the job lock
  marker,    \* the turn named by the running marker in the state file
  lastRun,   \* the turn of the last run on record there
  progress,  \* the turn that wrote the progress record
  lists,     \* the turn that last saved the snapshot lists
  report,    \* report[r]: what reader r has read so far
  reports,   \* how many reports have been started
  faults,    \* how many faults there have been
  turnedAway, \* history: turnedAway[p]: whether another turn kept p from the lock
  met,       \* history: met[p]: how many probes there were while it tried
  strays,    \* history: turns that ended without their marker being cleared
  unmarked,  \* history: turns whose marker could not be written
  unlisted,  \* history: turns that saved no lists
  leftovers  \* history: turns whose progress record could not be removed

files == <<marker, lastRun, progress, lists>>
lockVars == <<lockFile, holder, turns, tries, inTheWay, turnedAway, met>>
history == <<strays, unmarked, unlisted, leftovers>>
readVars == <<report, reports>>
vars == <<pc, turn, lockVars, files, readVars, faults, history>>

(* After "idle" and "trying" the process has the lock. *)
Stages == {"idle", "trying", "refused", "clear", "tidy", "queued", "running", "recorded",
           "listed", "unlock"}
Unlocked == {"idle", "trying", "refused"}

TurnOrNone == Turns \cup {NoTurn}

(* What has been read; holder, atLoad and atProbe are history: the turn    *)
(* that held the lock at the probe, and those in progress then and when    *)
(* the state was loaded.                                                   *)
Reports == [stage : {"idle", "loaded", "probing", "probed", "progressed", "told"},
            marker : TurnOrNone, lastRun : TurnOrNone, held : BOOLEAN,
            progress : TurnOrNone, lists : TurnOrNone,
            holder : TurnOrNone, atLoad : SUBSET Turns, atProbe : SUBSET Turns]
NoReport == [stage |-> "idle", marker |-> NoTurn, lastRun |-> NoTurn, held |-> FALSE,
             progress |-> NoTurn, lists |-> NoTurn,
             holder |-> NoTurn, atLoad |-> {}, atProbe |-> {}]

TypeOK ==
  /\ pc \in [Processes -> Stages]
  /\ turn \in [Processes -> TurnOrNone]
  /\ tries \in [Processes -> 0 .. Tries]
  /\ inTheWay \in [Processes -> SUBSET Readers]
  /\ turns \in 0 .. MaxTurns
  /\ lockFile \in BOOLEAN
  /\ {holder, marker, lastRun, progress, lists} \subseteq TurnOrNone
  /\ report \in [Readers -> Reports]
  /\ reports \in 0 .. MaxReports /\ faults \in 0 .. MaxFaults
  /\ turnedAway \in [Processes -> BOOLEAN] /\ met \in [Processes -> 0 .. Tries]
  /\ strays \cup unmarked \cup unlisted \cup leftovers \subseteq Turns

Init ==
  /\ pc = [p \in Processes |-> "idle"]
  /\ turn = [p \in Processes |-> NoTurn]
  /\ tries = [p \in Processes |-> 0]
  /\ inTheWay = [p \in Processes |-> {}]
  /\ turns = 0 /\ lockFile = FALSE
  /\ holder = NoTurn /\ marker = NoTurn /\ lastRun = NoTurn
  /\ progress = NoTurn /\ lists = NoTurn
  /\ report = [r \in Readers |-> NoReport]
  /\ reports = 0 /\ faults = 0
  /\ turnedAway = [p \in Processes |-> FALSE] /\ met = [p \in Processes |-> 0]
  /\ strays = {} /\ unmarked = {} /\ unlisted = {} /\ leftovers = {}

(* The turns whose job is in progress: marked, and not recorded. *)
InProgress == {turn[p] : p \in {q \in Processes : pc[q] = "running"}}

Probing == {r \in Readers : report[r].stage = "probing"}

Fault == faults < MaxFaults /\ faults' = faults + 1
NoFault == UNCHANGED faults

Goto(p, stage) == pc' = [pc EXCEPT ![p] = stage]

-----------------------------------------------------------------------------
(* Taking the job lock.                                                    *)

(* More probes than it tries times make no difference to a process. *)
CountedTo(n) == IF n < Tries THEN n ELSE Tries

StartAfresh(p) ==
  /\ tries' = [tries EXCEPT ![p] = 0]
  /\ turnedAway' = [turnedAway EXCEPT ![p] = FALSE]
  /\ met' = [met EXCEPT ![p] = CountedTo(Cardinality(Probing))]

(* Slip: what was left behind is cleared before the lock is taken. *)
ArriveClearing(p) ==
  /\ pc[p] \in {"idle", "refused"} /\ turns < MaxTurns
  /\ Goto(p, "trying")
  /\ StartAfresh(p)
  /\ marker' = NoTurn
  /\ UNCHANGED <<turn, turns, lockFile, holder, inTheWay, lastRun, progress, lists, readVars,
                 faults, history>>

Arrive(p) ==
  /\ pc[p] \in {"idle", "refused"} /\ turns < MaxTurns
  /\ Goto(p, "trying")
  /\ StartAfresh(p)
  /\ UNCHANGED <<turn, turns, lockFile, holder, inTheWay, files, readVars, faults, history>>

LockFree == holder = NoTurn /\ Probing = {}

(* A probe takes less than briefRetry: one that was in the way of the last *)
(* try has ended before the next.                                          *)
MayTry(p) == pc[p] = "trying" /\ inTheWay[p] = {}

Acquire(p) ==
  /\ MayTry(p) /\ LockFree /\ turns < MaxTurns
  /\ turns' = turns + 1
  /\ turn' = [turn EXCEPT ![p] = turns + 1]
  /\ holder' = turns + 1
  /\ lockFile' = TRUE
  /\ Goto(p, "clear")
  /\ StartAfresh(p)
  /\ UNCHANGED <<inTheWay, files, readVars, faults, history>>

(* Slip: the first attempt decides. *)
GivesUpAtOnce(p) == TRUE

(* Slip: it goes on trying. *)
NeverGivesUp(p) == FALSE

(* The quarter of a second is over. *)
GivesUp(p) == tries[p] + 1 = Tries

TryInVain(p) ==
  /\ MayTry(p) /\ ~LockFree
  /\ tries' = [tries EXCEPT ![p] = @ + 1]
  /\ turnedAway' = [turnedAway EXCEPT ![p] = @ \/ holder # NoTurn]
  /\ lockFile' = TRUE
  /\ IF GivesUp(p)
       THEN Goto(p, "refused") /\ UNCHANGED inTheWay
       ELSE inTheWay' = [inTheWay EXCEPT ![p] = Probing] /\ UNCHANGED pc
  /\ UNCHANGED <<turn, turns, holder, met, files, readVars, faults, history>>

-----------------------------------------------------------------------------
(* A turn.                                                                 *)

Locking == <<turn, lockVars, readVars>>

(* ClearRunning and RemoveProgress: what a killed turn left behind.  What  *)
(* can't be written is only warned about.                                  *)
ClearRunning(p) ==
  /\ pc[p] = "clear"
  /\ (marker' = NoTurn /\ NoFault) \/ (UNCHANGED marker /\ Fault)
  /\ Goto(p, "tidy")
  /\ UNCHANGED <<Locking, lastRun, progress, lists, history>>

RemoveProgress ==
  \/ progress' = NoTurn /\ UNCHANGED leftovers /\ NoFault
  \/ /\ Fault
     /\ UNCHANGED progress
     /\ leftovers' = leftovers \cup ({progress} \ {NoTurn})

(* Slip: a killed turn's progress is left for the first phase to replace. *)
TidyNothing(p) ==
  /\ pc[p] = "tidy"
  /\ Goto(p, "queued")
  /\ UNCHANGED <<Locking, files, faults, history>>

Tidy(p) ==
  /\ pc[p] = "tidy"
  /\ RemoveProgress
  /\ Goto(p, "queued")
  /\ UNCHANGED <<Locking, marker, lastRun, lists, strays, unmarked, unlisted>>

(* The job is not due any more, or the process is interrupted. *)
LeaveQueue(p) ==
  /\ pc[p] = "queued"
  /\ Goto(p, "unlock")
  /\ UNCHANGED <<Locking, files, faults, history>>

MarkRunning(p) ==
  /\ pc[p] = "queued"
  /\ \/ marker' = turn[p] /\ UNCHANGED unmarked /\ NoFault
     \/ UNCHANGED marker /\ unmarked' = unmarked \cup {turn[p]} /\ Fault
  /\ Goto(p, "running")
  /\ UNCHANGED <<Locking, lastRun, progress, lists, strays, unlisted, leftovers>>

(* The recorder replaces the record, at each phase and as restic reports;  *)
(* when that fails the one before stays.                                   *)
SaveProgress(p) ==
  /\ pc[p] = "running"
  /\ progress' = turn[p]
  /\ UNCHANGED <<Locking, pc, marker, lastRun, lists, faults, history>>

(* Slip: the marker is left for the next turn to clear. *)
RecordAndKeepMarker(p) ==
  /\ pc[p] = "running"
  /\ lastRun' = turn[p] /\ UNCHANGED <<marker, strays, faults>>
  /\ Goto(p, "recorded")
  /\ UNCHANGED <<Locking, progress, lists, unmarked, unlisted, leftovers>>

RecordRun(p) ==
  /\ pc[p] = "running"
  /\ \/ lastRun' = turn[p] /\ marker' = NoTurn /\ UNCHANGED strays /\ NoFault
     \/ UNCHANGED <<lastRun, marker>> /\ strays' = strays \cup {turn[p]} /\ Fault
  /\ Goto(p, "recorded")
  /\ UNCHANGED <<Locking, progress, lists, unmarked, unlisted, leftovers>>

(* restic gave no list, or it can't be saved: the one before stays. *)
SaveSnapshots(p) ==
  /\ pc[p] = "recorded"
  /\ \/ lists' = turn[p] /\ UNCHANGED unlisted
     \/ UNCHANGED lists /\ unlisted' = unlisted \cup {turn[p]}
  /\ Goto(p, "listed")
  /\ UNCHANGED <<Locking, marker, lastRun, progress, faults, strays, unmarked, leftovers>>

EndProgress(p) ==
  /\ pc[p] = "listed"
  /\ RemoveProgress
  /\ Goto(p, "unlock")
  /\ UNCHANGED <<Locking, marker, lastRun, lists, strays, unmarked, unlisted>>

LetGo(p) == holder' = NoTurn /\ turn' = [turn EXCEPT ![p] = NoTurn] /\ Goto(p, "idle")

(* Slip: the lock is given back once the run is on record. *)
UnlockEarly(p) ==
  /\ pc[p] \in {"recorded", "unlock"}
  /\ LetGo(p)
  /\ UNCHANGED <<turns, lockFile, tries, inTheWay, turnedAway, met, files, readVars, faults, history>>

Unlock(p) ==
  /\ pc[p] = "unlock"
  /\ LetGo(p)
  /\ UNCHANGED <<turns, lockFile, tries, inTheWay, turnedAway, met, files, readVars, faults, history>>

(* The kernel drops a dead process's lock; its files stay. *)
Kill(p) ==
  /\ pc[p] \notin Unlocked
  /\ Fault
  /\ LetGo(p)
  /\ strays' = strays \cup {turn[p]} /\ unlisted' = unlisted \cup {turn[p]}
  /\ UNCHANGED <<turns, lockFile, tries, inTheWay, turnedAway, met, files, readVars,
                 unmarked, leftovers>>

-----------------------------------------------------------------------------
(* A report.                                                               *)

Read(r, x) ==
  /\ report' = [report EXCEPT ![r] = x]
  /\ UNCHANGED <<pc, turn, turns, lockFile, holder, tries, turnedAway, files, history>>

Load(r) ==
  /\ report[r].stage \in {"idle", "told"} /\ reports < MaxReports
  /\ reports' = reports + 1
  /\ Read(r, [NoReport EXCEPT !.stage = "loaded", !.marker = marker, !.lastRun = lastRun,
                              !.atLoad = InProgress])
  /\ UNCHANGED <<inTheWay, met, faults>>

(* JobHeld: a job without a lock file has never run.  A free lock is taken *)
(* shared, and given back.                                                 *)
TakesShared == lockFile /\ holder = NoTurn

Probe(r) ==
  /\ report[r].stage = "loaded"
  /\ Read(r, [report[r] EXCEPT
       !.stage = IF TakesShared THEN "probing" ELSE "probed",
       !.held = lockFile /\ holder # NoTurn,
       !.holder = holder, !.atProbe = InProgress])
  /\ met' = [p \in Processes |-> IF TakesShared /\ pc[p] = "trying"
                                   THEN CountedTo(met[p] + 1) ELSE met[p]]
  /\ UNCHANGED <<reports, inTheWay, faults>>

Release(r) ==
  /\ report[r].stage = "probing"
  /\ Read(r, [report[r] EXCEPT !.stage = "probed"])
  /\ inTheWay' = [p \in Processes |-> inTheWay[p] \ {r}]
  /\ UNCHANGED <<reports, met, faults>>

(* Slip: the marker is believed whoever holds the lock. *)
ShownAnyway(r) == report[r].marker

(* The marker is only believed while the lock is held. *)
ShownRunning(r) == IF report[r].held THEN report[r].marker ELSE NoTurn
ShownWaiting(r) == report[r].held /\ report[r].marker = NoTurn

ReadProgress(r) ==
  /\ report[r].stage = "probed"
  /\ Read(r, [report[r] EXCEPT !.stage = "progressed",
                !.progress = IF ShownRunning(r) # NoTurn /\ r \in WithProgress
                               THEN progress ELSE NoTurn])
  /\ UNCHANGED <<reports, inTheWay, met, faults>>

ReadLists(r) ==
  /\ report[r].stage = "progressed"
  /\ Read(r, [report[r] EXCEPT !.stage = "told", !.lists = lists])
  /\ UNCHANGED <<reports, inTheWay, met, faults>>

(* A file can't be read or locked: there is no report. *)
ReadFails(r) ==
  /\ report[r].stage \in {"loaded", "progressed"}
  /\ Fault
  /\ Read(r, NoReport)
  /\ UNCHANGED <<reports, inTheWay, met>>

Execute(p) ==
  \/ Arrive(p) \/ Acquire(p) \/ TryInVain(p)
  \/ ClearRunning(p) \/ Tidy(p) \/ LeaveQueue(p) \/ MarkRunning(p) \/ SaveProgress(p)
  \/ RecordRun(p) \/ SaveSnapshots(p) \/ EndProgress(p) \/ Unlock(p) \/ Kill(p)

ReportOn(r) ==
  Load(r) \/ Probe(r) \/ Release(r) \/ ReadProgress(r) \/ ReadLists(r) \/ ReadFails(r)

Next == (\E p \in Processes : Execute(p)) \/ (\E r \in Readers : ReportOn(r))

Spec == Init /\ [][Next]_vars

-----------------------------------------------------------------------------
(* Properties.                                                             *)

(* What a report calls running was in progress when the state was loaded,  *)
(* or it left its marker behind, being killed or unable to record its end, *)
(* and the probe met a later turn, or its own before it let go of the      *)
(* lock.  And it is not the last run of the same report, nor older than    *)
(* it (status.go:301).                                                     *)
ShownWasRunning ==
  \A r \in Readers :
    LET shown == ShownRunning(r) IN
    report[r].stage = "told" /\ shown # NoTurn =>
      /\ shown \in report[r].atLoad \/ shown \in strays
      /\ shown <= report[r].holder
      /\ report[r].lastRun < shown

(* A job that is in progress from the loading of the state to the probe is *)
(* reported as running, and as no other turn, though executions that are   *)
(* turned away come and go; unless its marker could not be written.        *)
ShownWhileRunning ==
  \A r \in Readers :
    report[r].stage = "told" =>
      (report[r].atLoad \cap report[r].atProbe) \ unmarked \subseteq {ShownRunning(r)}

(* The progress shown is never that of a turn before the one shown, though *)
(* a killed turn left its own behind, unless removing it failed            *)
(* (exec.go:66); it may be that of a later one.                            *)
ProgressNotOlder ==
  \A r \in Readers :
    report[r].stage = "told" /\ report[r].progress # NoTurn =>
      \/ report[r].progress >= ShownRunning(r)
      \/ report[r].progress \in leftovers

(* When a job is reported to be neither running nor waiting, the snapshot  *)
(* lists reported are no older than the last run, if that saved any: they  *)
(* are saved before the lock is given back, and read after the probe       *)
(* (exec.go:151).                                                          *)
SettledLists ==
  \A r \in Readers :
    report[r].stage = "told" /\ ~report[r].held =>
      report[r].lists >= report[r].lastRun \/ report[r].lastRun \in unlisted

(* A report that comes at the wrong moment, or several at once, never make *)
(* an execution believe that the job is running already: a turn held the   *)
(* lock when it tried, or as many probes as it tries times were under way  *)
(* during its one attempt, each of them caught by another of its tries     *)
(* (lock.go:113).                                                          *)
NotTurnedAwayByReports ==
  \A p \in Processes : pc[p] = "refused" => turnedAway[p] \/ met[p] >= Tries
=============================================================================
