-------------------------------- MODULE Sharing --------------------------------
(***************************************************************************)
(* One restic repository and everybody who works on it: jobs, which back   *)
(* up to it and forget by their retention (runRepo of                      *)
(* internal/execution/job.go, restic.go), and `exec`, which passes a       *)
(* user's restic command on, behind the tag-safety gate, the read-mode     *)
(* check and the repository lock (internal/execution/exec.go).             *)
(*                                                                         *)
(* What keeps the jobs of a shared repository apart is their tags alone:   *)
(* a snapshot carries its job's name and the job's own tags.  The config   *)
(* says who shares the repository; every process goes by the config it     *)
(* loaded, while the user edits the file.                                  *)
(*                                                                         *)
(* Snapshots are numbered in the order they are taken.  That executions    *)
(* of one job exclude each other is shown in Execution.                    *)
(***************************************************************************)
EXTENDS Integers, Sequences, FiniteSets

CONSTANTS
  Jobs,             \* job names, which are tags
  OtherTags,        \* other tags that jobs are given
  Modes,            \* read modes
  Periods,          \* the keys of retentions
  RetentionPeriods, \* those passed on to restic
  Bucket,           \* Bucket[p][n]: the period p (day, week...) snapshot n falls into
  Source,           \* Source[j]: the paths job j backs up
  Setups,           \* the configs there may be
  Commands,         \* the exec commands users give
  Executors,        \* the processes that run them, one each
  MaxSnapshots,     \* bound on snapshots
  MaxEdits          \* bound on edits of the config

ReadDirect == "direct"
readModeTag(mode) == <<"restomatic-read", mode>>
UserTags == Jobs \cup OtherTags
Tags == UserTags \cup {readModeTag(mode) : mode \in Modes}

Ids == 1 .. MaxSnapshots

(* A retention has a count for some of the periods. *)
Unset == -1
Retentions == [Periods -> Nat \cup {Unset}]

(* A job's policy's retention and its own, its references to the           *)
(* repository with theirs, its tags and its read mode.  A job that does    *)
(* not reference the repository, or that the config does not have, has no  *)
(* references here.                                                        *)
JobConfigs == [policy : Retentions, own : Retentions, refs : Seq(Retentions),
               tags : SUBSET UserTags, mode : Modes]

(* flagFirst: a flag of restic's comes before the subcommand.  A filter is *)
(* the value of one --tag: tags a snapshot must all have.  snapshot is the *)
(* one named, with a :subfolder if sub; for Latest, forget and tag name    *)
(* none.  job is that of --job.                                            *)
NoJob == "none"
Latest == 0
CommandTypes == [verb : {"forget", "tag", "restore", "other"}, flagFirst : BOOLEAN,
                 filters : SUBSET (SUBSET Tags \ {{}}), snapshot : Ids \cup {Latest}, sub : BOOLEAN,
                 job : Jobs \cup {NoJob}, force : BOOLEAN]

(* Nobody gives a job a tag that looks like a read mode's: nothing checks. *)
ASSUME SharingAssumption ==
  /\ ReadDirect \in Modes /\ IsFiniteSet(Jobs)
  /\ NoJob \notin Jobs /\ Jobs \cap Executors = {} /\ NoJob \notin Executors
  /\ UserTags \cap {readModeTag(mode) : mode \in Modes} = {}
  /\ RetentionPeriods \subseteq Periods
  /\ MaxSnapshots \in Nat /\ MaxEdits \in Nat
  /\ Bucket \in [RetentionPeriods -> [Ids -> Nat]]
  /\ \A p \in RetentionPeriods, m, n \in Ids : m <= n => Bucket[p][m] <= Bucket[p][n]
  /\ Commands \subseteq CommandTypes
  /\ \A setup \in Setups : DOMAIN setup = Jobs /\ \A j \in Jobs : setup[j] \in JobConfigs

VARIABLES
  setup,     \* the config file
  edits,     \* how often it was edited
  snapshots, \* the snapshots in the repository
  count,     \* how many were taken
  lock,      \* who holds the repository lock
  run,       \* run[j]: what the execution of job j is at, and the config it loaded
  cmd,       \* cmd[e]: what exec command e is at, and the config it loaded
  last,      \* history: last[j]: the latest snapshot job j took, as it was then
  retagged,  \* history: the snapshots exec tag has changed
  byHand     \* history: the snapshots removed by an exec forget that the gate lets through

repository == <<snapshots, count>>
history == <<last, retagged, byHand>>
vars == <<setup, edits, repository, lock, run, cmd, history>>

Snapshots == [id : Ids, tags : SUBSET Tags, source : {Source[j] : j \in Jobs}, mode : Modes]
NoSnapshot == [id |-> 0, tags |-> {}, source |-> NoJob, mode |-> ReadDirect]

Runs == [stage : {"waiting", "backup", "forget"}, cfg : Setups,
         ref : Nat \ {0}]

(* mode is the read mode of the job named, and sharing the jobs that the   *)
(* config loaded has on the repository.                                    *)
Execs == [stage : {"look", "lock", "run"}, c : Commands, mode : Modes,
          sharing : SUBSET Jobs]

Idle == [stage |-> "idle"]
Done == [stage |-> "done"]

TypeOK ==
  /\ setup \in Setups
  /\ edits \in 0 .. MaxEdits
  /\ snapshots \subseteq Snapshots
  /\ count \in 0 .. MaxSnapshots
  /\ lock \in Jobs \cup Executors \cup {NoJob}
  /\ run \in [Jobs -> Runs \cup {Idle}]
  /\ \A j \in Jobs : run[j] \in Runs => run[j].ref \in DOMAIN run[j].cfg[j].refs
  /\ cmd \in [Executors -> Execs \cup {Idle, Done}]
  /\ last \in [Jobs -> Snapshots \cup {NoSnapshot}]
  /\ retagged \subseteq Ids
  /\ byHand \subseteq Ids

Init ==
  /\ setup \in Setups
  /\ edits = 0
  /\ snapshots = {} /\ count = 0
  /\ lock = NoJob
  /\ run = [j \in Jobs |-> Idle]
  /\ cmd = [e \in Executors |-> Idle]
  /\ last = [j \in Jobs |-> NoSnapshot]
  /\ retagged = {} /\ byHand = {}

-----------------------------------------------------------------------------
(* Jobs: their tags, their retention and what restic makes of it.          *)

TagsOf(cfg, j) ==
  {j} \cup cfg[j].tags
      \cup (IF cfg[j].mode = ReadDirect THEN {} ELSE {readModeTag(cfg[j].mode)})

MergeRetention(base, override) ==
  [p \in Periods |-> IF override[p] = Unset THEN base[p] ELSE override[p]]

(* The first of a job's references to the repository is the one that       *)
(* counts, for all of them.                                                *)
EffectiveRetention(cfg, j) ==
  MergeRetention(MergeRetention(cfg[j].policy, cfg[j].own), cfg[j].refs[1])

(* restic forget keeps, of each source, the newest snapshot of each of the *)
(* latest n periods that have one; without any count it keeps everything.  *)
Counted(retention) == {p \in RetentionPeriods : retention[p] > 0}

NewestOf(s, p, S) == \A t \in S : Bucket[p][t.id] = Bucket[p][s.id] => t.id <= s.id
Later(s, p, S) == {Bucket[p][t.id] : t \in {u \in S : Bucket[p][u.id] > Bucket[p][s.id]}}

KeptIn(S, retention) ==
  {s \in S : \/ Counted(retention) = {}
             \/ \E p \in Counted(retention) :
                  NewestOf(s, p, S) /\ Cardinality(Later(s, p, S)) < retention[p]}

OfSource(S, source) == {s \in S : s.source = source}

(* Slip: forget without its --tag. *)
ForgettableAll(j) == snapshots

Forgettable(j) == {s \in snapshots : j \in s.tags}

Forgotten(j, retention) ==
  {s \in Forgettable(j) : s \notin KeptIn(OfSource(Forgettable(j), s.source), retention)}

Running(j, stage) == run[j].stage = stage
Stage(j, stage) == run' = [run EXCEPT ![j].stage = stage]
Ends(j) == run' = [run EXCEPT ![j] = Idle]

(* The config is loaded, and then waited for the locks. *)
Load(j) ==
  /\ Running(j, "idle") /\ setup[j].refs # <<>>
  /\ run' = [run EXCEPT ![j] = [stage |-> "waiting", cfg |-> setup, ref |-> 1]]
  /\ UNCHANGED <<setup, edits, repository, lock, cmd, history>>

Begin(j) ==
  /\ Running(j, "waiting") /\ lock = NoJob
  /\ lock' = j
  /\ Stage(j, "backup")
  /\ UNCHANGED <<setup, edits, repository, cmd, history>>

(* Slip: one reference too far. *)
ProceedsPast(j) ==
  IF run[j].ref <= Len(run[j].cfg[j].refs)
  THEN /\ run' = [run EXCEPT ![j] = [stage |-> "backup", cfg |-> @.cfg, ref |-> @.ref + 1]]
       /\ UNCHANGED lock
  ELSE Ends(j) /\ lock' = NoJob

(* On to the next reference to the repository, or to the end of the run. *)
Proceeds(j) ==
  IF run[j].ref < Len(run[j].cfg[j].refs)
  THEN /\ run' = [run EXCEPT ![j] = [stage |-> "backup", cfg |-> @.cfg, ref |-> @.ref + 1]]
       /\ UNCHANGED lock
  ELSE Ends(j) /\ lock' = NoJob

(* restic takes a snapshot with the job's tags. *)
Takes(j) ==
  /\ count < MaxSnapshots /\ count' = count + 1
  /\ LET s == [id |-> count + 1, tags |-> TagsOf(run[j].cfg, j), source |-> Source[j],
               mode |-> run[j].cfg[j].mode]
     IN snapshots' = snapshots \cup {s} /\ last' = [last EXCEPT ![j] = s]

Backup(j) ==
  /\ Running(j, "backup")
  /\ Takes(j)
  /\ Stage(j, "forget")
  /\ UNCHANGED <<setup, edits, lock, cmd, retagged, byHand>>

ForgottenBy(j) == Forgotten(j, EffectiveRetention(run[j].cfg, j))

Forget(j) ==
  /\ Running(j, "forget")
  /\ snapshots' = snapshots \ ForgottenBy(j)
  /\ Proceeds(j)
  /\ UNCHANGED <<setup, edits, count, cmd, history>>

(* A backup that fails may have taken its snapshot, with some of the files *)
(* left out, and no forget follows it; a forget that fails, or that is     *)
(* interrupted, may have removed some snapshots.                           *)
RepoFails(j) ==
  /\ \/ Running(j, "backup") /\ (Takes(j) \/ UNCHANGED <<snapshots, count, last>>)
     \/ /\ Running(j, "forget")
        /\ \E gone \in SUBSET ForgottenBy(j) : snapshots' = snapshots \ gone
        /\ UNCHANGED <<count, last>>
  /\ Proceeds(j)
  /\ UNCHANGED <<setup, edits, cmd, retagged, byHand>>

(* A before hook fails, or the execution is interrupted or killed: it ends *)
(* and gives up its lock.                                                  *)
Stops(j) ==
  /\ ~Running(j, "idle")
  /\ Ends(j)
  /\ lock' = IF lock = j THEN NoJob ELSE lock
  /\ UNCHANGED <<setup, edits, repository, cmd, history>>

-----------------------------------------------------------------------------
(* exec: what it refuses.                                                  *)

JobsReferencing(cfg) == {j \in Jobs : cfg[j].refs # <<>>}

(* args[0], whatever it is. *)
Subcommand(c) == IF c.flagFirst THEN "flag" ELSE c.verb

hasTagFlag(c) == c.filters # {}

(* "latest" among the arguments, and that exactly. *)
isRelativeRestoreSelector(c) == c.snapshot = Latest /\ ~c.sub

gateBlocked(c, sharing) ==
  /\ Cardinality(sharing) >= 2
  /\ \/ Subcommand(c) \in {"forget", "tag"}
     \/ Subcommand(c) = "restore" /\ isRelativeRestoreSelector(c)
  /\ ~hasTagFlag(c)

requiresExclusiveLock(c) == Subcommand(c) # "restore"

(* Slip: one filter that names the mode will do. *)
OneLatestAllowed(c, mode) == \E f \in c.filters : readModeTag(mode) \in f

(* restoreReadModeCheck of latest, with or without a subfolder: whatever   *)
(* filter a snapshot matches, it was taken in the mode.                    *)
LatestAllowed(c, mode) ==
  c.filters # {} /\ \A f \in c.filters : readModeTag(mode) \in f

At(e, stage) == cmd[e].stage = stage
Goto(e, stage) == cmd' = [cmd EXCEPT ![e].stage = stage]
Exits(e) == cmd' = [cmd EXCEPT ![e] = Done]

(* The command is given: --job must name a job of the repository, and the  *)
(* gate and the check of latest are passed or not.                         *)
NextStage(c, mode, sharing) ==
  IF gateBlocked(c, sharing) THEN "done"
  ELSE IF Subcommand(c) = "restore" /\ mode # ReadDirect
  THEN IF c.snapshot # Latest THEN "look" ELSE IF LatestAllowed(c, mode) THEN "run" ELSE "done"
  ELSE IF ~c.force /\ requiresExclusiveLock(c) THEN "lock" ELSE "run"

Give(e) ==
  /\ At(e, "idle")
  /\ \E c \in Commands :
       LET sharing == JobsReferencing(setup)
           mode == IF c.job = NoJob THEN ReadDirect ELSE setup[c.job].mode
           stage == NextStage(c, mode, sharing)
       IN IF c.job \in sharing \cup {NoJob} /\ stage # "done"
          THEN cmd' = [cmd EXCEPT ![e] =
                 [stage |-> stage, c |-> c, mode |-> mode, sharing |-> sharing]]
          ELSE Exits(e)
  /\ UNCHANGED <<setup, edits, repository, lock, run, history>>

(* SnapshotTags: `restic snapshots` of the one snapshot named. *)
Look(e) ==
  /\ At(e, "look")
  /\ IF \E s \in snapshots : s.id = cmd[e].c.snapshot /\ readModeTag(cmd[e].mode) \in s.tags
     THEN Goto(e, "run") ELSE Exits(e)
  /\ UNCHANGED <<setup, edits, repository, lock, run, history>>

TakeLock(e) ==
  /\ At(e, "lock")
  /\ IF lock = NoJob THEN lock' = e /\ Goto(e, "run") ELSE Exits(e) /\ UNCHANGED lock
  /\ UNCHANGED <<setup, edits, repository, run, history>>

-----------------------------------------------------------------------------
(* exec: what restic does then.  Filters go for nothing if a snapshot is   *)
(* named; without any filter, every snapshot matches.                      *)

Matching(c) == {s \in snapshots : c.filters # {} => \E f \in c.filters : f \subseteq s.tags}

Named(c) == {s \in snapshots : s.id = c.snapshot}

Selected(c) == IF c.snapshot = Latest THEN Matching(c) ELSE Named(c)

(* restore takes the latest of those that match. *)
Restorable(c) ==
  IF c.snapshot = Latest THEN {s \in Matching(c) : \A t \in Matching(c) : t.id <= s.id}
  ELSE Named(c)

Finishes(e) ==
  /\ At(e, "run")
  /\ Exits(e)
  /\ lock' = IF lock = e THEN NoJob ELSE lock
  /\ UNCHANGED <<setup, edits, count, run, last>>

(* The gate lets a forget through that names tags, that found nobody else  *)
(* sharing the repository in the config, or that begins with a flag.       *)
LetThrough(x) == hasTagFlag(x.c) \/ Cardinality(x.sharing) < 2 \/ x.c.flagFirst

PassForget(e) ==
  /\ Finishes(e) /\ cmd[e].c.verb = "forget"
  /\ \E gone \in SUBSET Selected(cmd[e].c) :
       /\ snapshots' = snapshots \ gone
       /\ byHand' = IF LetThrough(cmd[e]) THEN byHand \cup {s.id : s \in gone} ELSE byHand
  /\ UNCHANGED retagged

PassTag(e) ==
  /\ Finishes(e) /\ cmd[e].c.verb = "tag"
  /\ \E s \in Selected(cmd[e].c), tag \in Tags :
       /\ snapshots' = (snapshots \ {s}) \cup
            {[s EXCEPT !.tags = IF tag \in @ THEN @ \ {tag} ELSE @ \cup {tag}]}
       /\ retagged' = retagged \cup {s.id}
  /\ UNCHANGED byHand

(* A restore or another subcommand, or one that fails.  The subcommands    *)
(* besides forget and tag that change snapshots (rewrite --forget, repair  *)
(* snapshots --forget) and a backup are not among the commands given.      *)
PassOther(e) ==
  /\ Finishes(e)
  /\ UNCHANGED <<snapshots, retagged, byHand>>

-----------------------------------------------------------------------------

EditConfig ==
  /\ edits < MaxEdits /\ edits' = edits + 1
  /\ setup' \in Setups \ {setup}
  /\ UNCHANGED <<repository, lock, run, cmd, history>>

JobStep(j) ==
  \/ Load(j) \/ Begin(j) \/ Backup(j) \/ Forget(j) \/ RepoFails(j) \/ Stops(j)

ExecStep(e) ==
  \/ Give(e) \/ Look(e) \/ TakeLock(e)
  \/ PassForget(e) \/ PassTag(e) \/ PassOther(e)

Next == (\E j \in Jobs : JobStep(j)) \/ (\E e \in Executors : ExecStep(e)) \/ EditConfig

Spec == Init /\ [][Next]_vars

-----------------------------------------------------------------------------
(* Properties.                                                             *)

(* The latest snapshot of every job stays in the repository, whatever      *)
(* retention any job has and whoever shares the repository (Forget, Exec): *)
(* unless its tags name another job too, by the config or by exec tag, or  *)
(* a forget by hand that the gate lets through removed it.                 *)
LatestKept ==
  \A j \in Jobs :
    \/ last[j] = NoSnapshot
    \/ last[j].tags \cap Jobs # {j}
    \/ \E s \in snapshots : s.id = last[j].id
    \/ last[j].id \in retagged \cup byHand

(* A restore through a job with a read mode of its own restores only what  *)
(* was taken in that mode (restoreReadModeCheck), even if the snapshot is  *)
(* another job's, if the config has changed since, or if snapshots came    *)
(* and went after the check; but not if exec tag has been at its tags, or  *)
(* if a flag before the subcommand hid the restore.                        *)
RestoredAsTaken ==
  \A e \in Executors :
    At(e, "run") /\ cmd[e].c.verb = "restore" /\ cmd[e].mode # ReadDirect =>
      \/ cmd[e].c.flagFirst
      \/ \A s \in Restorable(cmd[e].c) : s.mode = cmd[e].mode \/ s.id \in retagged
=============================================================================
