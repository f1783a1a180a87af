----------------------------- MODULE SharingProofs -----------------------------
(* Proofs about Sharing: its types, that every job's latest snapshot stays *)
(* in the repository, and that what is restored through a job was taken in *)
(* that job's read mode.                                                   *)
EXTENDS Sharing, FiniteSetTheorems, TLAPS

-----------------------------------------------------------------------------
(* Configs, and what a job makes of its own. *)

(* A config of Setups has a well-formed entry for every job. *)
LEMMA ConfigTyped ==
  ASSUME NEW cfg \in Setups, NEW j \in Jobs
  PROVE  /\ cfg[j].policy \in Retentions /\ cfg[j].own \in Retentions
         /\ cfg[j].refs \in Seq(Retentions)
         /\ cfg[j].tags \subseteq UserTags /\ cfg[j].mode \in Modes
BY SharingAssumption DEF JobConfigs

(* Merging retentions gives a retention. *)
LEMMA MergeTyped ==
  ASSUME NEW r \in Retentions, NEW o \in Retentions
  PROVE  MergeRetention(r, o) \in Retentions
BY DEF MergeRetention, Retentions, Unset

(* So does the cascade, for a job that references the repository. *)
LEMMA EffectiveTyped ==
  ASSUME NEW cfg \in Setups, NEW j \in Jobs, DOMAIN cfg[j].refs # {}
  PROVE  EffectiveRetention(cfg, j) \in Retentions
<1>1. cfg[j].refs[1] \in Retentions
  <2>1. cfg[j].refs \in Seq(Retentions)
    BY ConfigTyped
  <2>2. 1 \in DOMAIN cfg[j].refs
    BY <2>1
  <2> QED BY <2>1, <2>2
<1>2. MergeRetention(cfg[j].policy, cfg[j].own) \in Retentions
  BY ConfigTyped, MergeTyped
<1> QED BY <1>1, <1>2, MergeTyped DEF EffectiveRetention

(* A job's tags are tags, its name among them, and they name a read mode   *)
(* only if it is the job's own.                                            *)
LEMMA TagsTyped ==
  ASSUME NEW cfg \in Setups, NEW j \in Jobs
  PROVE  /\ TagsOf(cfg, j) \subseteq Tags
         /\ j \in TagsOf(cfg, j)
         /\ \A m \in Modes : readModeTag(m) \in TagsOf(cfg, j) => m = cfg[j].mode
<1>1. cfg[j].tags \subseteq UserTags /\ cfg[j].mode \in Modes
  BY ConfigTyped
<1>2. TagsOf(cfg, j) \subseteq Tags /\ j \in TagsOf(cfg, j)
  BY <1>1 DEF TagsOf, Tags, UserTags
<1>3. ASSUME NEW m \in Modes, readModeTag(m) \in TagsOf(cfg, j) PROVE m = cfg[j].mode
  <2>1. readModeTag(m) \notin UserTags
    BY SharingAssumption
  <2>2. readModeTag(m) = readModeTag(cfg[j].mode)
    BY <1>1, <1>3, <2>1 DEF TagsOf, UserTags
  <2> QED BY <2>2 DEF readModeTag
<1> QED BY <1>2, <1>3

(* The newest of some snapshots is kept, whatever the retention. *)
LEMMA NewestIsKept ==
  ASSUME NEW S \in SUBSET Snapshots, NEW s \in S, \A t \in S : t.id <= s.id,
         NEW retention \in Retentions
  PROVE  s \in KeptIn(S, retention)
<1>1. CASE Counted(retention) = {}
  BY <1>1 DEF KeptIn
<1>2. CASE Counted(retention) # {}
  <2>1. PICK p \in Counted(retention) : TRUE
    BY <1>2
  <2>2. p \in RetentionPeriods /\ retention[p] > 0 /\ retention[p] \in Int
    BY <2>1, SharingAssumption DEF Counted, Retentions, Unset
  <2>3. \A t \in S : t.id \in Ids
    BY DEF Snapshots
  <2>4. \A t \in S : Bucket[p][t.id] \in Nat /\ Bucket[p][t.id] <= Bucket[p][s.id]
    BY <2>2, <2>3, SharingAssumption
  <2>5. Later(s, p, S) = {}
    BY <2>4 DEF Later
  <2>6. Cardinality(Later(s, p, S)) = 0
    BY <2>5, FS_EmptySet
  <2> QED BY <2>1, <2>2, <2>6 DEF KeptIn, NewestOf
<1> QED BY <1>1, <1>2

-----------------------------------------------------------------------------
(* Types. *)

(* What a backup leaves is well typed. *)
LEMMA TakesTyped ==
  ASSUME TypeOK, NEW j \in Jobs, Takes(j), run[j] \in Runs
  PROVE  /\ snapshots' \subseteq Snapshots /\ count' \in 0 .. MaxSnapshots
         /\ last' \in [Jobs -> Snapshots \cup {NoSnapshot}]
<1> DEFINE s == [id |-> count + 1, tags |-> TagsOf(run[j].cfg, j), source |-> Source[j],
                 mode |-> run[j].cfg[j].mode]
<1>1. run[j].cfg \in Setups
  BY DEF Runs
<1>2. count + 1 \in Ids /\ count + 1 \in 0 .. MaxSnapshots
  BY SharingAssumption DEF TypeOK, Takes, Ids
<1>3. s \in Snapshots
  BY <1>1, <1>2, TagsTyped, ConfigTyped DEF Snapshots
<1> QED BY <1>2, <1>3 DEF TypeOK, Takes

(* Going on to the next reference, or ending, is well typed. *)
LEMMA ProceedsTyped ==
  ASSUME TypeOK, NEW j \in Jobs, Proceeds(j), run[j] \in Runs
  PROVE  /\ run' \in [Jobs -> Runs \cup {Idle}]
         /\ \A k \in Jobs : run'[k] \in Runs => run'[k].ref \in DOMAIN run'[k].cfg[k].refs
         /\ lock' \in Jobs \cup Executors \cup {NoJob}
<1>1. CASE run[j].ref < Len(run[j].cfg[j].refs)
  <2> DEFINE r == [stage |-> "backup", cfg |-> run[j].cfg, ref |-> run[j].ref + 1]
  <2>1. run' = [run EXCEPT ![j] = r] /\ UNCHANGED lock
    BY <1>1 DEF Proceeds, TypeOK
  <2>2. run[j].cfg \in Setups /\ run[j].ref \in Nat \ {0}
    BY DEF Runs
  <2>3. run[j].cfg[j].refs \in Seq(Retentions)
    BY <2>2, ConfigTyped
  <2>4. run[j].ref + 1 \in DOMAIN run[j].cfg[j].refs
    <3>1. run[j].ref + 1 \in 1 .. Len(run[j].cfg[j].refs)
      BY <1>1, <2>2, <2>3
    <3> QED BY <3>1, <2>3
  <2>5. run[j].ref + 1 \in Nat \ {0}
    BY <2>2
  <2>6. r \in Runs /\ r.ref \in DOMAIN r.cfg[j].refs
    BY <2>2, <2>4, <2>5 DEF Runs
  <2> HIDE DEF r
  <2> QED BY <2>1, <2>6 DEF TypeOK
<1>2. CASE ~(run[j].ref < Len(run[j].cfg[j].refs))
  <2>1. run' = [run EXCEPT ![j] = Idle] /\ lock' = NoJob
    BY <1>2 DEF Proceeds, Ends
  <2>2. Idle \notin Runs
    BY DEF Idle, Runs
  <2> QED BY <2>1, <2>2 DEF TypeOK
<1> QED BY <1>1, <1>2

(* A run at a given stage is a run. *)
LEMMA StageIsRun ==
  ASSUME TypeOK, NEW j \in Jobs, ~Running(j, "idle")
  PROVE  run[j] \in Runs
BY DEF TypeOK, Running, Idle

(* An exec command goes to another stage, or exits. *)
LEMMA CommandTyped ==
  ASSUME TypeOK, NEW e \in Executors, ~At(e, "idle"), ~At(e, "done"),
         \/ \E stage \in {"look", "lock", "run"} : Goto(e, stage)
         \/ Exits(e)
  PROVE  cmd' \in [Executors -> Execs \cup {Idle, Done}]
<1>1. cmd[e] \in Execs
  BY DEF TypeOK, At, Idle, Done
<1> QED BY <1>1 DEF TypeOK, Goto, Exits, Execs

(* A command is given, and passes what exec checks of it first. *)
Given(e, c, m) ==
  LET stage == NextStage(c, m, JobsReferencing(setup))
  IN /\ stage # "done"
     /\ cmd' = [cmd EXCEPT ![e] = [stage |-> stage, c |-> c, mode |-> m,
                                  sharing |-> JobsReferencing(setup)]]

LEMMA Giving ==
  ASSUME TypeOK, NEW e \in Executors, Give(e)
  PROVE  Exits(e) \/ \E c \in Commands, m \in Modes : Given(e, c, m)
<1>1. PICK c \in Commands :
        LET sharing == JobsReferencing(setup)
            mode == IF c.job = NoJob THEN ReadDirect ELSE setup[c.job].mode
            stage == NextStage(c, mode, sharing)
        IN IF c.job \in sharing \cup {NoJob} /\ stage # "done"
           THEN cmd' = [cmd EXCEPT ![e] =
                  [stage |-> stage, c |-> c, mode |-> mode, sharing |-> sharing]]
           ELSE Exits(e)
  BY DEF Give
<1> DEFINE mode == IF c.job = NoJob THEN ReadDirect ELSE setup[c.job].mode
<1>2. CASE Exits(e)
  BY <1>2
<1>3. CASE ~Exits(e)
  <2>1. mode \in Modes
    BY <1>1, <1>3, SharingAssumption, ConfigTyped DEF TypeOK, JobsReferencing
  <2>2. Given(e, c, mode)
    BY <1>1, <1>3 DEF Given
  <2> QED BY <2>1, <2>2
<1> QED BY <1>2, <1>3

LEMMA InitTyped == Init => TypeOK
BY SharingAssumption DEF Init, TypeOK, Ids, Idle, Runs

(* Every step of a job preserves the types. *)
LEMMA JobStepTyped ==
  ASSUME TypeOK, NEW j \in Jobs, JobStep(j)
  PROVE  TypeOK'
<1>1. CASE Load(j)
  <2> DEFINE r == [stage |-> "waiting", cfg |-> setup, ref |-> 1]
  <2>1. setup \in Setups /\ setup[j].refs \in Seq(Retentions)
    BY ConfigTyped DEF TypeOK
  <2>2. r \in Runs /\ r.ref \in DOMAIN r.cfg[j].refs
    BY <1>1, <2>1 DEF Load, Runs
  <2>3. run' = [run EXCEPT ![j] = r] /\ UNCHANGED <<setup, edits, repository, lock, cmd, history>>
    BY <1>1 DEF Load
  <2> HIDE DEF r
  <2> QED BY <2>2, <2>3 DEF TypeOK, repository, history
<1>2. CASE Begin(j)
  <2>1. run[j] \in Runs
    BY <1>2, StageIsRun DEF Begin, Running
  <2> QED BY <1>2, <2>1 DEF TypeOK, Begin, Stage, Runs, repository, history
<1>3. CASE Backup(j)
  <2>1. run[j] \in Runs
    BY <1>3, StageIsRun DEF Backup, Running
  <2>2. /\ snapshots' \subseteq Snapshots /\ count' \in 0 .. MaxSnapshots
        /\ last' \in [Jobs -> Snapshots \cup {NoSnapshot}]
    BY <1>3, <2>1, TakesTyped DEF Backup
  <2>3. /\ run' \in [Jobs -> Runs \cup {Idle}]
        /\ \A k \in Jobs : run'[k] \in Runs => run'[k].ref \in DOMAIN run'[k].cfg[k].refs
    BY <1>3, <2>1 DEF TypeOK, Backup, Stage, Runs
  <2> QED BY <1>3, <2>2, <2>3 DEF TypeOK, Backup
<1>4. CASE Forget(j)
  <2>1. run[j] \in Runs
    BY <1>4, StageIsRun DEF Forget, Running
  <2> QED BY <1>4, <2>1, ProceedsTyped DEF TypeOK, Forget, history
<1>5. CASE RepoFails(j)
  <2>1. run[j] \in Runs
    BY <1>5, StageIsRun DEF RepoFails, Running
  <2>2. /\ snapshots' \subseteq Snapshots /\ count' \in 0 .. MaxSnapshots
        /\ last' \in [Jobs -> Snapshots \cup {NoSnapshot}]
    BY <1>5, <2>1, TakesTyped DEF RepoFails, TypeOK
  <2>3. Proceeds(j) /\ UNCHANGED <<setup, edits, cmd, retagged, byHand>>
    BY <1>5 DEF RepoFails
  <2> QED BY <2>1, <2>2, <2>3, ProceedsTyped DEF TypeOK
<1>6. CASE Stops(j)
  <2>1. Idle \notin Runs
    BY DEF Idle, Runs
  <2> QED BY <1>6, <2>1 DEF TypeOK, Stops, Ends, repository, history
<1> QED BY <1>1, <1>2, <1>3, <1>4, <1>5, <1>6 DEF JobStep

(* Every step of an exec command does. *)
LEMMA ExecStepTyped ==
  ASSUME TypeOK, NEW e \in Executors, ExecStep(e)
  PROVE  TypeOK'
<1>1. CASE Give(e)
  <2>1. CASE Exits(e)
    BY <1>1, <2>1 DEF TypeOK, Give, Exits, repository, history
  <2>2. CASE ~Exits(e)
    <3>1. PICK c \in Commands, m \in Modes : Given(e, c, m)
      BY <1>1, <2>2, Giving
    <3> DEFINE x == [stage |-> NextStage(c, m, JobsReferencing(setup)), c |-> c,
                     mode |-> m, sharing |-> JobsReferencing(setup)]
    <3>2. x \in Execs /\ cmd' = [cmd EXCEPT ![e] = x]
      BY <3>1 DEF Given, Execs, NextStage, JobsReferencing
    <3> QED BY <1>1, <3>2 DEF TypeOK, Give, repository, history
  <2> QED BY <2>1, <2>2
<1>2. CASE Look(e)
  BY <1>2, CommandTyped DEF TypeOK, Look, At, repository, history
<1>3. CASE TakeLock(e)
  BY <1>3, CommandTyped DEF TypeOK, TakeLock, At, repository, history
<1>4. ASSUME Finishes(e)
      PROVE  /\ cmd' \in [Executors -> Execs \cup {Idle, Done}]
             /\ lock' \in Jobs \cup Executors \cup {NoJob}
             /\ UNCHANGED <<setup, edits, count, run, last>>
  BY <1>4, CommandTyped DEF TypeOK, Finishes, At
<1>5. CASE PassForget(e)
  <2>1. PICK gone \in SUBSET Selected(cmd[e].c) :
          /\ snapshots' = snapshots \ gone
          /\ byHand' = IF LetThrough(cmd[e]) THEN byHand \cup {s.id : s \in gone} ELSE byHand
    BY <1>5 DEF PassForget
  <2>2. gone \subseteq Snapshots
    BY DEF Selected, Matching, Named, TypeOK
  <2>3. byHand' \subseteq Ids
    BY <2>1, <2>2 DEF TypeOK, Snapshots
  <2> QED BY <1>4, <1>5, <2>1, <2>3 DEF TypeOK, PassForget
<1>6. CASE PassTag(e)
  <2>1. PICK s \in Selected(cmd[e].c), tags \in SUBSET Tags :
          /\ snapshots' = (snapshots \ {s}) \cup {[s EXCEPT !.tags = tags]}
          /\ retagged' = retagged \cup {s.id}
    <3>1. PICK s \in Selected(cmd[e].c), tag \in Tags :
            /\ snapshots' = (snapshots \ {s}) \cup
                 {[s EXCEPT !.tags = IF tag \in @ THEN @ \ {tag} ELSE @ \cup {tag}]}
            /\ retagged' = retagged \cup {s.id}
      BY <1>6 DEF PassTag
    <3>2. s \in Snapshots
      BY DEF Selected, Matching, Named, TypeOK
    <3>3. (IF tag \in s.tags THEN s.tags \ {tag} ELSE s.tags \cup {tag}) \in SUBSET Tags
      BY <3>2 DEF Snapshots
    <3> QED BY <3>1, <3>3
  <2>2. s \in Snapshots
    BY DEF Selected, Matching, Named, TypeOK
  <2>3. [s EXCEPT !.tags = tags] \in Snapshots /\ s.id \in Ids
    BY <2>2 DEF Snapshots
  <2> QED BY <1>4, <1>6, <2>1, <2>3 DEF TypeOK, PassTag
<1>7. CASE PassOther(e)
  BY <1>4, <1>7 DEF TypeOK, PassOther
<1> QED BY <1>1, <1>2, <1>3, <1>5, <1>6, <1>7 DEF ExecStep

(* Every step preserves the types. *)
LEMMA NextTyped == TypeOK /\ [Next]_vars => TypeOK'
<1> SUFFICES ASSUME TypeOK, [Next]_vars PROVE TypeOK'
  OBVIOUS
<1>1. CASE EditConfig
  BY <1>1, SharingAssumption DEF TypeOK, EditConfig, repository, history
<1>2. CASE UNCHANGED vars
  BY <1>2 DEF TypeOK, vars, repository, history
<1> QED BY <1>1, <1>2, JobStepTyped, ExecStepTyped DEF Next

(* Every variable has its type, and a run is at one of its job's           *)
(* references to the repository (runRepo's loop, job.go).                  *)
THEOREM SharingTypes == Spec => []TypeOK
BY InitTyped, NextTyped, PTL DEF Spec

-----------------------------------------------------------------------------
(* The invariant. *)

(* The job at work holds the repository's lock. *)
HolderInv == \A j \in Jobs : Running(j, "backup") \/ Running(j, "forget") => lock = j

(* Snapshots have numbers of their own, of those given out. *)
IdsInv ==
  /\ \A s, t \in snapshots : s.id = t.id => s = t
  /\ \A s \in snapshots : s.id <= count
  /\ \A j \in Jobs : last[j].id <= count

(* A job's latest snapshot is as it was taken, and the latest of all when  *)
(* the job goes on to forget.                                              *)
LastInv ==
  \A j \in Jobs :
    /\ Running(j, "forget") => last[j].id = count
    /\ \A s \in snapshots : s.id = last[j].id => s = last[j] \/ s.id \in retagged

(* A read mode's tag says how a snapshot was taken. *)
AsTaken(s, mode) == s.mode = mode \/ s.id \in retagged
ModeInv ==
  \A s \in snapshots, mode \in Modes : readModeTag(mode) \in s.tags => AsTaken(s, mode)

(* What has been checked of a command, at its stage. *)
Wrapped(e) ==
  cmd[e].c.verb = "restore" /\ cmd[e].mode # ReadDirect /\ ~cmd[e].c.flagFirst

Checked(e) ==
  /\ At(e, "look") => Wrapped(e) /\ cmd[e].c.snapshot # Latest
  /\ At(e, "lock") => ~Wrapped(e)
  /\ At(e, "lock") \/ At(e, "run") => (cmd[e].c.verb = "forget" => LetThrough(cmd[e]))
  /\ At(e, "run") /\ Wrapped(e) /\ cmd[e].c.snapshot = Latest =>
       LatestAllowed(cmd[e].c, cmd[e].mode)

(* The snapshot it named, while it is there. *)
Found(e) ==
  At(e, "run") /\ Wrapped(e) /\ cmd[e].c.snapshot # Latest =>
    /\ cmd[e].c.snapshot <= count
    /\ \A s \in snapshots : s.id = cmd[e].c.snapshot => AsTaken(s, cmd[e].mode)

ExecInv == \A e \in Executors : Checked(e) /\ Found(e)

Inv ==
  /\ TypeOK /\ HolderInv /\ IdsInv /\ LastInv /\ ModeInv /\ ExecInv /\ LatestKept

-----------------------------------------------------------------------------
(* What a step does to the repository. *)

NothingDone == UNCHANGED <<snapshots, count, last, retagged, byHand>>

BackupDone(j) == Running(j, "backup") /\ Takes(j) /\ UNCHANGED <<retagged, byHand>>

ForgetDone(j) ==
  /\ Running(j, "forget")
  /\ \E gone \in SUBSET ForgottenBy(j) : snapshots' = snapshots \ gone
  /\ UNCHANGED <<count, last, retagged, byHand>>

ByHandDone(e) ==
  /\ At(e, "run") /\ cmd[e].c.verb = "forget"
  /\ \E gone \in SUBSET snapshots :
       /\ snapshots' = snapshots \ gone
       /\ byHand' = IF LetThrough(cmd[e]) THEN byHand \cup {s.id : s \in gone} ELSE byHand
  /\ UNCHANGED <<count, last, retagged>>

TagDone ==
  /\ \E s \in snapshots, tags \in SUBSET Tags :
       /\ snapshots' = (snapshots \ {s}) \cup {[s EXCEPT !.tags = tags]}
       /\ retagged' = retagged \cup {s.id}
  /\ UNCHANGED <<count, last, byHand>>

(* exec tag leaves a snapshot of the same number, with other tags. *)
LEMMA Tagging ==
  ASSUME TypeOK, NEW e \in Executors, PassTag(e)
  PROVE  TagDone
<1>1. PICK s \in Selected(cmd[e].c), tag \in Tags :
        /\ snapshots' = (snapshots \ {s}) \cup
             {[s EXCEPT !.tags = IF tag \in @ THEN @ \ {tag} ELSE @ \cup {tag}]}
        /\ retagged' = retagged \cup {s.id}
  BY DEF PassTag
<1>2. s \in snapshots /\ s \in Snapshots
  BY DEF Selected, Matching, Named, TypeOK
<1>3. (IF tag \in s.tags THEN s.tags \ {tag} ELSE s.tags \cup {tag}) \in SUBSET Tags
  BY <1>2 DEF Snapshots
<1>4. UNCHANGED <<count, last, byHand>>
  BY DEF PassTag, Finishes
<1> QED BY <1>1, <1>2, <1>3, <1>4 DEF TagDone

LEMMA Effects ==
  ASSUME TypeOK, [Next]_vars
  PROVE  \/ NothingDone
         \/ \E j \in Jobs : BackupDone(j) \/ ForgetDone(j)
         \/ \E e \in Executors : ByHandDone(e)
         \/ TagDone
<1>1. ASSUME NEW j \in Jobs, JobStep(j)
      PROVE  NothingDone \/ BackupDone(j) \/ ForgetDone(j)
  <2>1. CASE Load(j) \/ Begin(j) \/ Stops(j)
    BY <2>1 DEF Load, Begin, Stops, NothingDone, repository, history
  <2>2. CASE Backup(j)
    BY <2>2 DEF Backup, BackupDone
  <2>3. CASE Forget(j)
    BY <2>3 DEF Forget, ForgetDone, history
  <2>4. CASE RepoFails(j)
    BY <2>4 DEF RepoFails, NothingDone, BackupDone, ForgetDone
  <2> QED BY <1>1, <2>1, <2>2, <2>3, <2>4 DEF JobStep
<1>2. ASSUME NEW e \in Executors, ExecStep(e)
      PROVE  NothingDone \/ ByHandDone(e) \/ TagDone
  <2>1. CASE Give(e) \/ Look(e) \/ TakeLock(e)
    BY <2>1 DEF Give, Look, TakeLock, NothingDone, repository, history
  <2>2. CASE PassForget(e)
    <3>1. Selected(cmd[e].c) \subseteq snapshots
      BY DEF Selected, Matching, Named
    <3> QED BY <2>2, <3>1 DEF PassForget, Finishes, ByHandDone
  <2>3. CASE PassTag(e)
    BY <2>3, Tagging
  <2>4. CASE PassOther(e)
    BY <2>4 DEF PassOther, Finishes, NothingDone
  <2> QED BY <1>2, <2>1, <2>2, <2>3, <2>4 DEF ExecStep
<1>3. CASE EditConfig \/ UNCHANGED vars
  BY <1>3 DEF EditConfig, NothingDone, vars, repository, history
<1> QED BY <1>1, <1>2, <1>3 DEF Next

(* A backup takes a snapshot with a number that no other has. *)
LEMMA Taking ==
  ASSUME TypeOK, IdsInv, NEW j \in Jobs, BackupDone(j)
  PROVE  \E s \in Snapshots :
           /\ s.id = count + 1 /\ count' = count + 1
           /\ \A m \in Modes : readModeTag(m) \in s.tags => m = s.mode
           /\ snapshots' = snapshots \cup {s} /\ last' = [last EXCEPT ![j] = s]
           /\ \A t \in snapshots : t.id # s.id
<1> DEFINE s == [id |-> count + 1, tags |-> TagsOf(run[j].cfg, j), source |-> Source[j],
                 mode |-> run[j].cfg[j].mode]
<1>1. run[j].cfg \in Setups
  BY StageIsRun DEF BackupDone, Running, Runs
<1>2. count + 1 \in Ids /\ count \in Nat
  BY SharingAssumption DEF TypeOK, BackupDone, Takes, Ids
<1>3. s \in Snapshots
  BY <1>1, <1>2, TagsTyped, ConfigTyped DEF Snapshots
<1>4. \A m \in Modes : readModeTag(m) \in s.tags => m = s.mode
  BY <1>1, TagsTyped
<1>5. count' = count + 1 /\ snapshots' = snapshots \cup {s} /\ last' = [last EXCEPT ![j] = s]
  BY DEF BackupDone, Takes
<1>6. \A t \in snapshots : t.id # s.id
  <2>1. \A t \in snapshots : t.id \in Nat /\ t.id <= count
    BY DEF TypeOK, IdsInv, Snapshots, Ids
  <2> QED BY <1>2, <2>1
<1> QED BY <1>3, <1>4, <1>5, <1>6

(* A forget leaves alone the latest snapshot of the job itself, and that   *)
(* of a job whose name is the only one among its tags.                     *)
LEMMA LatestNotForgotten ==
  ASSUME TypeOK, IdsInv, LastInv, NEW k \in Jobs, Running(k, "forget"),
         NEW j \in Jobs, last[j].tags \cap Jobs = {j}, NEW s \in snapshots, s = last[j]
  PROVE  s \notin ForgottenBy(k)
<1> DEFINE F == Forgettable(k)
           retention == EffectiveRetention(run[k].cfg, k)
<1>1. CASE k # j
  <2>1. s \notin F
    BY <1>1 DEF Forgettable
  <2> QED BY <2>1 DEF ForgottenBy, Forgotten
<1>2. CASE k = j
  <2>1. run[k] \in Runs
    BY StageIsRun DEF Running
  <2>2. run[k].cfg \in Setups /\ DOMAIN run[k].cfg[k].refs # {}
    BY <2>1 DEF TypeOK, Runs
  <2>3. retention \in Retentions
    BY <2>2, EffectiveTyped
  <2>4. \A t \in snapshots : t.id <= s.id
    BY <1>2 DEF IdsInv, LastInv
  <2>5. CASE s \in F
    <3> DEFINE S == OfSource(F, s.source)
    <3>1. S \in SUBSET Snapshots /\ s \in S /\ \A t \in S : t.id <= s.id
      BY <2>4, <2>5 DEF OfSource, Forgettable, TypeOK
    <3>2. s \in KeptIn(S, retention)
      BY <2>3, <3>1, NewestIsKept
    <3> QED BY <3>2 DEF ForgottenBy, Forgotten
  <2>6. CASE s \notin F
    BY <2>6 DEF ForgottenBy, Forgotten
  <2> QED BY <2>5, <2>6
<1> QED BY <1>1, <1>2

-----------------------------------------------------------------------------
(* Every step preserves the invariant, part by part. *)

LEMMA IdsStep ==
  ASSUME Inv, [Next]_vars
  PROVE  IdsInv'
<1> USE DEF Inv
<1>1. CASE NothingDone
  BY <1>1 DEF NothingDone, IdsInv
<1>2. ASSUME NEW j \in Jobs, BackupDone(j) PROVE IdsInv'
  <2>1. PICK s \in Snapshots :
          /\ s.id = count + 1 /\ count' = count + 1
          /\ snapshots' = snapshots \cup {s} /\ last' = [last EXCEPT ![j] = s]
          /\ \A t \in snapshots : t.id # s.id
    BY <1>2, Taking
  <2>2. count \in Nat /\ \A t \in snapshots : t.id \in Nat
    BY DEF TypeOK, Snapshots, Ids
  <2>3. \A k \in Jobs : last[k].id \in Nat
    BY DEF TypeOK, Snapshots, Ids, NoSnapshot
  <2>4. \A t \in snapshots' : t.id <= count'
    BY <2>1, <2>2 DEF IdsInv
  <2>5. \A k \in Jobs : last'[k].id <= count'
    BY <2>1, <2>2, <2>3 DEF IdsInv, TypeOK
  <2>6. \A t, u \in snapshots' : t.id = u.id => t = u
    BY <2>1 DEF IdsInv
  <2> QED BY <2>4, <2>5, <2>6 DEF IdsInv
<1>3. ASSUME snapshots' \subseteq snapshots, UNCHANGED <<count, last>> PROVE IdsInv'
  BY <1>3 DEF IdsInv
<1>4. CASE TagDone
  <2>1. PICK s \in snapshots, tags \in SUBSET Tags :
          snapshots' = (snapshots \ {s}) \cup {[s EXCEPT !.tags = tags]}
    BY <1>4 DEF TagDone
  <2>2. [s EXCEPT !.tags = tags].id = s.id
    BY DEF TypeOK, Snapshots
  <2> QED BY <1>4, <2>1, <2>2 DEF TagDone, IdsInv
<1> QED BY <1>1, <1>2, <1>3, <1>4, Effects DEF ForgetDone, ByHandDone

LEMMA ModeStep ==
  ASSUME Inv, [Next]_vars
  PROVE  ModeInv'
<1> USE DEF Inv
<1>1. ASSUME NEW j \in Jobs, BackupDone(j) PROVE ModeInv'
  <2>1. PICK s \in Snapshots :
          /\ \A m \in Modes : readModeTag(m) \in s.tags => m = s.mode
          /\ snapshots' = snapshots \cup {s}
    BY <1>1, Taking
  <2>2. retagged' = retagged
    BY <1>1 DEF BackupDone
  <2> QED BY <2>1, <2>2 DEF ModeInv, AsTaken
<1>2. ASSUME snapshots' \subseteq snapshots, retagged' = retagged PROVE ModeInv'
  BY <1>2 DEF ModeInv, AsTaken
<1>3. CASE TagDone
  <2>1. PICK s \in snapshots, tags \in SUBSET Tags :
          /\ snapshots' = (snapshots \ {s}) \cup {[s EXCEPT !.tags = tags]}
          /\ retagged' = retagged \cup {s.id}
    BY <1>3 DEF TagDone
  <2>2. [s EXCEPT !.tags = tags].id = s.id
    BY DEF TypeOK, Snapshots
  <2> QED BY <2>1, <2>2 DEF ModeInv, AsTaken
<1> QED BY <1>1, <1>2, <1>3, Effects DEF ForgetDone, ByHandDone, NothingDone

(* A job's step leaves the other jobs' executions alone, and goes on to    *)
(* forget only from a backup.                                              *)
LEMMA OwnRun ==
  ASSUME TypeOK, NEW j \in Jobs, JobStep(j)
  PROVE  /\ \A k \in Jobs : k # j => run'[k] = run[k]
         /\ Running(j, "forget")' => Backup(j)
         /\ Running(j, "backup")' \/ Running(j, "forget")' =>
              \/ lock' = j
              \/ Running(j, "backup") /\ lock' = lock
              \/ Running(j, "forget") /\ lock' = lock
         /\ lock' = lock \/ lock = NoJob \/ lock = j \/ Running(j, "backup") \/ Running(j, "forget")
<1> USE DEF TypeOK, Running
<1>1. CASE Load(j)
  BY <1>1 DEF Load
<1>2. CASE Begin(j)
  BY <1>2 DEF Begin, Stage
<1>3. CASE Backup(j)
  BY <1>3 DEF Backup, Stage
<1>4. ASSUME Proceeds(j), Running(j, "backup") \/ Running(j, "forget")
      PROVE  /\ \A k \in Jobs : k # j => run'[k] = run[k]
             /\ ~Running(j, "forget")'
             /\ Running(j, "backup")' => lock' = lock
  BY <1>4 DEF Proceeds, Ends, Idle
<1>5. CASE Forget(j) \/ RepoFails(j)
  BY <1>4, <1>5 DEF Forget, RepoFails
<1>6. CASE Stops(j)
  BY <1>6 DEF Stops, Ends, Idle
<1> QED BY <1>1, <1>2, <1>3, <1>5, <1>6 DEF JobStep

LEMMA HolderStep ==
  ASSUME Inv, [Next]_vars
  PROVE  HolderInv'
<1> USE DEF Inv
<1>1. ASSUME NEW j \in Jobs, JobStep(j) PROVE HolderInv'
  <2>1. \A k \in Jobs : k # NoJob
    BY SharingAssumption
  <2> QED BY <1>1, <2>1, OwnRun DEF HolderInv, Running
<1>2. ASSUME NEW e \in Executors, ExecStep(e) PROVE HolderInv'
  <2>1. \A j \in Jobs : j # NoJob /\ j # e
    BY SharingAssumption
  <2>2. run' = run /\ (lock' = lock \/ lock = NoJob \/ lock = e)
    BY <1>2 DEF ExecStep, Give, Look, TakeLock, PassForget, PassTag, PassOther, Finishes
  <2> QED BY <2>1, <2>2 DEF HolderInv, Running
<1>3. CASE EditConfig \/ UNCHANGED vars
  BY <1>3 DEF EditConfig, vars, HolderInv, Running
<1> QED BY <1>1, <1>2, <1>3 DEF Next

(* While a job is about to forget, nobody else takes a snapshot. *)
LEMMA ForgetStays ==
  ASSUME Inv, [Next]_vars, NEW j \in Jobs, Running(j, "forget")'
  PROVE  Backup(j) \/ (Running(j, "forget") /\ UNCHANGED <<count, last>>)
<1> USE DEF Inv
<1>1. ASSUME NEW k \in Jobs, JobStep(k)
      PROVE  Backup(j) \/ (Running(j, "forget") /\ UNCHANGED <<count, last>>)
  <2>1. CASE k = j
    BY <1>1, <2>1, OwnRun
  <2>2. CASE k # j
    <3>1. Running(j, "forget") /\ lock = j
      BY <1>1, <2>2, OwnRun DEF Running, HolderInv
    <3>2. ~Running(k, "backup")
      BY <2>2, <3>1 DEF HolderInv
    <3> QED BY <1>1, <3>1, <3>2 DEF JobStep, Load, Begin, Backup, Forget, RepoFails, Stops,
                                    repository, history
  <2> QED BY <2>1, <2>2
<1>2. ASSUME NEW e \in Executors, ExecStep(e)
      PROVE  Running(j, "forget") /\ UNCHANGED <<count, last>>
  BY <1>2 DEF ExecStep, Give, Look, TakeLock, PassForget, PassTag, PassOther, Finishes, Running,
              repository, history
<1>3. CASE EditConfig \/ UNCHANGED vars
  BY <1>3 DEF EditConfig, vars, Running, repository, history
<1> QED BY <1>1, <1>2, <1>3 DEF Next

LEMMA LastStep ==
  ASSUME Inv, [Next]_vars
  PROVE  LastInv'
<1> USE DEF Inv
<1>1. ASSUME NEW j \in Jobs, Running(j, "forget")' PROVE last'[j].id = count'
  <2>1. CASE Backup(j)
    <3>1. BackupDone(j)
      BY <2>1 DEF Backup, BackupDone
    <3> QED BY <3>1, Taking DEF TypeOK
  <2>2. CASE Running(j, "forget") /\ UNCHANGED <<count, last>>
    BY <2>2 DEF LastInv
  <2> QED BY <1>1, <2>1, <2>2, ForgetStays
<1>2. ASSUME NEW j \in Jobs, NEW s \in snapshots', s.id = last'[j].id
      PROVE  s = last'[j] \/ s.id \in retagged'
  <2>1. ASSUME snapshots' \subseteq snapshots, UNCHANGED <<last, retagged>>
        PROVE  s = last'[j] \/ s.id \in retagged'
    BY <1>2, <2>1 DEF LastInv
  <2>2. ASSUME NEW k \in Jobs, BackupDone(k)
        PROVE  s = last'[j] \/ s.id \in retagged'
    <3>1. PICK t \in Snapshots :
            /\ t.id = count + 1 /\ count' = count + 1
            /\ snapshots' = snapshots \cup {t} /\ last' = [last EXCEPT ![k] = t]
            /\ \A u \in snapshots : u.id # t.id
      BY <2>2, Taking
    <3>2. retagged' = retagged
      BY <2>2 DEF BackupDone
    <3>3. last[j].id # t.id
      <4>1. last[j].id \in Nat /\ count \in Nat /\ last[j].id <= count
        BY DEF TypeOK, Snapshots, Ids, NoSnapshot, IdsInv
      <4> QED BY <3>1, <4>1
    <3> QED BY <1>2, <3>1, <3>2, <3>3 DEF LastInv, TypeOK
  <2>3. CASE TagDone
    <3>1. PICK t \in snapshots, tags \in SUBSET Tags :
            /\ snapshots' = (snapshots \ {t}) \cup {[t EXCEPT !.tags = tags]}
            /\ retagged' = retagged \cup {t.id}
      BY <2>3 DEF TagDone
    <3>2. [t EXCEPT !.tags = tags].id = t.id
      BY DEF TypeOK, Snapshots
    <3> QED BY <1>2, <2>3, <3>1, <3>2 DEF TagDone, LastInv
  <2> QED BY <2>1, <2>2, <2>3, Effects DEF NothingDone, ForgetDone, ByHandDone
<1> QED BY <1>1, <1>2 DEF LastInv

LEMMA KeptStep ==
  ASSUME Inv, [Next]_vars
  PROVE  LatestKept'
<1> USE DEF Inv
<1> SUFFICES ASSUME NEW j \in Jobs, last'[j] # NoSnapshot, last'[j].tags \cap Jobs = {j},
                    last'[j].id \notin retagged' \cup byHand'
             PROVE  \E s \in snapshots' : s.id = last'[j].id
  BY DEF LatestKept
<1>1. ASSUME NEW k \in Jobs, BackupDone(k)
      PROVE  \E s \in snapshots' : s.id = last'[j].id
  <2>1. PICK t \in Snapshots :
          snapshots' = snapshots \cup {t} /\ last' = [last EXCEPT ![k] = t]
    BY <1>1, Taking
  <2>2. UNCHANGED <<retagged, byHand>>
    BY <1>1 DEF BackupDone
  <2> QED BY <2>1, <2>2 DEF LatestKept, TypeOK
<1>2. ASSUME last' = last, retagged \subseteq retagged', byHand \subseteq byHand'
      PROVE  \E s \in snapshots : /\ s.id = last[j].id /\ s.id \notin retagged
                                 /\ (s = last[j])
  <2>1. PICK s \in snapshots : s.id = last[j].id
    BY <1>2 DEF LatestKept
  <2> QED BY <1>2, <2>1 DEF LastInv
<1>3. CASE NothingDone
  BY <1>2, <1>3 DEF NothingDone
<1>4. ASSUME NEW k \in Jobs, ForgetDone(k)
      PROVE  \E s \in snapshots' : s.id = last'[j].id
  <2>1. PICK s \in snapshots : s.id = last[j].id /\ s = last[j]
    BY <1>2, <1>4 DEF ForgetDone
  <2>2. s \notin ForgottenBy(k)
    BY <1>4, <2>1, LatestNotForgotten DEF ForgetDone
  <2> QED BY <1>4, <2>1, <2>2 DEF ForgetDone
<1>5. ASSUME NEW e \in Executors, ByHandDone(e)
      PROVE  \E s \in snapshots' : s.id = last'[j].id
  <2>1. LetThrough(cmd[e])
    BY <1>5 DEF ByHandDone, ExecInv, Checked
  <2>2. PICK gone \in SUBSET snapshots :
          snapshots' = snapshots \ gone /\ byHand' = byHand \cup {s.id : s \in gone}
    BY <1>5, <2>1 DEF ByHandDone
  <2>3. PICK s \in snapshots : s.id = last[j].id
    BY <1>2, <1>5, <2>2 DEF ByHandDone
  <2> QED BY <1>5, <2>2, <2>3 DEF ByHandDone
<1>6. CASE TagDone
  <2>1. PICK t \in snapshots, tags \in SUBSET Tags :
          /\ snapshots' = (snapshots \ {t}) \cup {[t EXCEPT !.tags = tags]}
          /\ retagged' = retagged \cup {t.id}
    BY <1>6 DEF TagDone
  <2>2. PICK s \in snapshots : s.id = last[j].id
    BY <1>2, <1>6, <2>1 DEF TagDone
  <2> QED BY <1>6, <2>1, <2>2 DEF TagDone
<1> QED BY <1>1, <1>3, <1>4, <1>5, <1>6, Effects

(* A snapshot that was found in the right mode stays so, or is retagged,   *)
(* and no other ever gets its number.                                      *)
LEMMA FoundStays ==
  ASSUME Inv, [Next]_vars, NEW e \in Executors, cmd[e] \in Execs, cmd'[e] = cmd[e], Found(e)
  PROVE  Found(e)'
<1> USE DEF Inv
<1>1. CASE NothingDone
  BY <1>1 DEF NothingDone, Found, At, Wrapped, AsTaken
<1>2. ASSUME NEW j \in Jobs, BackupDone(j) PROVE Found(e)'
  <2>1. PICK s \in Snapshots :
          s.id = count + 1 /\ count' = count + 1 /\ snapshots' = snapshots \cup {s}
    BY <1>2, Taking
  <2>2. retagged' = retagged
    BY <1>2 DEF BackupDone
  <2>3. cmd[e].c.snapshot \in Int /\ count \in Int
    BY SharingAssumption DEF TypeOK, Execs, CommandTypes, Ids, Latest
  <2> QED BY <2>1, <2>2, <2>3 DEF Found, At, Wrapped, AsTaken
<1>3. ASSUME snapshots' \subseteq snapshots, UNCHANGED <<count, retagged>> PROVE Found(e)'
  BY <1>3 DEF Found, At, Wrapped, AsTaken
<1>4. CASE TagDone
  <2>1. PICK t \in snapshots, tags \in SUBSET Tags :
          /\ snapshots' = (snapshots \ {t}) \cup {[t EXCEPT !.tags = tags]}
          /\ retagged' = retagged \cup {t.id} /\ count' = count
    BY <1>4 DEF TagDone
  <2>2. [t EXCEPT !.tags = tags].id = t.id
    BY DEF TypeOK, Snapshots
  <2> QED BY <2>1, <2>2 DEF Found, At, Wrapped, AsTaken
<1> QED BY <1>1, <1>2, <1>3, <1>4, Effects DEF ForgetDone, ByHandDone

(* What NextStage lets a command go on to. *)
LEMMA StagesChecked ==
  ASSUME TypeOK, NEW e \in Executors, NEW c \in Commands, NEW m \in Modes, Given(e, c, m)
  PROVE  Checked(e)' /\ Found(e)'
<1> DEFINE sharing == JobsReferencing(setup)
           x == [stage |-> NextStage(c, m, sharing), c |-> c, mode |-> m, sharing |-> sharing]
<1>1. c.verb \in {"forget", "tag", "restore", "other"} /\ c.flagFirst \in BOOLEAN
  BY SharingAssumption DEF CommandTypes
<1>2. Cardinality(sharing) \in Nat
  BY FS_CardinalityType, FS_Subset, SharingAssumption DEF JobsReferencing
<1>3. cmd'[e] = x /\ x.stage # "done"
  BY DEF Given, TypeOK
<1>4. c.verb = "forget" => LetThrough(x)
  BY <1>1, <1>2, <1>3 DEF NextStage, gateBlocked, Subcommand, LetThrough
<1>5. x.stage = "look" =>
        c.verb = "restore" /\ m # ReadDirect /\ ~c.flagFirst /\ c.snapshot # Latest
  BY <1>1 DEF NextStage, Subcommand
<1>6. c.verb = "restore" /\ m # ReadDirect /\ ~c.flagFirst =>
        \/ x.stage = "look" /\ c.snapshot # Latest
        \/ x.stage = "run" /\ c.snapshot = Latest /\ LatestAllowed(c, m)
  BY <1>1, <1>3 DEF NextStage, Subcommand
<1> HIDE DEF x
<1>7. x.c = c /\ x.mode = m
  BY DEF x
<1> QED BY <1>3, <1>4, <1>5, <1>6, <1>7 DEF Checked, Found, At, Wrapped

(* A snapshot that is looked up and has the mode's tag is found. *)
LEMMA Looking ==
  ASSUME Inv, NEW e \in Executors, Look(e)
  PROVE  Checked(e)' /\ Found(e)'
<1> USE DEF Inv
<1>1. At(e, "look") /\ cmd[e] \in Execs
  BY DEF Look, At, TypeOK, Idle, Done
<1>2. Wrapped(e) /\ cmd[e].c.snapshot # Latest
  BY <1>1 DEF ExecInv, Checked
<1>3. CASE Exits(e)
  BY <1>3 DEF Exits, Done, TypeOK, Checked, Found, At
<1>4. CASE ~Exits(e)
  <2>1. PICK s \in snapshots : s.id = cmd[e].c.snapshot /\ readModeTag(cmd[e].mode) \in s.tags
    BY <1>4 DEF Look
  <2>2. cmd' = [cmd EXCEPT ![e].stage = "run"] /\ UNCHANGED <<snapshots, count, retagged>>
    BY <1>4 DEF Look, Goto, repository, history
  <2>3. cmd[e].mode \in Modes
    BY <1>1 DEF Execs
  <2>4. \A t \in snapshots : t.id = cmd[e].c.snapshot => AsTaken(t, cmd[e].mode)
    BY <2>1, <2>3 DEF ModeInv, IdsInv
  <2>5. cmd[e].c.snapshot <= count
    BY <2>1 DEF IdsInv
  <2>6. cmd'[e].stage = "run" /\ cmd'[e].c = cmd[e].c /\ cmd'[e].mode = cmd[e].mode
    BY <1>1, <2>2 DEF TypeOK, Execs
  <2> QED BY <1>2, <2>2, <2>4, <2>5, <2>6 DEF Checked, Found, At, Wrapped, AsTaken
<1> QED BY <1>3, <1>4

LEMMA ExecStepChecked ==
  ASSUME Inv, [Next]_vars
  PROVE  ExecInv'
<1>0. TypeOK /\ ExecInv
  BY DEF Inv
<1>1. ASSUME NEW e \in Executors, cmd'[e] = cmd[e] PROVE Checked(e)' /\ Found(e)'
  <2>1. Checked(e)'
    BY <1>0, <1>1 DEF ExecInv, Checked, At, Wrapped, LetThrough, LatestAllowed, hasTagFlag
  <2>2. ASSUME cmd[e] \in Execs PROVE Found(e)'
    BY <1>0, <1>1, <2>2, FoundStays DEF ExecInv
  <2>3. ASSUME cmd[e] \notin Execs PROVE Found(e)'
    BY <1>0, <1>1, <2>3 DEF TypeOK, Idle, Done, Found, At
  <2> QED BY <2>1, <2>2, <2>3
<1>2. ASSUME NEW e \in Executors, ExecStep(e) PROVE Checked(e)' /\ Found(e)'
  <2>1. ASSUME Exits(e) PROVE Checked(e)' /\ Found(e)'
    BY <1>0, <2>1 DEF Exits, Done, TypeOK, Checked, Found, At
  <2>2. CASE Give(e)
    <3>1. CASE \E c \in Commands, m \in Modes : Given(e, c, m)
      <4>1. PICK c \in Commands, m \in Modes : Given(e, c, m)
        BY <3>1
      <4> QED BY <1>0, <4>1, StagesChecked
    <3> QED BY <1>0, <2>1, <2>2, <3>1, Giving
  <2>3. CASE Look(e)
    BY <2>3, Looking
  <2>4. CASE TakeLock(e)
    <3>1. CASE Goto(e, "run")
      <4>1. cmd[e] \in Execs /\ At(e, "lock")
        BY <1>0, <2>4 DEF TakeLock, At, TypeOK, Idle, Done
      <4>2. cmd'[e] = [cmd[e] EXCEPT !.stage = "run"]
        BY <1>0, <3>1 DEF Goto, TypeOK
      <4>3. /\ cmd'[e].stage = "run" /\ cmd'[e].c = cmd[e].c /\ cmd'[e].mode = cmd[e].mode
            /\ cmd'[e].sharing = cmd[e].sharing
        BY <4>1, <4>2 DEF Execs
      <4>4. ~Wrapped(e) /\ (cmd[e].c.verb = "forget" => LetThrough(cmd[e]))
        BY <1>0, <4>1 DEF ExecInv, Checked
      <4> QED BY <4>3, <4>4 DEF Checked, Found, At, Wrapped, LetThrough, hasTagFlag
    <3>2. CASE Exits(e)
      BY <2>1, <3>2
    <3> QED BY <2>4, <3>1, <3>2 DEF TakeLock
  <2>5. CASE PassForget(e) \/ PassTag(e) \/ PassOther(e)
    BY <2>1, <2>5 DEF PassForget, PassTag, PassOther, Finishes
  <2> QED BY <1>2, <2>2, <2>3, <2>4, <2>5 DEF ExecStep
<1>3. ASSUME NEW e \in Executors, ExecStep(e), NEW f \in Executors, f # e
      PROVE  cmd'[f] = cmd[f]
  BY <1>0, <1>3 DEF TypeOK, ExecStep, Give, Look, TakeLock, PassForget, PassTag, PassOther, Finishes,
              Exits, Goto
<1>4. ASSUME NEW j \in Jobs, JobStep(j) PROVE cmd' = cmd
  BY <1>4 DEF JobStep, Load, Begin, Backup, Forget, RepoFails, Stops
<1>5. CASE EditConfig \/ UNCHANGED vars
  BY <1>1, <1>5 DEF EditConfig, vars, ExecInv
<1> QED BY <1>1, <1>2, <1>3, <1>4, <1>5 DEF Next, ExecInv

-----------------------------------------------------------------------------
(* The theorems. *)

LEMMA InitInv == Init => Inv
<1> SUFFICES ASSUME Init PROVE Inv
  OBVIOUS
<1>1. TypeOK
  BY InitTyped
<1>2. HolderInv /\ LastInv /\ IdsInv
  BY SharingAssumption DEF Init, HolderInv, LastInv, IdsInv, Running, Idle, NoSnapshot
<1>3. ModeInv /\ ExecInv /\ LatestKept
  BY DEF Init, ModeInv, ExecInv, Checked, Found, At, Idle, LatestKept
<1> QED BY <1>1, <1>2, <1>3 DEF Inv

LEMMA NextInv == Inv /\ [Next]_vars => Inv'
BY NextTyped, HolderStep, IdsStep, LastStep, ModeStep, ExecStepChecked, KeptStep DEF Inv

(* Whatever a restore through a read mode would restore was taken in that  *)
(* mode, by the invariant.                                                 *)
LEMMA RestorableAsTaken == Inv => RestoredAsTaken
<1> SUFFICES ASSUME Inv, NEW e \in Executors, At(e, "run"), Wrapped(e),
                    NEW s \in Restorable(cmd[e].c)
             PROVE  s.mode = cmd[e].mode \/ s.id \in retagged
  BY DEF RestoredAsTaken, Wrapped
<1> USE DEF Inv
<1>1. cmd[e] \in Execs
  BY DEF At, TypeOK, Idle, Done
<1>2. cmd[e].mode \in Modes
  BY <1>1 DEF Execs
<1>3. CASE cmd[e].c.snapshot # Latest
  <2>1. s \in snapshots /\ s.id = cmd[e].c.snapshot
    BY <1>3 DEF Restorable, Named
  <2> QED BY <1>3, <2>1 DEF ExecInv, Found, AsTaken
<1>4. CASE cmd[e].c.snapshot = Latest
  <2>1. LatestAllowed(cmd[e].c, cmd[e].mode)
    BY <1>4 DEF ExecInv, Checked
  <2>2. PICK f \in cmd[e].c.filters : f \subseteq s.tags /\ s \in snapshots
    BY <1>4, <2>1 DEF Restorable, Matching, LatestAllowed
  <2>3. readModeTag(cmd[e].mode) \in s.tags
    BY <2>1, <2>2 DEF LatestAllowed
  <2> QED BY <1>2, <2>2, <2>3 DEF ModeInv, AsTaken
<1> QED BY <1>3, <1>4

(* However many jobs share a repository, with whatever tags, retentions    *)
(* and edits of the config, and however many exec commands there are, the  *)
(* latest snapshot of a job whose name is no other's tag is there until    *)
(* exec tag changes its tags or the gate lets a forget by hand have it.    *)
THEOREM LatestSnapshotsKept == Spec => []LatestKept
<1>1. Inv => LatestKept
  BY DEF Inv
<1> QED BY <1>1, InitInv, NextInv, PTL DEF Spec

(* And no restore through a job's read mode, but one hidden behind a flag, *)
(* restores a snapshot taken in another mode, but one exec tag changed.    *)
THEOREM RestoresMatchModes == Spec => []RestoredAsTaken
BY InitInv, NextInv, RestorableAsTaken, PTL DEF Spec

=============================================================================
