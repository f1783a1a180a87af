----------------------------- MODULE StatusProofs -----------------------------
(***************************************************************************)
(* Theorems about Status, for any number of processes, readers, turns,     *)
(* reports and faults.  Inv says how the files and the reports of them     *)
(* hang together; counting AcquireJob's tries comes at the end.            *)
(***************************************************************************)
EXTENDS Status, FiniteSetTheorems, TLAPS

(* The job lock is that of the latest turn, and who tries for it has a try *)
(* left.                                                                   *)
LockInv ==
  /\ \A p \in Processes : pc[p] = "trying" => tries[p] < Tries
  /\ \A p \in Processes : turn[p] # NoTurn <=> pc[p] \notin Unlocked
  /\ \A p \in Processes : turn[p] # NoTurn => turn[p] = holder
  /\ \A p, q \in Processes : turn[p] # NoTurn /\ turn[q] # NoTurn => p = q
  /\ holder # NoTurn => holder = turns /\ lockFile
  /\ marker <= turns /\ lastRun <= turns /\ progress <= turns /\ lists <= turns

(* The progress record is of turn x or of a later one, or a leftover. *)
Fresh(x) == x = NoTurn \/ progress = NoTurn \/ progress >= x \/ progress \in leftovers

(* The lists are those of turn x or of a later one, or there are none to   *)
(* be had of it; or it is about to save them.                              *)
Listed(x) == lists >= x \/ x \in unlisted
ListedSoon(x) == Listed(x) \/ \E p \in Processes : pc[p] = "recorded" /\ turn[p] = x

FileInv ==
  /\ marker # NoTurn => lastRun < marker /\ (marker \in strays \/ marker \in InProgress)
  /\ \A p \in Processes :
       pc[p] \in {"clear", "tidy", "queued", "running"} => lastRun < turn[p]
  /\ \A p \in Processes :
       pc[p] = "running" => marker = turn[p] \/ turn[p] \in unmarked
  /\ Fresh(marker)
  /\ \A p \in Processes : pc[p] \in {"queued", "running"} => Fresh(turn[p])
  /\ ListedSoon(lastRun)

Sound(x) ==
  /\ x.marker <= turns /\ x.lastRun <= turns /\ Fresh(x.marker)
  /\ x.marker # NoTurn => x.lastRun < x.marker /\ (x.marker \in x.atLoad \/ x.marker \in strays)
  /\ x.atLoad \subseteq {x.marker} \cup unmarked
  /\ x.stage = "loaded" => ListedSoon(x.lastRun)
  /\ x.stage # "loaded" =>
       /\ x.held => x.marker <= x.holder
       /\ x.atProbe # {} => x.held
       /\ ~x.held => Listed(x.lastRun)
  /\ x.stage \in {"progressed", "told"} =>
       x.progress = NoTurn \/ x.progress >= x.marker \/ x.progress \in leftovers
  /\ x.stage = "told" /\ ~x.held => x.lists >= x.lastRun \/ x.lastRun \in unlisted

ReportInv == \A r \in Readers : report[r].stage # "idle" => Sound(report[r])

Inv == TypeOK /\ LockInv /\ FileInv /\ ReportInv

-----------------------------------------------------------------------------
(* Types.                                                                  *)

(* What the probe, the reading of the progress record and of the lists put *)
(* into a report.                                                          *)
LEMMA ProbeUpdate ==
  ASSUME NEW x \in Reports, NEW stage \in {"probing", "probed"}, NEW held \in BOOLEAN,
         NEW t \in TurnOrNone, NEW seen \in SUBSET Turns
  PROVE  [x EXCEPT !.stage = stage, !.held = held, !.holder = t, !.atProbe = seen] \in Reports
  BY DEF Reports

LEMMA ProgressUpdate ==
  ASSUME NEW x \in Reports, NEW t \in TurnOrNone
  PROVE  [x EXCEPT !.stage = "progressed", !.progress = t] \in Reports
  BY DEF Reports

LEMMA ListsUpdate ==
  ASSUME NEW x \in Reports, NEW t \in TurnOrNone
  PROVE  [x EXCEPT !.stage = "told", !.lists = t] \in Reports
  BY DEF Reports

LEMMA ProbingFinite == IsFiniteSet(Probing) /\ Cardinality(Probing) \in Nat
<1>1. Probing \subseteq Readers
  BY DEF Probing
<1>2. IsFiniteSet(Probing)
  BY <1>1, StatusAssumption, FS_Subset
<1> QED
  BY <1>2, FS_CardinalityType

LEMMA CountedToType ==
  ASSUME NEW n \in Nat
  PROVE  CountedTo(n) \in 0 .. Tries
  BY StatusAssumption DEF CountedTo

LEMMA TypeStep == TypeOK /\ LockInv /\ [Next]_vars => TypeOK'
<1> SUFFICES ASSUME TypeOK, LockInv, [Next]_vars PROVE TypeOK'
  OBVIOUS
<1> USE DEF TypeOK, Locking, lockVars, readVars, files, history, TurnOrNone, Turns, NoTurn
<1>0. MaxTurns \in Nat /\ MaxReports \in Nat /\ MaxFaults \in Nat /\ Tries \in Nat \ {0}
  BY StatusAssumption
<1>00. \A p \in Processes : pc[p] \notin Unlocked => turn[p] \in Turns
  BY DEF LockInv
<1>000. CountedTo(Cardinality(Probing)) \in 0 .. Tries
  BY ProbingFinite, CountedToType
<1>1. ASSUME NEW p \in Processes, Arrive(p) PROVE TypeOK'
  BY <1>0, <1>000, <1>1 DEF Arrive, StartAfresh, Goto, Stages
<1>2. ASSUME NEW p \in Processes, Acquire(p) PROVE TypeOK'
  BY <1>0, <1>000, <1>2 DEF Acquire, StartAfresh, Goto, Stages
<1>3. ASSUME NEW p \in Processes, TryInVain(p) PROVE TypeOK'
  <2>1. tries[p] + 1 \in 0 .. Tries
    BY <1>0, <1>3 DEF TryInVain, MayTry, LockInv
  <2>2. tries' \in [Processes -> 0 .. Tries]
    BY <2>1, <1>3 DEF TryInVain
  <2>3. turnedAway' \in [Processes -> BOOLEAN]
    BY <1>3, Zenon DEF TryInVain
  <2>4. pc' \in [Processes -> Stages] /\ inTheWay' \in [Processes -> SUBSET Readers]
    <3>1. Probing \in SUBSET Readers
      BY DEF Probing
    <3> QED
      BY <1>3, <3>1 DEF TryInVain, Goto, Stages
  <2> QED
    BY <1>0, <1>3, <2>2, <2>3, <2>4 DEF TryInVain
<1>4. ASSUME NEW p \in Processes, ClearRunning(p) PROVE TypeOK'
  BY <1>0, <1>4 DEF ClearRunning, Goto, Stages, Fault, NoFault
<1>5. ASSUME NEW p \in Processes, Tidy(p) PROVE TypeOK'
  BY <1>0, <1>5 DEF Tidy, RemoveProgress, Goto, Stages, Fault, NoFault
<1>6. ASSUME NEW p \in Processes, LeaveQueue(p) PROVE TypeOK'
  BY <1>0, <1>6 DEF LeaveQueue, Goto, Stages
<1>7. ASSUME NEW p \in Processes, MarkRunning(p) PROVE TypeOK'
  <2>1. turn[p] \in Turns
    BY <1>00, <1>7 DEF MarkRunning, Unlocked
  <2> QED
    BY <1>0, <1>7, <2>1 DEF MarkRunning, Goto, Stages, Fault, NoFault
<1>8. ASSUME NEW p \in Processes, SaveProgress(p) PROVE TypeOK'
  BY <1>0, <1>8 DEF SaveProgress
<1>9. ASSUME NEW p \in Processes, RecordRun(p) PROVE TypeOK'
  <2>1. turn[p] \in Turns
    BY <1>00, <1>9 DEF RecordRun, Unlocked
  <2> QED
    BY <1>0, <1>9, <2>1 DEF RecordRun, Goto, Stages, Fault, NoFault
<1>10. ASSUME NEW p \in Processes, SaveSnapshots(p) PROVE TypeOK'
  <2>1. turn[p] \in Turns
    BY <1>00, <1>10 DEF SaveSnapshots, Unlocked
  <2> QED
    BY <1>0, <1>10, <2>1 DEF SaveSnapshots, Goto, Stages
<1>11. ASSUME NEW p \in Processes, EndProgress(p) PROVE TypeOK'
  BY <1>0, <1>11 DEF EndProgress, RemoveProgress, Goto, Stages, Fault, NoFault
<1>12. ASSUME NEW p \in Processes, Unlock(p) PROVE TypeOK'
  BY <1>0, <1>12 DEF Unlock, LetGo, Goto, Stages
<1>13. ASSUME NEW p \in Processes, Kill(p) PROVE TypeOK'
  <2>1. turn[p] \in Turns
    BY <1>00, <1>13 DEF Kill
  <2> QED
    BY <1>0, <1>13, <2>1 DEF Kill, LetGo, Goto, Stages, Fault
<1>14. ASSUME NEW r \in Readers, NEW x \in Reports, Read(r, x),
              reports' \in 0 .. MaxReports, faults' \in 0 .. MaxFaults,
              inTheWay' \in [Processes -> SUBSET Readers], met' \in [Processes -> 0 .. Tries]
       PROVE  TypeOK'
  BY <1>14 DEF Read
<1>15. \A r \in Readers : report[r] \in Reports
  OBVIOUS
<1>16. ASSUME NEW r \in Readers, Load(r) PROVE TypeOK'
  <2> DEFINE x == [NoReport EXCEPT !.stage = "loaded", !.marker = marker, !.lastRun = lastRun,
                              !.atLoad = InProgress]
  <2>1. InProgress \in SUBSET Turns
    BY <1>00 DEF InProgress, Unlocked
  <2>2. x \in Reports
    BY <2>1 DEF NoReport, Reports
  <2>3. reports' \in 0 .. MaxReports /\ Read(r, x) /\ UNCHANGED <<inTheWay, met, faults>>
    BY <1>0, <1>16 DEF Load
  <2> QED
    BY <1>14, <2>2, <2>3
<1>17. ASSUME NEW r \in Readers, Probe(r) PROVE TypeOK'
  <2> DEFINE stage == IF TakesShared THEN "probing" ELSE "probed"
             held == lockFile /\ holder # NoTurn
             x == [report[r] EXCEPT !.stage = stage, !.held = held,
                     !.holder = holder, !.atProbe = InProgress]
  <2>1. InProgress \in SUBSET Turns
    BY <1>00 DEF InProgress, Unlocked
  <2>2. stage \in {"probing", "probed"} /\ held \in BOOLEAN
    OBVIOUS
  <2>3. x \in Reports
    <3>1. holder \in TurnOrNone
      OBVIOUS
    <3> HIDE DEF stage, held, TypeOK, TurnOrNone, Turns, NoTurn
    <3> QED
      BY <1>15, <2>1, <2>2, <3>1, ProbeUpdate, Zenon
  <2>4. Read(r, x) /\ UNCHANGED <<reports, inTheWay, faults>>
    BY <1>17 DEF Probe
  <2>5. met' \in [Processes -> 0 .. Tries]
    <3>1. \A p \in Processes : CountedTo(met[p] + 1) \in 0 .. Tries /\ met[p] \in 0 .. Tries
      BY <1>0, CountedToType
    <3> QED
      BY <1>17, <3>1 DEF Probe
  <2> QED
    BY <1>14, <2>3, <2>4, <2>5
<1>18. ASSUME NEW r \in Readers, Release(r) PROVE TypeOK'
  <2>1. [report[r] EXCEPT !.stage = "probed"] \in Reports
    BY <1>15 DEF Reports
  <2>2. Read(r, [report[r] EXCEPT !.stage = "probed"]) /\ UNCHANGED <<reports, met, faults>>
        /\ inTheWay' \in [Processes -> SUBSET Readers]
    BY <1>18 DEF Release
  <2> QED
    BY <1>14, <2>1, <2>2
<1>19. ASSUME NEW r \in Readers, ReadProgress(r) PROVE TypeOK'
  <2> DEFINE shown == IF ShownRunning(r) # NoTurn /\ r \in WithProgress THEN progress ELSE NoTurn
             x == [report[r] EXCEPT !.stage = "progressed", !.progress = shown]
  <2>1. shown \in TurnOrNone
    OBVIOUS
  <2>2. x \in Reports
    <3> HIDE DEF shown
    <3> QED
      BY <1>15, <2>1, ProgressUpdate
  <2>3. Read(r, x) /\ UNCHANGED <<reports, inTheWay, met, faults>>
    BY <1>19 DEF ReadProgress
  <2> QED
    BY <1>14, <2>2, <2>3
<1>20. ASSUME NEW r \in Readers, ReadLists(r) PROVE TypeOK'
  <2>1. [report[r] EXCEPT !.stage = "told", !.lists = lists] \in Reports
    BY <1>15, ListsUpdate
  <2>2. Read(r, [report[r] EXCEPT !.stage = "told", !.lists = lists])
        /\ UNCHANGED <<reports, inTheWay, met, faults>>
    BY <1>20 DEF ReadLists
  <2> QED
    BY <1>14, <2>1, <2>2
<1>21. ASSUME NEW r \in Readers, ReadFails(r) PROVE TypeOK'
  <2>1. NoReport \in Reports
    BY DEF NoReport, Reports
  <2>2. Read(r, NoReport) /\ UNCHANGED <<reports, inTheWay, met>> /\ faults' \in 0 .. MaxFaults
    BY <1>0, <1>21 DEF ReadFails, Fault
  <2> QED
    BY <1>14, <2>1, <2>2
<1>22. CASE UNCHANGED vars
  BY <1>22 DEF vars
<1> QED
  BY <1>1, <1>2, <1>3, <1>4, <1>5, <1>6, <1>7, <1>8, <1>9, <1>10, <1>11, <1>12, <1>13,
     <1>16, <1>17, <1>18, <1>19, <1>20, <1>21, <1>22 DEF Next, Execute, ReportOn

-----------------------------------------------------------------------------
(* The lock.                                                               *)

(* A step within a turn, and a step of a reader, keep the lock as it is.   *)
LEMMA LockKept ==
  ASSUME TypeOK, TypeOK', LockInv, UNCHANGED <<turn, tries, holder, turns, lockFile>>,
         \A q \in Processes : pc'[q] = pc[q] \/ {pc[q], pc'[q]} \cap Unlocked = {},
         \A x \in {<<marker, marker'>>, <<lastRun, lastRun'>>, <<progress, progress'>>,
                   <<lists, lists'>>} : x[2] = x[1] \/ x[2] <= turns
  PROVE  LockInv'
<1>1. "trying" \in Unlocked
  BY DEF Unlocked
<1> QED
  BY <1>1 DEF LockInv

LEMMA LetGoLock ==
  ASSUME TypeOK, TypeOK', LockInv, NEW p \in Processes, pc[p] \notin Unlocked, LetGo(p),
         UNCHANGED <<files, turns, lockFile, tries>>
  PROVE  LockInv'
<1>1. turn[p] # NoTurn
  BY DEF LockInv
<1>2. \A q \in Processes \ {p} : turn[q] = NoTurn
  BY <1>1 DEF LockInv
<1> QED
  BY <1>2 DEF LetGo, Goto, LockInv, TypeOK, files, Unlocked

LEMMA LockStep == TypeOK /\ TypeOK' /\ LockInv /\ [Next]_vars => LockInv'
<1> SUFFICES ASSUME TypeOK, TypeOK', LockInv, [Next]_vars PROVE LockInv'
  OBVIOUS
<1>0. Tries \in Nat \ {0} /\ turns \in Nat /\ MaxTurns \in Nat
  BY StatusAssumption DEF TypeOK
<1>01. \A p \in Processes : pc[p] \notin Unlocked => turn[p] \in Turns /\ turn[p] = holder /\ holder = turns
  BY DEF LockInv, TypeOK, TurnOrNone, NoTurn
<1>1. ASSUME NEW p \in Processes, Arrive(p) PROVE LockInv'
  BY <1>0, <1>1 DEF Arrive, StartAfresh, Goto, LockInv, TypeOK, Unlocked, files
<1>2. ASSUME NEW p \in Processes, Acquire(p) PROVE LockInv'
  <2>1. holder = NoTurn /\ pc[p] = "trying"
    BY <1>2 DEF Acquire, MayTry, LockFree
  <2>2. \A q \in Processes : turn[q] = NoTurn
    BY <2>1 DEF LockInv
  <2>3. /\ \A q \in Processes : turn'[q] = IF q = p THEN turns + 1 ELSE NoTurn
        /\ \A q \in Processes : pc'[q] = IF q = p THEN "clear" ELSE pc[q]
        /\ \A q \in Processes : tries'[q] = IF q = p THEN 0 ELSE tries[q]
    BY <1>2, <2>2 DEF Acquire, StartAfresh, Goto, TypeOK
  <2>4. holder' = turns + 1 /\ turns' = turns + 1 /\ lockFile' = TRUE
        /\ UNCHANGED <<marker, lastRun, progress, lists>>
    BY <1>2 DEF Acquire, files
  <2>5. \A q \in Processes : turn'[q] # NoTurn <=> pc'[q] \notin Unlocked
    BY <1>0, <2>1, <2>2, <2>3 DEF LockInv, Unlocked, NoTurn
  <2>6. marker <= turns' /\ lastRun <= turns' /\ progress <= turns' /\ lists <= turns'
    BY <1>0, <2>4 DEF LockInv, TypeOK, TurnOrNone, Turns, NoTurn
  <2>7. \A q \in Processes : pc'[q] = "trying" => tries'[q] < Tries
    BY <1>0, <2>3 DEF LockInv
  <2> QED
    BY <1>0, <2>3, <2>4, <2>5, <2>6, <2>7 DEF LockInv, NoTurn
<1>3. ASSUME NEW p \in Processes, TryInVain(p) PROVE LockInv'
  <2>1. pc[p] = "trying" /\ UNCHANGED <<turn, holder, turns, marker, lastRun, progress, lists>>
        /\ lockFile' = TRUE
    BY <1>3 DEF TryInVain, MayTry, files
  <2>2. \A q \in Processes : pc'[q] = pc[q] \/ (q = p /\ pc'[q] = "refused")
    BY <1>3 DEF TryInVain, Goto, TypeOK
  <2>3. \A q \in Processes : pc'[q] = "trying" => tries'[q] < Tries
    <3> SUFFICES ASSUME NEW q \in Processes, pc'[q] = "trying" PROVE tries'[q] < Tries
      OBVIOUS
    <3>1. CASE q # p
      BY <1>3, <2>2, <3>1 DEF TryInVain, TypeOK, LockInv
    <3>2. CASE q = p
      <4>1. tries[p] \in Nat /\ tries[p] < Tries /\ tries'[p] = tries[p] + 1
        BY <1>3, <2>1 DEF TryInVain, TypeOK, LockInv
      <4>2. tries[p] + 1 # Tries
        BY <1>3, <3>2 DEF TryInVain, GivesUp, Goto, TypeOK
      <4> QED
        BY <1>0, <3>2, <4>1, <4>2
    <3> QED
      BY <3>1, <3>2
  <2>4. \A q \in Processes : pc'[q] \in Unlocked <=> pc[q] \in Unlocked
    BY <2>1, <2>2 DEF Unlocked
  <2> QED
    BY <2>1, <2>3, <2>4 DEF LockInv
<1>4. ASSUME NEW p \in Processes, pc[p] \notin Unlocked,
             NEW stage, stage \notin Unlocked, Goto(p, stage) \/ UNCHANGED pc,
             UNCHANGED Locking,
             marker' \in {marker, NoTurn, turn[p]}, lastRun' \in {lastRun, turn[p]},
             progress' \in {progress, NoTurn, turn[p]}, lists' \in {lists, turn[p]}
      PROVE  LockInv'
  <2>1. \A q \in Processes : pc'[q] = pc[q] \/ {pc[q], pc'[q]} \cap Unlocked = {}
    BY <1>4 DEF Goto, TypeOK
  <2>2. turn[p] <= turns /\ NoTurn <= turns
    BY <1>0, <1>01, <1>4 DEF NoTurn
  <2> QED
    BY <1>4, <2>1, <2>2, LockKept DEF Locking, lockVars
<1>5. ASSUME NEW p \in Processes,
             ClearRunning(p) \/ Tidy(p) \/ LeaveQueue(p) \/ MarkRunning(p) \/ SaveProgress(p)
               \/ RecordRun(p) \/ SaveSnapshots(p) \/ EndProgress(p)
      PROVE  LockInv'
  <2>1. CASE ClearRunning(p)
    BY <1>4, <2>1 DEF ClearRunning, Unlocked
  <2>2. CASE Tidy(p)
    BY <1>4, <2>2 DEF Tidy, RemoveProgress, Unlocked
  <2>3. CASE LeaveQueue(p)
    BY <1>4, <2>3 DEF LeaveQueue, Unlocked, files
  <2>4. CASE MarkRunning(p)
    BY <1>4, <2>4 DEF MarkRunning, Unlocked
  <2>5. CASE SaveProgress(p)
    BY <1>4, <2>5 DEF SaveProgress, Unlocked
  <2>6. CASE RecordRun(p)
    BY <1>4, <2>6 DEF RecordRun, Unlocked
  <2>7. CASE SaveSnapshots(p)
    BY <1>4, <2>7 DEF SaveSnapshots, Unlocked
  <2>8. CASE EndProgress(p)
    BY <1>4, <2>8 DEF EndProgress, RemoveProgress, Unlocked
  <2> QED
    BY <1>5, <2>1, <2>2, <2>3, <2>4, <2>5, <2>6, <2>7, <2>8
<1>6. ASSUME NEW p \in Processes, Unlock(p) \/ Kill(p) PROVE LockInv'
  BY <1>6, LetGoLock DEF Unlock, Kill, Unlocked
<1>7. ASSUME NEW r \in Readers, ReportOn(r) PROVE LockInv'
  <2>1. UNCHANGED <<pc, turn, turns, lockFile, holder, tries, files>>
    BY <1>7 DEF ReportOn, Load, Probe, Release, ReadProgress, ReadLists, ReadFails, Read
  <2> QED
    BY <2>1, LockKept DEF files
<1>8. CASE UNCHANGED vars
  BY <1>8, LockKept DEF vars, lockVars, files
<1> QED
  BY <1>1, <1>2, <1>3, <1>5, <1>6, <1>7, <1>8 DEF Next, Execute

-----------------------------------------------------------------------------
(* The files.                                                              *)

(* What has been said of a turn stays true as time goes on.                *)
LEMMA Lasting ==
  ASSUME TypeOK, TypeOK', LockInv, LockInv', [Next]_vars
  PROVE  /\ strays \subseteq strays' /\ unmarked \subseteq unmarked'
         /\ leftovers \subseteq leftovers' /\ turns <= turns'
         /\ \A x \in 0 .. turns : Fresh(x) => Fresh(x)'
         /\ \A x \in 0 .. turns : Listed(x) => Listed(x)'
         /\ \A x \in 0 .. turns : ListedSoon(x) => ListedSoon(x)'
<1> USE DEF Locking, lockVars, readVars, files, history
<1>0. turns \in Nat /\ {progress, lists} \subseteq Nat
      /\ {progress', lists'} \subseteq Nat
  BY StatusAssumption DEF TypeOK, TurnOrNone, Turns, NoTurn
<1>1. \A p \in Processes : pc[p] \notin Unlocked => turn[p] = turns
  BY DEF LockInv
<1>2. /\ strays \subseteq strays' /\ unmarked \subseteq unmarked' /\ unlisted \subseteq unlisted'
      /\ leftovers \subseteq leftovers' /\ turns <= turns'
      /\ progress' \in {progress, NoTurn, turns} /\ lists' \in {lists, turns}
  <2>1. ASSUME NEW p \in Processes, Arrive(p) \/ Acquire(p) \/ TryInVain(p) \/ LeaveQueue(p)
               \/ Unlock(p) \/ Kill(p)
        PROVE  <1>2!:
    BY <1>0, <2>1 DEF Arrive, Acquire, TryInVain, LeaveQueue, Unlock, Kill
  <2>2. ASSUME NEW p \in Processes, ClearRunning(p) \/ Tidy(p) \/ MarkRunning(p)
               \/ RecordRun(p) \/ EndProgress(p)
        PROVE  <1>2!:
    BY <1>0, <2>2 DEF ClearRunning, Tidy, MarkRunning, RecordRun, EndProgress, RemoveProgress
  <2>3. ASSUME NEW p \in Processes, SaveProgress(p) \/ SaveSnapshots(p) PROVE <1>2!:
    BY <1>0, <1>1, <2>3 DEF SaveProgress, SaveSnapshots, Unlocked
  <2>4. ASSUME NEW r \in Readers, ReportOn(r) PROVE <1>2!:
    BY <1>0, <2>4 DEF ReportOn, Load, Probe, Release, ReadProgress, ReadLists, ReadFails, Read
  <2>5. CASE UNCHANGED vars
    BY <1>0, <2>5 DEF vars
  <2> QED
    BY <2>1, <2>2, <2>3, <2>4, <2>5 DEF Next, Execute
<1>3. \A x \in 0 .. turns : Fresh(x) => Fresh(x)'
  BY <1>0, <1>2 DEF Fresh, NoTurn
<1>4. \A x \in 0 .. turns : Listed(x) => Listed(x)'
  BY <1>0, <1>2 DEF Listed
<1>5. ASSUME NEW p \in Processes, NEW x \in 0 .. turns, pc[p] = "recorded", turn[p] = x
      PROVE  (pc'[p] = "recorded" /\ turn'[p] = x) \/ Listed(x)'
  <2> DEFINE Stays == (pc'[p] = "recorded" /\ turn'[p] = x) \/ Listed(x)'
  <2>1. x = turns
    BY <1>1, <1>5 DEF Unlocked
  <2>2. ASSUME NEW q \in Processes, q # p, Execute(q) PROVE Stays
    BY <1>5, <2>2 DEF Execute, Arrive, Acquire, TryInVain, ClearRunning, Tidy, LeaveQueue,
       MarkRunning, SaveProgress, RecordRun, SaveSnapshots, EndProgress, Unlock, Kill, LetGo, Goto,
       TypeOK
  <2>3. CASE SaveSnapshots(p)
    BY <1>0, <1>5, <2>1, <2>3 DEF SaveSnapshots, Listed
  <2>4. CASE Kill(p)
    BY <1>5, <2>4 DEF Kill, Listed
  <2>5. ASSUME Execute(p), ~SaveSnapshots(p), ~Kill(p) PROVE FALSE
    BY <1>5, <2>5 DEF Execute, Arrive, Acquire, TryInVain, MayTry, ClearRunning, Tidy, LeaveQueue,
       MarkRunning, SaveProgress, RecordRun, EndProgress, Unlock
  <2>6. ASSUME NEW r \in Readers, ReportOn(r) PROVE Stays
    BY <1>5, <2>6 DEF ReportOn, Load, Probe, Release, ReadProgress, ReadLists, ReadFails, Read
  <2>7. CASE UNCHANGED vars
    BY <1>5, <2>7 DEF vars
  <2> QED
    BY <2>2, <2>3, <2>4, <2>5, <2>6, <2>7 DEF Next
<1>6. \A x \in 0 .. turns : ListedSoon(x) => ListedSoon(x)'
  <2> SUFFICES ASSUME NEW x \in 0 .. turns, ListedSoon(x) PROVE ListedSoon(x)'
    OBVIOUS
  <2>1. CASE Listed(x)
    BY <1>4, <2>1 DEF ListedSoon
  <2>2. ASSUME NEW p \in Processes, pc[p] = "recorded", turn[p] = x PROVE ListedSoon(x)'
    BY <1>5, <2>2 DEF ListedSoon
  <2> QED
    BY <2>1, <2>2 DEF ListedSoon
<1> QED
  BY <1>2, <1>3, <1>4, <1>6

(* The stages of a turn until its run is on record. *)
Unrecorded == {"clear", "tidy", "queued", "running"}

LEMMA FileStep == TypeOK /\ TypeOK' /\ LockInv /\ LockInv' /\ FileInv /\ [Next]_vars => FileInv'
<1> SUFFICES ASSUME TypeOK, TypeOK', LockInv, LockInv', FileInv, [Next]_vars PROVE FileInv'
  OBVIOUS
<1> USE DEF Locking, lockVars, readVars, files, history
<1>0. turns \in Nat /\ {marker, lastRun} \subseteq 0 .. turns
      /\ \A p \in Processes : turn[p] \in 0 .. turns
  BY StatusAssumption DEF TypeOK, LockInv, TurnOrNone, Turns, NoTurn
<1>1. /\ strays \subseteq strays' /\ unmarked \subseteq unmarked'
      /\ \A x \in 0 .. turns : Fresh(x) => Fresh(x)'
      /\ \A x \in 0 .. turns : ListedSoon(x) => ListedSoon(x)'
  BY Lasting
<1>2. \A p, q \in Processes : pc[p] \notin Unlocked /\ pc[q] \notin Unlocked => p = q
  BY DEF LockInv
(* Steps that have no part in what the invariant is about. *)
<1>3. ASSUME UNCHANGED <<marker, lastRun>>,
             \A q \in Processes :
               \/ pc'[q] = pc[q] /\ turn'[q] = turn[q]
               \/ pc'[q] \notin Unrecorded /\ pc[q] # "running"
      PROVE  FileInv'
  <2>1. InProgress \subseteq InProgress'
    <3>1. \A q \in Processes : pc[q] = "running" => pc'[q] = "running" /\ turn'[q] = turn[q]
      BY <1>3
    <3> QED
      BY <3>1 DEF InProgress
  <2>2. Fresh(marker)'
    BY <1>0, <1>1, <1>3 DEF FileInv, Fresh
  <2>3. ListedSoon(lastRun)'
    BY <1>0, <1>1, <1>3 DEF FileInv, ListedSoon, Listed
  <2>4. \A q \in Processes : pc'[q] \in {"queued", "running"} => Fresh(turn[q])'
    BY <1>0, <1>1, <1>3 DEF FileInv, Fresh, Unrecorded
  <2> QED
    BY <1>1, <1>3, <2>1, <2>2, <2>3, <2>4 DEF FileInv, Unrecorded
<1>4. ASSUME NEW p \in Processes,
             Arrive(p) \/ TryInVain(p) \/ LeaveQueue(p) \/ SaveProgress(p) \/ SaveSnapshots(p)
               \/ EndProgress(p) \/ Unlock(p)
      PROVE  FileInv'
  BY <1>3, <1>4 DEF Arrive, TryInVain, MayTry, LeaveQueue, SaveProgress, SaveSnapshots, EndProgress,
     Unlock, LetGo, Goto, TypeOK, Unrecorded
<1>5. ASSUME NEW r \in Readers, ReportOn(r) PROVE FileInv'
  BY <1>3, <1>5 DEF ReportOn, Load, Probe, Release, ReadProgress, ReadLists, ReadFails, Read
<1>6. CASE UNCHANGED vars
  BY <1>3, <1>6 DEF vars
<1>8. ASSUME NEW p \in Processes, Acquire(p) PROVE FileInv'
  <2>1. /\ UNCHANGED <<marker, lastRun, strays>> /\ pc[p] = "trying"
        /\ \A q \in Processes : pc'[q] = IF q = p THEN "clear" ELSE pc[q]
        /\ \A q \in Processes : turn'[q] = IF q = p THEN turns + 1 ELSE turn[q]
    BY <1>8 DEF Acquire, MayTry, Goto, TypeOK
  <2>2. InProgress \subseteq InProgress'
    BY <2>1 DEF InProgress
  <2>3. Fresh(marker)'
    BY <1>0, <1>1, <2>1 DEF FileInv, Fresh
  <2>4. ListedSoon(lastRun)'
    BY <1>0, <1>1, <2>1 DEF FileInv, ListedSoon, Listed
  <2>5. \A q \in Processes : pc'[q] \in {"queued", "running"} => Fresh(turn[q])'
    BY <1>0, <1>1, <2>1 DEF FileInv, Fresh
  <2>6. \A q \in Processes : pc'[q] \in Unrecorded => lastRun' < turn'[q]
    BY <1>0, <2>1 DEF FileInv, Unrecorded
  <2> QED
    BY <1>1, <2>1, <2>2, <2>3, <2>4, <2>5, <2>6 DEF FileInv, Unrecorded
<1>9. ASSUME NEW p \in Processes, ClearRunning(p) \/ Tidy(p) PROVE FileInv'
  <2>1. pc[p] \in {"clear", "tidy"} /\ marker' \in {marker, NoTurn} /\ UNCHANGED <<lastRun, turn>>
        /\ (Goto(p, "tidy") \/ Goto(p, "queued"))
    BY <1>9 DEF ClearRunning, Tidy
  <2>2. /\ pc[p] \notin Unlocked
        /\ \A q \in Processes : q # p => pc'[q] = pc[q] /\ pc[q] \in Unlocked
        /\ pc'[p] \in {"tidy", "queued"}
    BY <1>2, <2>1 DEF Unlocked, Goto, TypeOK
  <2>3. InProgress' = InProgress
    BY <2>1, <2>2 DEF InProgress, Unlocked
  <2>4. marker' # NoTurn => lastRun' < marker' /\ (marker' \in strays' \/ marker' \in InProgress')
    BY <1>1, <2>1, <2>3 DEF FileInv
  <2>5. Fresh(marker)'
    BY <1>0, <1>1, <2>1 DEF FileInv, Fresh
  <2>6. ListedSoon(lastRun)'
    BY <1>0, <1>1, <2>1 DEF FileInv, ListedSoon, Listed
  <2>7. pc'[p] = "queued" => Fresh(turn[p])'
    <3>1. CASE ClearRunning(p)
      BY <3>1 DEF ClearRunning, Goto, TypeOK
    <3>2. CASE Tidy(p)
      BY <3>2 DEF Tidy, RemoveProgress, Fresh
    <3> QED
      BY <1>9, <3>1, <3>2
  <2>8. lastRun' < turn'[p]
    BY <2>1 DEF FileInv
  <2> QED
    BY <2>2, <2>4, <2>5, <2>6, <2>7, <2>8 DEF FileInv, Unlocked
<1>10. ASSUME NEW p \in Processes, MarkRunning(p) PROVE FileInv'
  <2>1. /\ pc[p] = "queued" /\ Goto(p, "running") /\ UNCHANGED <<lastRun, turn, strays>>
        /\ marker' = turn[p] \/ (marker' = marker /\ turn[p] \in unmarked')
    BY <1>10 DEF MarkRunning
  <2>2. /\ pc[p] \notin Unlocked
        /\ \A q \in Processes : q # p => pc'[q] = pc[q] /\ pc[q] \in Unlocked
        /\ pc'[p] = "running"
    BY <1>2, <2>1 DEF Unlocked, Goto, TypeOK
  <2>3. InProgress = {} /\ turn[p] \in InProgress'
    BY <2>1, <2>2 DEF InProgress, Unlocked
  <2>4. lastRun' < turn'[p] /\ (marker' = turn'[p] \/ turn'[p] \in unmarked')
    BY <2>1 DEF FileInv
  <2>5. marker' # NoTurn => lastRun' < marker' /\ (marker' \in strays' \/ marker' \in InProgress')
    BY <2>1, <2>3, <2>4 DEF FileInv
  <2>6. Fresh(turn[p])'
    BY <1>0, <1>1, <2>1 DEF FileInv, Fresh
  <2>7. Fresh(marker)'
    BY <1>0, <1>1, <2>1, <2>6 DEF FileInv, Fresh
  <2>8. ListedSoon(lastRun)'
    BY <1>0, <1>1, <2>1 DEF FileInv, ListedSoon, Listed
  <2> QED
    BY <2>2, <2>4, <2>5, <2>6, <2>7, <2>8 DEF FileInv, Unlocked
<1>11. ASSUME NEW p \in Processes, RecordRun(p) PROVE FileInv'
  <2>1. /\ pc[p] = "running" /\ Goto(p, "recorded") /\ UNCHANGED turn
        /\ \/ lastRun' = turn[p] /\ marker' = NoTurn
           \/ UNCHANGED <<lastRun, marker>> /\ turn[p] \in strays'
    BY <1>11 DEF RecordRun
  <2>2. /\ pc[p] \notin Unlocked
        /\ \A q \in Processes : q # p => pc'[q] = pc[q] /\ pc[q] \in Unlocked
        /\ pc'[p] = "recorded"
    BY <1>2, <2>1 DEF Unlocked, Goto, TypeOK
  <2>3. InProgress = {turn[p]}
    BY <2>1, <2>2 DEF InProgress, Unlocked
  <2>4. marker' # NoTurn => lastRun' < marker' /\ marker' \in strays'
    BY <1>1, <2>1, <2>3 DEF FileInv
  <2>5. Fresh(marker)'
    BY <1>0, <1>1, <2>1 DEF FileInv, Fresh
  <2>6. ListedSoon(lastRun)'
    <3>1. CASE lastRun' = turn[p]
      BY <2>1, <2>2, <3>1 DEF ListedSoon
    <3>2. CASE lastRun' = lastRun
      BY <1>0, <1>1, <3>2 DEF FileInv, ListedSoon, Listed
    <3> QED
      BY <2>1, <3>1, <3>2
  <2> QED
    BY <2>2, <2>4, <2>5, <2>6 DEF FileInv, Unlocked
<1>12. ASSUME NEW p \in Processes, Kill(p) PROVE FileInv'
  <2>1. /\ pc[p] \notin Unlocked /\ UNCHANGED <<lastRun, marker>> /\ turn[p] \in strays'
        /\ \A q \in Processes : q # p => pc'[q] = pc[q] /\ pc[q] \in Unlocked
        /\ pc'[p] = "idle"
    BY <1>2, <1>12 DEF Kill, LetGo, Goto, TypeOK
  <2>2. InProgress \subseteq {turn[p]}
    BY <2>1 DEF InProgress, Unlocked
  <2>3. marker' # NoTurn => lastRun' < marker' /\ marker' \in strays'
    BY <1>1, <2>1, <2>2 DEF FileInv
  <2>4. Fresh(marker)'
    BY <1>0, <1>1, <2>1 DEF FileInv, Fresh
  <2>5. ListedSoon(lastRun)'
    BY <1>0, <1>1, <2>1 DEF FileInv, ListedSoon, Listed
  <2> QED
    BY <2>1, <2>3, <2>4, <2>5 DEF FileInv, Unlocked
<1> QED
  BY <1>4, <1>5, <1>6, <1>8, <1>9, <1>10, <1>11, <1>12 DEF Next, Execute

-----------------------------------------------------------------------------
(* The reports.                                                            *)

(* A report that is sound stays so.                                        *)
LEMMA SoundLasting ==
  ASSUME TypeOK, TypeOK', LockInv, LockInv', [Next]_vars,
         NEW x \in Reports, Sound(x)
  PROVE  Sound(x)'
<1>0. turns \in Nat /\ turns' \in Nat /\ turns <= turns'
      /\ {x.marker, x.lastRun} \subseteq Nat
  BY Lasting, StatusAssumption DEF TypeOK, Reports, TurnOrNone, Turns, NoTurn
<1>1. {x.marker, x.lastRun} \subseteq 0 .. turns
  BY <1>0 DEF Sound
<1>2. /\ strays \subseteq strays' /\ unmarked \subseteq unmarked' /\ leftovers \subseteq leftovers'
      /\ Fresh(x.marker) => Fresh(x.marker)'
      /\ Listed(x.lastRun) => Listed(x.lastRun)'
      /\ ListedSoon(x.lastRun) => ListedSoon(x.lastRun)'
  BY <1>1, Lasting
<1>3. unlisted \subseteq unlisted'
  BY DEF Next, Execute, Arrive, Acquire, TryInVain, ClearRunning, Tidy, LeaveQueue, MarkRunning,
     SaveProgress, RecordRun, SaveSnapshots, EndProgress, Unlock, Kill, ReportOn, Load, Probe,
     Release, ReadProgress, ReadLists, ReadFails, Read, vars, history
<1> QED
  BY <1>0, <1>1, <1>2, <1>3 DEF Sound

LEMMA ReportStep ==
  TypeOK /\ TypeOK' /\ LockInv /\ LockInv' /\ FileInv /\ ReportInv /\ [Next]_vars => ReportInv'
<1> SUFFICES ASSUME TypeOK, TypeOK', LockInv, LockInv', FileInv, ReportInv, [Next]_vars
             PROVE  ReportInv'
  OBVIOUS
<1>0. \A r \in Readers : report[r] \in Reports
  BY DEF TypeOK
<1>1. ASSUME NEW r \in Readers, report'[r] = report[r], report'[r].stage # "idle"
      PROVE  Sound(report[r])'
  <2>1. PICK x \in Reports : x = report[r]
    BY <1>0
  <2>2. Sound(x)
    BY <1>1, <2>1 DEF ReportInv
  <2>3. Sound(x)'
    BY <2>2, SoundLasting
  <2> QED
    BY <1>1, <2>1, <2>3 DEF Sound
<1>2. ASSUME UNCHANGED report PROVE ReportInv'
  BY <1>1, <1>2 DEF ReportInv
<1>3. ASSUME NEW r \in Readers, NEW x, Read(r, x), x.stage = "idle" \/ Sound(x)
      PROVE  ReportInv'
  <2>1. \A s \in Readers : report'[s] = IF s = r THEN x ELSE report[s]
    BY <1>3 DEF Read, TypeOK
  <2>2. UNCHANGED <<pc, turn, turns, holder, marker, lastRun, progress, lists,
                    strays, unmarked, unlisted, leftovers>>
    BY <1>3 DEF Read, files, history
  <2>3. x.stage # "idle" => Sound(report[r])'
    BY <1>3, <2>1, <2>2 DEF Sound, Fresh, Listed, ListedSoon
  <2> QED
    BY <1>1, <2>1, <2>3 DEF ReportInv
<1>4. ASSUME NEW r \in Readers, Load(r) PROVE ReportInv'
  <2> DEFINE x == [NoReport EXCEPT !.stage = "loaded", !.marker = marker, !.lastRun = lastRun,
                              !.atLoad = InProgress]
  <2>1. x.stage = "loaded" /\ x.marker = marker /\ x.lastRun = lastRun /\ x.atLoad = InProgress
    BY DEF NoReport
  <2>2. InProgress \subseteq {marker} \cup unmarked
    BY DEF InProgress, FileInv
  <2>3. Read(r, x)
    BY <1>4 DEF Load
  <2>4. Sound(x)
    <3> HIDE DEF x
    <3> QED
      BY <2>1, <2>2 DEF Sound, FileInv, LockInv
  <2> HIDE DEF x
  <2> QED
    BY <1>3, <2>3, <2>4
<1>5. ASSUME NEW r \in Readers, Probe(r) PROVE ReportInv'
  <2> DEFINE stage == IF TakesShared THEN "probing" ELSE "probed"
             held == lockFile /\ holder # NoTurn
             x == [report[r] EXCEPT !.stage = stage, !.held = held,
                     !.holder = holder, !.atProbe = InProgress]
  <2>1. Read(r, x) /\ report[r].stage = "loaded"
    BY <1>5 DEF Probe
  <2>2. Sound(report[r])
    BY <2>1 DEF ReportInv
  <2>3. held => holder = turns
    BY DEF LockInv
  <2>4. InProgress # {} => held
    <3> SUFFICES ASSUME NEW p \in Processes, pc[p] = "running" PROVE held
      BY DEF InProgress
    <3>1. turn[p] # NoTurn
      BY DEF LockInv, Unlocked
    <3> QED
      BY <3>1 DEF LockInv
  <2>5. ~held => Listed(report[r].lastRun)
    <3> SUFFICES ASSUME ~held PROVE Listed(report[r].lastRun)
      OBVIOUS
    <3>1. holder = NoTurn
      BY DEF LockInv
    <3>2. \A p \in Processes : pc[p] # "recorded"
      BY <3>1 DEF LockInv, Unlocked
    <3> QED
      BY <2>1, <2>2, <3>2 DEF Sound, ListedSoon
  <2>6. stage \in {"probing", "probed"}
    OBVIOUS
  <2>7. /\ x.stage = stage /\ x.held = held /\ x.holder = holder /\ x.atProbe = InProgress
        /\ x.marker = report[r].marker /\ x.lastRun = report[r].lastRun
        /\ x.atLoad = report[r].atLoad
    <3> HIDE DEF stage, held
    <3> QED
      BY <1>0 DEF Reports
  <2>8. Sound(x)
    <3> HIDE DEF x, stage
    <3> QED
      BY <2>2, <2>3, <2>4, <2>5, <2>6, <2>7 DEF Sound
  <2> HIDE DEF x
  <2> QED
    BY <1>3, <2>1, <2>8
<1>6. ASSUME NEW r \in Readers, Release(r) PROVE ReportInv'
  <2> DEFINE x == [report[r] EXCEPT !.stage = "probed"]
  <2>1. Read(r, x) /\ Sound(report[r]) /\ report[r].stage = "probing"
    BY <1>6 DEF Release, ReportInv
  <2>2. Sound(x)
    BY <1>0, <2>1 DEF Sound, Reports
  <2> HIDE DEF x
  <2> QED
    BY <1>3, <2>1, <2>2
<1>7. ASSUME NEW r \in Readers, ReadProgress(r) PROVE ReportInv'
  <2> DEFINE shown == IF ShownRunning(r) # NoTurn /\ r \in WithProgress THEN progress ELSE NoTurn
             x == [report[r] EXCEPT !.stage = "progressed", !.progress = shown]
  <2>1. Read(r, x) /\ Sound(report[r]) /\ report[r].stage = "probed"
    BY <1>7 DEF ReadProgress, ReportInv
  <2>2. shown = NoTurn \/ shown >= report[r].marker \/ shown \in leftovers
    <3>1. shown # NoTurn => shown = progress /\ report[r].marker # NoTurn
      BY DEF ShownRunning
    <3>2. Fresh(report[r].marker)
      BY <2>1 DEF Sound
    <3> QED
      BY <3>1, <3>2 DEF Fresh
  <2>3. Sound(x)
    <3> HIDE DEF shown
    <3> QED
      BY <1>0, <2>1, <2>2 DEF Sound, Reports
  <2> HIDE DEF x
  <2> QED
    BY <1>3, <2>1, <2>3
<1>8. ASSUME NEW r \in Readers, ReadLists(r) PROVE ReportInv'
  <2> DEFINE x == [report[r] EXCEPT !.stage = "told", !.lists = lists]
  <2>1. Read(r, x) /\ Sound(report[r]) /\ report[r].stage = "progressed"
    BY <1>8 DEF ReadLists, ReportInv
  <2>2. Sound(x)
    BY <1>0, <2>1 DEF Sound, Reports, Listed
  <2> HIDE DEF x
  <2> QED
    BY <1>3, <2>1, <2>2
<1>9. ASSUME NEW r \in Readers, ReadFails(r) PROVE ReportInv'
  BY <1>3, <1>9 DEF ReadFails, NoReport
<1>10. ASSUME NEW p \in Processes, Execute(p) PROVE UNCHANGED report
  BY <1>10 DEF Execute, Arrive, Acquire, TryInVain, ClearRunning, Tidy, LeaveQueue, MarkRunning,
     SaveProgress, RecordRun, SaveSnapshots, EndProgress, Unlock, Kill, Locking, readVars
<1>11. CASE UNCHANGED vars
  BY <1>2, <1>11 DEF vars, readVars
<1> QED
  BY <1>2, <1>4, <1>5, <1>6, <1>7, <1>8, <1>9, <1>10, <1>11 DEF Next, ReportOn

-----------------------------------------------------------------------------
LEMMA InvStep == Inv /\ [Next]_vars => Inv'
<1> SUFFICES ASSUME Inv, [Next]_vars PROVE Inv'
  OBVIOUS
<1>1. TypeOK'
  BY TypeStep DEF Inv
<1>2. LockInv'
  BY <1>1, LockStep DEF Inv
<1>3. FileInv' /\ ReportInv'
  BY <1>1, <1>2, FileStep, ReportStep DEF Inv
<1> QED
  BY <1>1, <1>2, <1>3 DEF Inv

LEMMA InvInit == Init => Inv
<1> SUFFICES ASSUME Init PROVE Inv
  OBVIOUS
<1>0. Tries \in Nat \ {0} /\ MaxTurns \in Nat /\ MaxReports \in Nat /\ MaxFaults \in Nat
  BY StatusAssumption
<1>1. TypeOK
  <2>1. NoReport \in Reports
    BY DEF NoReport, Reports, TurnOrNone
  <2>2. 0 \in 0 .. Tries /\ 0 \in 0 .. MaxTurns /\ 0 \in 0 .. MaxReports /\ 0 \in 0 .. MaxFaults
    BY <1>0
  <2>3. {holder, marker, lastRun, progress, lists} \subseteq TurnOrNone
    BY DEF Init, TurnOrNone
  <2> QED
    BY <2>1, <2>2, <2>3 DEF Init, TypeOK, Stages, TurnOrNone
<1>2. LockInv
  BY <1>0 DEF Init, LockInv, Unlocked, NoTurn
<1>3. FileInv
  BY DEF Init, FileInv, Fresh, ListedSoon, Listed, NoTurn
<1>4. ReportInv
  BY DEF Init, ReportInv, NoReport
<1> QED
  BY <1>1, <1>2, <1>3, <1>4 DEF Inv

LEMMA Reported == Spec => []Inv
  BY InvInit, InvStep, PTL DEF Spec

(* Files, lock and reports hold turns as they should.                      *)
THEOREM StatusTypes == Spec => []TypeOK
<1>1. Inv => TypeOK
  BY DEF Inv
<1> QED
  BY <1>1, Reported, PTL

(* What a report calls running was in progress when the state was loaded,  *)
(* unless it was killed or could not record its end (status.go:301).       *)
THEOREM RunningIsTrue == Spec => []ShownWasRunning
<1>1. Inv => ShownWasRunning
  BY DEF Inv, ReportInv, Sound, ShownWasRunning, ShownRunning
<1> QED
  BY <1>1, Reported, PTL

(* A job in progress while a report is made is reported as running.        *)
THEOREM RunningIsShown == Spec => []ShownWhileRunning
<1>1. Inv => ShownWhileRunning
  BY DEF Inv, ReportInv, Sound, ShownWhileRunning, ShownRunning
<1> QED
  BY <1>1, Reported, PTL

(* Progress is never that of a turn before the one shown as running.       *)
THEOREM ProgressIsOfThatRun == Spec => []ProgressNotOlder
<1>1. Inv => ProgressNotOlder
  <2> SUFFICES ASSUME Inv, NEW r \in Readers, report[r].stage = "told",
                      report[r].progress # NoTurn
               PROVE  \/ report[r].progress >= ShownRunning(r)
                      \/ report[r].progress \in leftovers
    BY DEF ProgressNotOlder
  <2>1. Sound(report[r]) /\ report[r] \in Reports
    BY DEF Inv, ReportInv, TypeOK
  <2>2. report[r].progress \in Nat /\ report[r].marker \in Nat
    BY <2>1, StatusAssumption DEF Reports, TurnOrNone, Turns, NoTurn
  <2> QED
    BY <2>1, <2>2 DEF Sound, ShownRunning, NoTurn
<1> QED
  BY <1>1, Reported, PTL

(* When a job is reported as idle, its lists are those of its last run.    *)
THEOREM ListsSettled == Spec => []SettledLists
<1>1. Inv => SettledLists
  BY DEF Inv, ReportInv, Sound, SettledLists
<1> QED
  BY <1>1, Reported, PTL
-----------------------------------------------------------------------------
(* Counting tries: each one in vain met a probe of its own, or a turn.     *)
Met(p) ==
  \/ turnedAway[p] \/ met[p] >= Tries
  \/ tries[p] + Cardinality(Probing \ inTheWay[p]) <= met[p]

CountInv ==
  /\ \A p \in Processes : pc[p] = "trying" => Met(p)
  /\ \A p \in Processes : pc[p] # "trying" => inTheWay[p] = {}
  /\ NotTurnedAwayByReports

LEMMA OthersFinite ==
  ASSUME NEW S
  PROVE  IsFiniteSet(Probing \ S) /\ Cardinality(Probing \ S) \in Nat
<1>1. IsFiniteSet(Probing \ S)
  BY ProbingFinite, FS_Subset
<1> QED
  BY <1>1, FS_CardinalityType

LEMMA CountStep == TypeOK /\ TypeOK' /\ CountInv /\ [Next]_vars => CountInv'
<1> SUFFICES ASSUME TypeOK, TypeOK', CountInv, [Next]_vars PROVE CountInv'
  OBVIOUS
<1> USE DEF Locking, lockVars, readVars
<1>0. Tries \in Nat \ {0} /\ \A p \in Processes : tries[p] \in Nat /\ met[p] \in Nat
  BY StatusAssumption DEF TypeOK
(* A process that tries no more or not yet, and those it leaves alone.     *)
<1>1. ASSUME UNCHANGED report,
             \A q \in Processes :
               \/ UNCHANGED <<pc[q], tries[q], inTheWay[q], turnedAway[q], met[q]>>
               \/ pc'[q] \notin {"trying", "refused"} /\ inTheWay'[q] = {}
      PROVE  CountInv'
  BY <1>1 DEF CountInv, Met, Probing, NotTurnedAwayByReports
<1>2. ASSUME NEW p \in Processes,
             Acquire(p) \/ ClearRunning(p) \/ Tidy(p) \/ LeaveQueue(p) \/ MarkRunning(p)
               \/ SaveProgress(p) \/ RecordRun(p) \/ SaveSnapshots(p) \/ EndProgress(p)
               \/ Unlock(p) \/ Kill(p)
      PROVE  CountInv'
  <2>1. UNCHANGED <<report, inTheWay>> /\ inTheWay[p] = {}
    BY <1>2 DEF Acquire, MayTry, ClearRunning, Tidy, LeaveQueue, MarkRunning, SaveProgress,
       RecordRun, SaveSnapshots, EndProgress, Unlock, Kill, CountInv, Unlocked
  <2>2. \A q \in Processes \ {p} : UNCHANGED <<pc[q], tries[q], turnedAway[q], met[q]>>
    BY <1>2 DEF Acquire, StartAfresh, ClearRunning, Tidy, LeaveQueue, MarkRunning, SaveProgress,
       RecordRun, SaveSnapshots, EndProgress, Unlock, Kill, LetGo, Goto, TypeOK
  <2>3. pc'[p] \notin {"trying", "refused"}
    BY <1>2 DEF Acquire, ClearRunning, Tidy, LeaveQueue, MarkRunning, SaveProgress,
       RecordRun, SaveSnapshots, EndProgress, Unlock, Kill, LetGo, Goto, TypeOK
  <2> QED
    BY <1>1, <2>1, <2>2, <2>3
<1>3. ASSUME NEW p \in Processes, Arrive(p) PROVE CountInv'
  <2> DEFINE n == Cardinality(Probing)
  <2>1. /\ UNCHANGED <<report, inTheWay>> /\ inTheWay[p] = {}
        /\ pc'[p] = "trying" /\ tries'[p] = 0 /\ met'[p] = CountedTo(n)
        /\ \A q \in Processes \ {p} : UNCHANGED <<pc[q], tries[q], turnedAway[q], met[q]>>
    BY <1>3 DEF Arrive, StartAfresh, Goto, TypeOK, CountInv
  <2>2. Probing' \ inTheWay'[p] = Probing
    BY <2>1 DEF Probing
  <2>3. Met(p)'
    <3>1. Met(p)' <=> turnedAway'[p] \/ met'[p] >= Tries \/ tries'[p] + n <= met'[p]
      BY <2>2 DEF Met
    <3>2. n \in Nat
      BY ProbingFinite
    <3> HIDE DEF n
    <3> QED
      BY <1>0, <2>1, <3>1, <3>2 DEF CountedTo
  <2> QED
    BY <2>1, <2>3 DEF CountInv, Met, Probing, NotTurnedAwayByReports
<1>4. ASSUME NEW p \in Processes, TryInVain(p) PROVE CountInv'
  <2>1. /\ UNCHANGED <<report, met>> /\ pc[p] = "trying" /\ inTheWay[p] = {}
        /\ holder # NoTurn \/ Probing # {}
        /\ tries'[p] = tries[p] + 1
        /\ turnedAway'[p] = (turnedAway[p] \/ holder # NoTurn)
        /\ \/ pc'[p] = "refused" /\ inTheWay'[p] = {} /\ tries[p] + 1 = Tries
           \/ pc'[p] = "trying" /\ inTheWay'[p] = Probing
        /\ \A q \in Processes \ {p} : UNCHANGED <<pc[q], tries[q], inTheWay[q], turnedAway[q]>>
    BY <1>4 DEF TryInVain, MayTry, LockFree, GivesUp, Goto, TypeOK
  <2>2. turnedAway'[p] \/ met[p] >= Tries \/ tries[p] + 1 <= met[p]
    <3> SUFFICES ASSUME ~turnedAway'[p], ~(met[p] >= Tries) PROVE tries[p] + 1 <= met[p]
      OBVIOUS
    <3> DEFINE n == Cardinality(Probing)
    <3>1. Probing # {} /\ Probing \ inTheWay[p] = Probing
      BY <2>1
    <3>2. n \in Nat /\ n # 0
      BY <3>1, ProbingFinite, FS_EmptySet
    <3>3. tries[p] + n <= met[p]
      BY <2>1, <3>1 DEF CountInv, Met
    <3> HIDE DEF n
    <3> QED
      BY <1>0, <3>2, <3>3
  <2>3. pc'[p] = "trying" => Met(p)'
    <3> SUFFICES ASSUME pc'[p] = "trying" PROVE Met(p)'
      OBVIOUS
    <3>1. Probing' \ inTheWay'[p] = {}
      BY <2>1 DEF Probing
    <3>2. Cardinality(Probing' \ inTheWay'[p]) = 0
      BY <3>1, FS_EmptySet
    <3> QED
      BY <1>0, <2>1, <2>2, <3>2 DEF Met
  <2>4. pc'[p] = "refused" => turnedAway'[p] \/ met'[p] >= Tries
    BY <1>0, <2>1, <2>2
  <2>5. \A q \in Processes \ {p} : Met(q) => Met(q)'
    BY <2>1 DEF Met, Probing
  <2> QED
    BY <2>1, <2>3, <2>4, <2>5 DEF CountInv, NotTurnedAwayByReports
(* A probe that begins is counted; one that ends was not in more ways.     *)
<1>5. ASSUME NEW r \in Readers, Probe(r) PROVE CountInv'
  <2>1. UNCHANGED <<pc, tries, turnedAway, inTheWay>>
    BY <1>5 DEF Probe, Read
  <2>2. \A p \in Processes :
          met'[p] = IF TakesShared /\ pc[p] = "trying" THEN CountedTo(met[p] + 1) ELSE met[p]
    BY <1>5 DEF Probe
  <2>3. Probing' = IF TakesShared THEN Probing \cup {r} ELSE Probing
    <3>1. \A s \in Readers \ {r} : report'[s] = report[s]
      BY <1>5 DEF Probe, Read, TypeOK
    <3>2. report'[r].stage = IF TakesShared THEN "probing" ELSE "probed"
      BY <1>5 DEF Probe, Read, TypeOK, Reports
    <3>3. report[r].stage = "loaded"
      BY <1>5 DEF Probe
    <3> QED
      BY <3>1, <3>2, <3>3 DEF Probing
  <2>4. ASSUME NEW p \in Processes, pc[p] = "trying" PROVE Met(p)'
    <3> DEFINE D == Probing \ inTheWay[p]
               E == Probing' \ inTheWay'[p]
               n == Cardinality(D)
               m == Cardinality(E)
    <3>1. IsFiniteSet(D) /\ n \in Nat
      BY OthersFinite
    <3>2. Met(p) /\ (Met(p) <=> turnedAway[p] \/ met[p] >= Tries \/ tries[p] + n <= met[p])
      BY <2>4 DEF Met, CountInv
    <3>3. Met(p)' <=> turnedAway'[p] \/ met'[p] >= Tries \/ tries'[p] + m <= met'[p]
      BY DEF Met
    <3>4. CASE ~TakesShared
      <4>1. m = n /\ met'[p] = met[p]
        BY <2>1, <2>2, <2>3, <3>4
      <4> HIDE DEF m, n
      <4> QED
        BY <2>1, <3>2, <3>3, <4>1
    <3>5. CASE TakesShared
      <4>1. E \subseteq D \cup {r}
        BY <2>1, <2>3, <3>5
      <4>2. IsFiniteSet(D \cup {r}) /\ Cardinality(D \cup {r}) <= n + 1
            /\ Cardinality(D \cup {r}) \in Nat
        <5> HIDE DEF D
        <5>1. IsFiniteSet(D \cup {r})
              /\ Cardinality(D \cup {r}) = IF r \in D THEN n ELSE n + 1
          BY <3>1, FS_AddElement
        <5> HIDE DEF n
        <5> QED
          BY <3>1, <5>1
      <4>3. m \in Nat /\ m <= n + 1
        <5>1. IsFiniteSet(E) /\ m <= Cardinality(D \cup {r})
          BY <4>1, <4>2, FS_Subset
        <5>2. m \in Nat
          BY <5>1, FS_CardinalityType
        <5> HIDE DEF m, n
        <5> QED
          BY <3>1, <4>2, <5>1, <5>2
      <4>4. met'[p] = CountedTo(met[p] + 1)
        BY <2>2, <2>4, <3>5
      <4> HIDE DEF m, n
      <4> QED
        BY <1>0, <2>1, <3>1, <3>2, <3>3, <4>3, <4>4 DEF CountedTo
    <3> QED
      BY <3>4, <3>5
  <2>5. NotTurnedAwayByReports'
    BY <2>1, <2>2 DEF CountInv, NotTurnedAwayByReports
  <2> QED
    BY <2>1, <2>4, <2>5 DEF CountInv
<1>6. ASSUME NEW r \in Readers,
             UNCHANGED <<pc, tries, turnedAway, met>>,
             \A p \in Processes : Probing' \ inTheWay'[p] \subseteq Probing \ inTheWay[p],
             \A p \in Processes : inTheWay'[p] \subseteq inTheWay[p]
      PROVE  CountInv'
  <2>1. ASSUME NEW p \in Processes, Met(p) PROVE Met(p)'
    <3> DEFINE n == Cardinality(Probing \ inTheWay[p])
               m == Cardinality(Probing' \ inTheWay'[p])
    <3>1. n \in Nat /\ m \in Nat /\ m <= n
      BY <1>6, OthersFinite, FS_Subset, FS_CardinalityType
    <3>2. turnedAway[p] \/ met[p] >= Tries \/ tries[p] + n <= met[p]
      BY <2>1 DEF Met
    <3>3. Met(p)' <=> turnedAway'[p] \/ met'[p] >= Tries \/ tries'[p] + m <= met'[p]
      BY DEF Met
    <3> HIDE DEF n, m
    <3> QED
      BY <1>0, <1>6, <3>1, <3>2, <3>3
  <2> QED
    BY <1>6, <2>1 DEF CountInv, NotTurnedAwayByReports
<1>7. ASSUME NEW r \in Readers,
             Load(r) \/ Release(r) \/ ReadProgress(r) \/ ReadLists(r) \/ ReadFails(r)
      PROVE  CountInv'
  <2>1. UNCHANGED <<pc, tries, turnedAway, met>>
    BY <1>7 DEF Load, Release, ReadProgress, ReadLists, ReadFails, Read
  <2>2. \A s \in Readers \ {r} : report'[s] = report[s]
    BY <1>7 DEF Load, Release, ReadProgress, ReadLists, ReadFails, Read, TypeOK
  <2>3. report'[r].stage # "probing"
    <3>1. CASE Load(r)
      BY <3>1 DEF Load, Read, NoReport, TypeOK
    <3>2. CASE Release(r)
      BY <3>2 DEF Release, Read, TypeOK, Reports
    <3>3. CASE ReadProgress(r)
      BY <3>3 DEF ReadProgress, Read, TypeOK, Reports
    <3>4. CASE ReadLists(r)
      BY <3>4 DEF ReadLists, Read, TypeOK, Reports
    <3>5. CASE ReadFails(r)
      BY <3>5 DEF ReadFails, Read, NoReport, TypeOK
    <3> QED
      BY <1>7, <3>1, <3>2, <3>3, <3>4, <3>5
  <2>4. Probing' \subseteq Probing \ {r}
    BY <2>2, <2>3 DEF Probing
  <2>5. \A p \in Processes : inTheWay'[p] \in {inTheWay[p], inTheWay[p] \ {r}}
    BY <1>7 DEF Load, Release, ReadProgress, ReadLists, ReadFails
  <2> QED
    BY <1>6, <2>1, <2>4, <2>5
<1>8. CASE UNCHANGED vars
  BY <1>1, <1>8 DEF vars
<1> QED
  BY <1>2, <1>3, <1>4, <1>5, <1>7, <1>8 DEF Next, Execute, ReportOn

(* Reports make an execution take its job for running already only if as   *)
(* many probes as it makes tries fall into its one attempt (lock.go:113),  *)
(* for any number of reports, of readers and of turns.                     *)
THEOREM ProbesAreHarmless == Spec => []NotTurnedAwayByReports
<1>1. Init => CountInv
  BY DEF Init, CountInv, NotTurnedAwayByReports
<1>2. Inv /\ Inv' /\ CountInv /\ [Next]_vars => CountInv'
  BY CountStep DEF Inv
<1>3. CountInv => NotTurnedAwayByReports
  BY DEF CountInv
<1> QED
  BY <1>1, <1>2, <1>3, Reported, PTL DEF Spec
=============================================================================
