-------------------------- MODULE StateFileProofs --------------------------
(***************************************************************************)
(* The state file implements an atomic store, whatever processes, threads  *)
(* and jobs there are, whichever of them are killed and whatever fails; a  *)
(* recorded run stays in the history, and a temporary file is left only by *)
(* a killed process.                                                       *)
(***************************************************************************)
EXTENDS StateFile, FiniteSetTheorems, SequenceTheorems, TLAPS

(* Which updates there are.                                                *)
LEMMA UpdateParts ==
  ASSUME NEW u \in Updates
  PROVE  /\ u[1] \in Threads /\ u[2] \in 1 .. 4 /\ u = <<u[1], u[2]>>
         /\ KindOf(u) \in {"tick", "checkin", "clear", "mark", "run", "snapshots"}
         /\ u[1] \in JobThreads <=> KindOf(u) \in {"clear", "mark", "run", "snapshots"}
         /\ KindOf(u) = "snapshots" <=> u[1] \in JobThreads /\ u[2] = 4
<1>1. u[1] \in Threads /\ u[2] \in 1 .. 4 /\ u = <<u[1], u[2]>>
      /\ u[2] <= Len(Program(u[1]))
  BY DEF Updates
<1>2. CASE u[1] \in JobThreads
  <2>1. Program(u[1]) = <<"clear", "mark", "run", "snapshots">>
    BY <1>2 DEF Program
  <2>2. u[2] \in {1, 2, 3, 4}
    BY <1>1
  <2> QED
    BY <1>1, <1>2, <2>1, <2>2 DEF KindOf
<1>3. CASE u[1] \notin JobThreads
  <2>1. Program(u[1]) = <<"tick", "checkin">>
    BY <1>3 DEF Program
  <2>2. u[2] \in {1, 2}
    BY <1>1, <2>1
  <2> QED
    BY <1>1, <1>3, <2>1, <2>2 DEF KindOf
<1> QED
  BY <1>2, <1>3

(* The third update of an execution is its run record.                     *)
LEMMA UpdateKinds ==
  ASSUME NEW u \in Updates
  PROVE  KindOf(u) = "run" <=> u[1] \in JobThreads /\ u[2] = 3
<1>1. u[2] \in 1 .. 4 /\ u[2] <= Len(Program(u[1]))
  BY UpdateParts DEF Updates
<1>2. CASE u[1] \in JobThreads
  <2>1. Program(u[1]) = <<"clear", "mark", "run", "snapshots">>
    BY <1>2 DEF Program
  <2> QED
    BY <1>1, <1>2, <2>1 DEF KindOf
<1>3. CASE u[1] \notin JobThreads
  BY <1>3, UpdateParts
<1> QED
  BY <1>2, <1>3

(* The updates of a thread are those of its program.                       *)
LEMMA ThreadUpdates ==
  ASSUME NEW t \in Threads, NEW i \in 1 .. 4
  PROVE  /\ <<t, i>> \in Updates <=> i <= Len(Program(t))
         /\ Len(Program(t)) \in 1 .. 4
         /\ t \in JobThreads => Len(Program(t)) = 4
  BY DEF Updates, Program

(* A run joins a history of at most MaxRuns runs without exceeding it.     *)
LEMMA AddRunBounded ==
  ASSUME NEW t \in JobThreads, NEW runs \in Histories
  PROVE  AddRun(t, runs) \in Histories
<1> DEFINE all == <<t>> \o runs
           n == IF Len(runs) < MaxRuns THEN Len(runs) + 1 ELSE MaxRuns
<1>1. runs \in Seq(JobThreads) /\ Len(runs) \in Nat /\ Len(runs) <= MaxRuns
      /\ MaxRuns \in Nat \ {0}
  BY StateFileAssumption DEF Histories
<1>2. all \in Seq(JobThreads) /\ Len(all) = Len(runs) + 1
  BY <1>1
<1>3. n \in 1 .. Len(all) /\ n <= MaxRuns
  BY <1>1, <1>2
<1>4. SubSeq(all, 1, n) \in Seq(JobThreads) /\ Len(SubSeq(all, 1, n)) = n
  <2> HIDE DEF all, n
  <2> QED
    BY <1>2, <1>3, SubSeqProperties
<1> QED
  BY <1>3, <1>4 DEF AddRun, Histories

(* An update makes a state file of a state file.                           *)
LEMMA ChangeStateType ==
  ASSUME NEW u \in Updates, NEW st \in FileContents
  PROVE  ChangeState(u, st) \in FileContents
<1>1. /\ u[1] \in Threads
      /\ u[1] \in JobThreads => JobOf[u[1]] \in Jobs
      /\ KindOf(u) \in {"tick", "checkin", "clear", "mark", "run", "snapshots"}
      /\ u[1] \in JobThreads <=> KindOf(u) \in {"clear", "mark", "run", "snapshots"}
  BY UpdateParts, StateFileAssumption
<1>2. CASE KindOf(u) = "run"
  <2> DEFINE j == JobOf[u[1]]
  <2>1. j \in Jobs /\ st.runs[j] \in Histories /\ u[1] \in JobThreads
    BY <1>1, <1>2 DEF FileContents
  <2>2. AddRun(u[1], st.runs[j]) \in Histories
    BY <2>1, AddRunBounded
  <2> DEFINE running == [st.running EXCEPT ![j] = None]
             runs == [st.runs EXCEPT ![j] = AddRun(u[1], st.runs[j])]
  <2>3. ChangeState(u, st) = [st EXCEPT !.running = running, !.runs = runs]
    BY <1>2 DEF ChangeState, FileContents
  <2>4. running \in [Jobs -> Owners] /\ runs \in [Jobs -> Histories]
    BY <2>1, <2>2 DEF FileContents, Owners
  <2> HIDE DEF running, runs
  <2> QED
    BY <2>3, <2>4 DEF FileContents
<1>3. CASE KindOf(u) # "run"
  BY <1>1, <1>3 DEF ChangeState, FileContents, Owners
<1> QED
  BY <1>2, <1>3

(* Saving a list makes lists of lists.                                     *)
LEMMA ChangeListsType ==
  ASSUME NEW u \in Updates, NEW ls \in ListContents
  PROVE  SavedLists(u, ls) \subseteq ListContents
<1>1. KindOf(u) = "snapshots" =>
        u[1] \in Threads /\ JobOf[u[1]] \in Jobs /\ RepoOf[u[1]] \in Repos
  BY UpdateParts, StateFileAssumption
<1>2. ChangeLists(u, ls) \in ListContents
  BY <1>1 DEF ChangeLists, ListContents, Owners
<1>3. ReplaceLists(u, ls) \in ListContents
  BY <1>1 DEF ReplaceLists, ListContents, Owners
<1> QED
  BY <1>2, <1>3 DEF SavedLists

-----------------------------------------------------------------------------
(* Type correctness, which includes that no history outgrows MaxRuns.      *)

(* The empty files have their types.                                       *)
LEMMA TypeInit == Init => TypeOK
<1> SUFFICES ASSUME Init PROVE TypeOK
  OBVIOUS
<1>1. EmptyFile \in FileContents
  <2>1. <<>> \in Histories
    BY StateFileAssumption DEF Histories
  <2> QED
    BY <2>1 DEF EmptyFile, FileContents, Owners
<1>2. \A t \in Threads : Current(t) \in Updates
  <2>1. \A t \in Threads : <<t, 1>> \in Updates
    <3> SUFFICES ASSUME NEW t \in Threads PROVE <<t, 1>> \in Updates
      OBVIOUS
    <3>1. 1 \in 1 .. 4
      OBVIOUS
    <3>2. Len(Program(t)) \in 1 .. 4
      BY <3>1, ThreadUpdates
    <3>3. 1 <= Len(Program(t))
      BY <3>2
    <3> QED
      BY <3>1, <3>3, ThreadUpdates
  <2> QED
    BY <2>1 DEF Init, Current
<1> QED
  BY <1>1, <1>2 DEF Init, TypeOK, Owners, ListContents, EmptyLists, Stages

(* Going on to the next update keeps the types.                            *)
LEMMA AdvanceType ==
  ASSUME TypeOK, NEW t \in Threads, Advance(t)
  PROVE  /\ at' \in [Threads -> 1 .. 4] /\ pc' \in [Threads -> Stages]
         /\ jobLock' \in [Jobs -> Owners]
         /\ \A s \in Threads : <<s, at'[s]>> \in Updates
<1>1. /\ at[t] \in 1 .. 4 /\ Len(Program(t)) \in 1 .. 4
      /\ at[t] <= Len(Program(t))
  BY ThreadUpdates DEF TypeOK, Current
<1>2. at' = [at EXCEPT ![t] = IF at[t] < Len(Program(t)) THEN at[t] + 1 ELSE at[t]]
  BY DEF Advance
<1>3. at' \in [Threads -> 1 .. 4] /\ at'[t] <= Len(Program(t))
  <2> DEFINE len == Len(Program(t))
             next == IF at[t] < len THEN at[t] + 1 ELSE at[t]
  <2>1. next \in 1 .. 4 /\ next <= len
    <3> HIDE DEF len
    <3>1. at[t] \in 1 .. 4 /\ len \in 1 .. 4 /\ at[t] <= len
      BY <1>1 DEF len
    <3> QED
      BY <3>1
  <2>2. at \in [Threads -> 1 .. 4]
    BY DEF TypeOK
  <2> HIDE DEF next
  <2>3. at' = [at EXCEPT ![t] = next]
    BY <1>2 DEF next
  <2> QED
    BY <2>1, <2>2, <2>3
<1>4. ASSUME NEW s \in Threads PROVE <<s, at'[s]>> \in Updates
  <2>1. CASE s = t
    BY <1>3, <2>1, ThreadUpdates
  <2>2. CASE s # t
    BY <1>2, <2>2 DEF TypeOK, Current
  <2> QED
    BY <2>1, <2>2
<1>5. pc' \in [Threads -> Stages] /\ jobLock' \in [Jobs -> Owners]
  BY DEF Advance, Goto, TypeOK, Stages, Owners
<1> QED
  BY <1>3, <1>4, <1>5

(* Every step of a thread keeps the types.                                 *)
LEMMA TypeStep ==
  ASSUME TypeOK, NEW t \in Threads, Step(t)
  PROVE  TypeOK'
<1>a. Current(t) \in Updates /\ t \in Owners /\ None \in Owners
  BY DEF TypeOK, Owners
<1>b. ChangeState(Current(t), file) \in FileContents
  BY <1>a, ChangeStateType DEF TypeOK
<1>c. SavedLists(Current(t), lists) \subseteq ListContents
  BY <1>a, ChangeListsType DEF TypeOK
<1>d. EmptyFile \in FileContents
  BY StateFileAssumption DEF Histories, EmptyFile, FileContents, Owners
<1> USE DEF TypeOK
<1>1. CASE Enter(t)
  <2>1. jobLock' \in [Jobs -> Owners]
    BY <1>1, <1>a, StateFileAssumption DEF Enter, TakeJobLock
  <2> QED
    BY <1>1, <1>a, <2>1 DEF Enter, Goto, Current, Stages
<1>2. CASE Lock(t)
  BY <1>2, <1>a DEF Lock, Goto, Current, Stages
<1>3. CASE NotLocked(t)
  BY <1>3, <1>a DEF NotLocked, Goto, Return, Current, Stages
<1>4. CASE Load(t)
  <2>1. pc' \in [Threads -> Stages] /\ UNCHANGED at
    BY <1>4 DEF Load, Goto, Stages
  <2>2. result' \in [Updates -> {"pending", "applied", "failed"}]
    BY <1>4, <1>a DEF Load, Return
  <2>3. copy' \in [Threads -> FileContents]
    BY <1>4, <1>b DEF Load
  <2> QED
    BY <1>4, <2>1, <2>2, <2>3 DEF Load, Current
<1>5. CASE WriteTemp(t)
  BY <1>5 DEF WriteTemp, Goto, Current, Stages
<1>6. CASE Rename(t)
  BY <1>6, <1>a DEF Rename, Goto, Return, Current, Stages
<1>7. CASE Fail(t)
  BY <1>7, <1>a DEF Fail, Goto, Return, Current, Stages
<1>8. CASE Release(t)
  <2>1. copy' \in [Threads -> FileContents]
    BY <1>8, <1>d DEF Release
  <2>2. /\ stateLock' \in Owners /\ mutex' \in [Processes -> Owners]
        /\ UNCHANGED <<file, lists, listCopy, temps, result>>
    BY <1>8, <1>a DEF Release
  <2>3. Advance(t)
    BY <1>8 DEF Release
  <2> QED
    BY <2>1, <2>2, <2>3, AdvanceType DEF Current
<1>9. CASE t \in JobThreads /\ LoadLists(t)
  BY <1>9, <1>c DEF LoadLists, Goto, Current, Stages
<1>10. CASE t \in JobThreads /\ SaveLists(t)
  <2>1. listCopy[t] \in ListContents /\ JobOf[t] \in Jobs
    BY <1>10, StateFileAssumption
  <2>2. lists' \in ListContents
    BY <1>10, <2>1 DEF SaveLists, ListContents
  <2>3. result' \in [Updates -> {"pending", "applied", "failed"}]
    BY <1>10, <1>a DEF SaveLists, Return
  <2>4. Advance(t) /\ UNCHANGED <<file, mutex, stateLock, copy, listCopy, temps>>
    BY <1>10 DEF SaveLists
  <2> QED
    BY <2>2, <2>3, <2>4, AdvanceType DEF Current
<1>11. CASE t \in JobThreads /\ FailLists(t)
  <2>1. result' \in [Updates -> {"pending", "applied", "failed"}]
    BY <1>11, <1>a DEF FailLists, Return
  <2>2. Advance(t) /\ UNCHANGED <<file, lists, mutex, stateLock, copy, listCopy, temps>>
    BY <1>11 DEF FailLists
  <2> QED
    BY <2>1, <2>2, AdvanceType DEF Current
<1> QED
  BY <1>1, <1>2, <1>3, <1>4, <1>5, <1>6, <1>7, <1>8, <1>9, <1>10, <1>11 DEF Step

(* So does killing a process.                                              *)
LEMMA TypeCrash ==
  ASSUME TypeOK, NEW p \in Processes, Crash(p)
  PROVE  TypeOK'
<1>1. EmptyFile \in FileContents
  BY StateFileAssumption DEF Histories, EmptyFile, FileContents, Owners
<1>2. copy' \in [Threads -> FileContents]
  BY <1>1 DEF Crash, TypeOK
<1>3. /\ pc' \in [Threads -> Stages] /\ jobLock' \in [Jobs -> Owners]
      /\ stateLock' \in Owners /\ mutex' \in [Processes -> Owners]
  BY DEF Crash, TypeOK, Stages, Owners
<1> QED
  BY <1>2, <1>3 DEF Crash, TypeOK, Current

(* The state file and the lists always have their form, whole updates only. *)
THEOREM TypeCorrect == Spec => []TypeOK
<1>1. TypeOK /\ UNCHANGED vars => TypeOK'
  BY DEF TypeOK, vars, Current
<1>2. TypeOK /\ [Next]_vars => TypeOK'
  BY <1>1, TypeStep, TypeCrash DEF Next, Terminated
<1> QED
  BY <1>2, TypeInit, PTL DEF Spec

-----------------------------------------------------------------------------
(* The invariant behind the refinement.                                    *)

(* What a step of t leaves to the other threads: their stages, copies and  *)
(* results, their locks, and whatever their locks protect.                 *)
Local(t) ==
  /\ \A s \in Threads \ {t} :
        /\ pc'[s] = pc[s] /\ at'[s] = at[s] /\ copy'[s] = copy[s]
        /\ s \in JobThreads => listCopy'[s] = listCopy[s]
        /\ \A i \in 1 .. 4 : <<s, i>> \in Updates => result'[<<s, i>>] = result[<<s, i>>]
        /\ stateLock = s => stateLock' = s /\ file' = file
        /\ \A j \in Jobs : jobLock[j] = s => jobLock'[j] = s /\ lists'[j] = lists[j]

(* Going on to the next update leaves the other threads alone.             *)
LEMMA AdvanceLocal ==
  ASSUME TypeOK, NEW t \in Threads, Advance(t)
  PROVE  /\ \A s \in Threads \ {t} :
              /\ pc'[s] = pc[s] /\ at'[s] = at[s]
              /\ \A j \in Jobs : jobLock[j] = s => jobLock'[j] = s
  BY DEF TypeOK, Advance, Goto

(* Every step of a thread is local to it.                                  *)
LEMMA StepLocal ==
  ASSUME TypeOK, FileInv, NEW t \in Threads, Step(t)
  PROVE  Local(t)
<1>a. /\ t # None /\ Current(t) = <<t, at[t]>>
      /\ \A s \in Threads : s # None
  BY StateFileAssumption DEF Current
<1> USE DEF Local, TypeOK
<1>1. CASE Enter(t)
  BY <1>1, <1>a DEF Enter, Goto, MayUpdate, TakeJobLock
<1>2. CASE Lock(t)
  BY <1>2, <1>a DEF Lock, Goto
<1>3. CASE NotLocked(t)
  BY <1>3, <1>a DEF NotLocked, Goto, Return
<1>4. CASE Load(t)
  BY <1>4, <1>a DEF Load, Goto, Return
<1>5. CASE WriteTemp(t)
  BY <1>5, <1>a DEF WriteTemp, Goto
<1>6. CASE Rename(t)
  <2>1. stateLock = t
    BY <1>6 DEF Rename, FileInv, CopyCurrent
  <2> QED
    BY <1>6, <1>a, <2>1 DEF Rename, Goto, Return
<1>7. CASE Fail(t)
  BY <1>7, <1>a DEF Fail, Goto, Return
<1>8. CASE Release(t)
  BY <1>8, <1>a, AdvanceLocal DEF Release
<1>9. CASE t \in JobThreads /\ LoadLists(t)
  BY <1>9, <1>a DEF LoadLists, Goto
<1>10. CASE t \in JobThreads /\ SaveLists(t)
  <2>1. jobLock[JobOf[t]] = t
    BY <1>10 DEF SaveLists, FileInv, ListsCurrent
  <2>2. \A j \in Jobs : j # JobOf[t] => lists'[j] = lists[j]
    BY <1>10 DEF SaveLists, ListContents
  <2>3. \A s \in Threads \ {t} : \A i \in 1 .. 4 :
           <<s, i>> \in Updates => result'[<<s, i>>] = result[<<s, i>>]
    BY <1>10, <1>a DEF SaveLists, Return
  <2>4. Advance(t) /\ UNCHANGED <<file, stateLock, copy, listCopy>>
    BY <1>10 DEF SaveLists
  <2> QED
    BY <1>a, <2>1, <2>2, <2>3, <2>4, AdvanceLocal
<1>11. CASE t \in JobThreads /\ FailLists(t)
  <2>1. \A s \in Threads \ {t} : \A i \in 1 .. 4 :
           <<s, i>> \in Updates => result'[<<s, i>>] = result[<<s, i>>]
    BY <1>11, <1>a DEF FailLists, Return
  <2>2. Advance(t) /\ UNCHANGED <<file, lists, stateLock, copy, listCopy>>
    BY <1>11 DEF FailLists
  <2> QED
    BY <1>a, <2>1, <2>2, AdvanceLocal
<1> QED
  BY <1>1, <1>2, <1>3, <1>4, <1>5, <1>6, <1>7, <1>8, <1>9, <1>10, <1>11 DEF Step

(* What is to be saved of a job's lists depends on that job's lists alone. *)
LEMMA ListsOfJob ==
  ASSUME NEW u \in Updates, u[1] \in JobThreads,
         NEW old \in ListContents, NEW new \in ListContents,
         old[JobOf[u[1]]] = new[JobOf[u[1]]]
  PROVE  {ls[JobOf[u[1]]] : ls \in SavedLists(u, old)} = {ls[JobOf[u[1]]] : ls \in SavedLists(u, new)}
<1>1. JobOf[u[1]] \in Jobs
  BY StateFileAssumption
<1>2. /\ ChangeLists(u, old)[JobOf[u[1]]] = ChangeLists(u, new)[JobOf[u[1]]]
      /\ ReplaceLists(u, old)[JobOf[u[1]]] = ReplaceLists(u, new)[JobOf[u[1]]]
  BY <1>1 DEF ChangeLists, ReplaceLists, ListContents
<1> QED
  BY <1>2 DEF SavedLists

(* A step of one thread keeps the invariant of the others.                 *)
LEMMA OthersKept ==
  ASSUME TypeOK, TypeOK', FileInv, NEW t \in Threads, Local(t),
         NEW s \in Threads, s # t
  PROVE  /\ CopyCurrent(s)' /\ StageFits(s)' /\ StillPending(s)'
         /\ s \in JobThreads => ListsCurrent(s)'
<1>1. /\ CopyCurrent(s) /\ StageFits(s) /\ StillPending(s)
      /\ s \in JobThreads => ListsCurrent(s) /\ JobOf[s] \in Jobs
      /\ Current(s) \in Updates /\ Current(s)[1] = s
  BY StateFileAssumption DEF FileInv, TypeOK, Current
<1>2. /\ pc'[s] = pc[s] /\ at'[s] = at[s] /\ copy'[s] = copy[s]
      /\ s \in JobThreads => listCopy'[s] = listCopy[s]
      /\ \A i \in 1 .. 4 : <<s, i>> \in Updates => result'[<<s, i>>] = result[<<s, i>>]
      /\ stateLock = s => stateLock' = s /\ file' = file
      /\ \A j \in Jobs : jobLock[j] = s => jobLock'[j] = s /\ lists'[j] = lists[j]
  BY DEF Local
<1>3. Current(s)' = Current(s)
  BY <1>2 DEF Current
<1>4. CopyCurrent(s)'
  BY <1>1, <1>2, <1>3 DEF CopyCurrent
<1>5. StageFits(s)'
  BY <1>1, <1>2, <1>3 DEF StageFits
<1>6. StillPending(s)'
  BY <1>1, <1>2 DEF StillPending
<1>7. ASSUME s \in JobThreads PROVE ListsCurrent(s)'
  <2>1. ASSUME pc[s] = "listed"
        PROVE  listCopy'[s][JobOf[s]] \in {ls[JobOf[s]] : ls \in SavedLists(Current(s), lists')}
    <3>1. lists'[JobOf[s]] = lists[JobOf[s]]
      BY <1>1, <1>2, <1>7, <2>1 DEF ListsCurrent
    <3>2. {ls[JobOf[s]] : ls \in SavedLists(Current(s), lists)}
            = {ls[JobOf[s]] : ls \in SavedLists(Current(s), lists')}
      <4> DEFINE u == Current(s)
      <4>1. lists \in ListContents /\ lists' \in ListContents
        BY DEF TypeOK
      <4>2. u \in Updates /\ u[1] \in JobThreads /\ u[1] = s
        BY <1>1, <1>7
      <4> HIDE DEF u
      <4>3. {ls[JobOf[u[1]]] : ls \in SavedLists(u, lists)}
              = {ls[JobOf[u[1]]] : ls \in SavedLists(u, lists')}
        BY <3>1, <4>1, <4>2, ListsOfJob
      <4> QED
        BY <4>2, <4>3 DEF u
    <3> QED
      BY <1>1, <1>2, <1>7, <2>1, <3>2 DEF ListsCurrent
  <2> QED
    BY <1>1, <1>2, <1>3, <1>7, <2>1 DEF ListsCurrent
<1> QED
  BY <1>4, <1>5, <1>6, <1>7

(* Going on to the next update keeps the thread's own invariant.           *)
LEMMA AdvanceOwn ==
  ASSUME TypeOK, FileInv, NEW t \in Threads, Advance(t),
         pc[t] \in {"release", "listed"},
         \A i \in 1 .. 4 : i # at[t] /\ <<t, i>> \in Updates => result'[<<t, i>>] = result[<<t, i>>]
  PROVE  /\ CopyCurrent(t)' /\ StageFits(t)' /\ StillPending(t)'
         /\ t \in JobThreads => ListsCurrent(t)'
<1>1. /\ pc'[t] \in {"idle", "done"}
      /\ at'[t] \in 1 .. 4
      /\ (at'[t] = at[t] /\ pc'[t] = "done") \/ at'[t] = at[t] + 1
  <2> DEFINE len == Len(Program(t))
  <2>1. at[t] \in 1 .. 4 /\ len \in 1 .. 4 /\ at[t] <= len
    BY ThreadUpdates DEF TypeOK, Current
  <2>2. /\ at'[t] = IF at[t] < len THEN at[t] + 1 ELSE at[t]
        /\ pc'[t] = IF at[t] < len THEN "idle" ELSE "done"
    BY DEF Advance, Goto, TypeOK
  <2> HIDE DEF len
  <2> QED
    BY <2>1, <2>2
<1>2. CopyCurrent(t)' /\ StageFits(t)'
  BY <1>1 DEF CopyCurrent, StageFits
<1>3. StillPending(t)'
  <2> SUFFICES ASSUME NEW i \in 1 .. 4, <<t, i>> \in Updates, i >= at'[t], pc'[t] # "done" \/ i > at'[t]
               PROVE  result'[<<t, i>>] = "pending"
    BY <1>1 DEF StillPending
  <2>1. at[t] \in 1 .. 4 /\ i > at[t]
    BY <1>1 DEF TypeOK
  <2>2. result'[<<t, i>>] = result[<<t, i>>]
    BY <2>1
  <2>3. result[<<t, i>>] = "pending"
    BY <2>1 DEF FileInv, StillPending
  <2> QED
    BY <2>2, <2>3
<1>4. ASSUME t \in JobThreads PROVE ListsCurrent(t)'
  <2>1. jobLock[JobOf[t]] = t /\ JobOf[t] \in Jobs
    BY <1>4, StateFileAssumption DEF FileInv, ListsCurrent
  <2>2. CASE pc'[t] = "done"
    BY <2>2 DEF ListsCurrent
  <2>3. CASE pc'[t] = "idle"
    <3>1. at[t] # Len(Program(t))
      BY <2>3, ThreadUpdates DEF Advance, Goto, TypeOK
    <3>2. jobLock'[JobOf[t]] = t
      BY <2>1, <3>1 DEF Advance
    <3> QED
      BY <2>3, <3>2 DEF ListsCurrent
  <2> QED
    BY <1>1, <2>2, <2>3
<1> QED
  BY <1>2, <1>3, <1>4

(* So does every step of the thread.                                       *)
LEMMA StepOwn ==
  ASSUME TypeOK, FileInv, NEW t \in Threads, Step(t)
  PROVE  /\ CopyCurrent(t)' /\ StageFits(t)' /\ StillPending(t)'
         /\ t \in JobThreads => ListsCurrent(t)'
<1>a. /\ CopyCurrent(t) /\ StageFits(t) /\ StillPending(t)
      /\ t \in JobThreads => ListsCurrent(t) /\ JobOf[t] \in Jobs
      /\ Current(t) = <<t, at[t]>> /\ Current(t) \in Updates /\ at[t] \in 1 .. 4
      /\ t # None
  BY StateFileAssumption DEF FileInv, TypeOK, Current
<1>b. /\ KindOf(Current(t)) = "snapshots" => t \in JobThreads /\ at[t] = 4
      /\ Current(t)[1] = t
  BY <1>a, UpdateParts
<1> DEFINE Own == /\ CopyCurrent(t)' /\ StageFits(t)' /\ StillPending(t)'
                  /\ t \in JobThreads => ListsCurrent(t)'
<1>1. CASE Enter(t)
  <2>1. /\ pc'[t] = "waiting" /\ UNCHANGED <<at, result>> /\ KindOf(Current(t)) # "snapshots"
        /\ Current(t)' = Current(t)
    BY <1>1 DEF Enter, Goto, TypeOK, Current
  <2>2. t \in JobThreads => jobLock'[JobOf[t]] = t
    BY <1>1, <1>a DEF Enter, TakeJobLock, TypeOK
  <2> QED
    BY <1>1, <1>a, <2>1, <2>2 DEF CopyCurrent, StageFits, StillPending, ListsCurrent, Enter
<1>2. CASE Lock(t)
  <2>1. pc'[t] = "locked" /\ Current(t)' = Current(t)
    BY <1>2 DEF Lock, Goto, TypeOK, Current
  <2> QED
    BY <1>2, <1>a, <2>1 DEF Lock, CopyCurrent, StageFits, StillPending, ListsCurrent
<1>3. CASE NotLocked(t)
  <2>1. /\ pc[t] = "waiting" /\ pc'[t] = "release" /\ Current(t)' = Current(t)
        /\ UNCHANGED <<at, jobLock>>
        /\ \A i \in 1 .. 4 : i # at[t] /\ <<t, i>> \in Updates => result'[<<t, i>>] = result[<<t, i>>]
    BY <1>3, <1>a DEF NotLocked, Goto, Return, TypeOK, Current
  <2> QED
    BY <1>a, <2>1 DEF CopyCurrent, StageFits, StillPending, ListsCurrent
<1>4. CASE Load(t)
  <2>1. /\ pc[t] = "locked" /\ Current(t)' = Current(t)
        /\ UNCHANGED <<file, stateLock, at, jobLock>>
        /\ \/ pc'[t] = "release"
           \/ /\ pc'[t] = "loaded" /\ result' = result
              /\ copy'[t] = ChangeState(Current(t), file)
        /\ \A i \in 1 .. 4 : i # at[t] /\ <<t, i>> \in Updates => result'[<<t, i>>] = result[<<t, i>>]
    BY <1>4, <1>a DEF Load, Goto, Return, TypeOK, Current
  <2> QED
    BY <1>a, <2>1 DEF CopyCurrent, StageFits, StillPending, ListsCurrent
<1>5. CASE WriteTemp(t)
  <2>1. pc'[t] = "written" /\ Current(t)' = Current(t)
    BY <1>5 DEF WriteTemp, Goto, TypeOK, Current
  <2> QED
    BY <1>5, <1>a, <2>1 DEF WriteTemp, CopyCurrent, StageFits, StillPending, ListsCurrent
<1>6. CASE Rename(t) \/ Fail(t)
  <2>1. /\ pc[t] \in {"locked", "loaded", "written"} /\ pc'[t] = "release"
        /\ Current(t)' = Current(t)
        /\ UNCHANGED <<at, jobLock>>
        /\ \A i \in 1 .. 4 : i # at[t] /\ <<t, i>> \in Updates => result'[<<t, i>>] = result[<<t, i>>]
    BY <1>6, <1>a DEF Rename, Fail, Goto, Return, TypeOK, Current
  <2> QED
    BY <1>a, <2>1 DEF CopyCurrent, StageFits, StillPending, ListsCurrent
<1>7. CASE Release(t)
  BY <1>7, AdvanceOwn DEF Release
<1>8. CASE t \in JobThreads /\ LoadLists(t)
  <2>1. /\ pc[t] = "idle" /\ pc'[t] = "listed" /\ Current(t)' = Current(t)
        /\ KindOf(Current(t)) = "snapshots"
        /\ listCopy'[t] \in SavedLists(Current(t), lists)
        /\ UNCHANGED <<lists, at, jobLock, result>>
    BY <1>8 DEF LoadLists, Goto, TypeOK, Current
  <2> QED
    BY <1>8, <1>a, <1>b, <2>1 DEF CopyCurrent, StageFits, StillPending, ListsCurrent
<1>9. CASE t \in JobThreads /\ (SaveLists(t) \/ FailLists(t))
  <2>1. /\ pc[t] = "listed" /\ Advance(t)
        /\ \A i \in 1 .. 4 : i # at[t] /\ <<t, i>> \in Updates => result'[<<t, i>>] = result[<<t, i>>]
    BY <1>9, <1>a DEF SaveLists, FailLists, Return, TypeOK
  <2> QED
    BY <2>1, AdvanceOwn
<1> QED
  BY <1>1, <1>2, <1>3, <1>4, <1>5, <1>6, <1>7, <1>8, <1>9 DEF Step

(* Killing a process keeps the invariant of every thread.                  *)
LEMMA CrashKeeps ==
  ASSUME TypeOK, FileInv, NEW p \in Processes, Crash(p)
  PROVE  FileInv'
<1>1. ASSUME NEW t \in Threads
      PROVE  /\ CopyCurrent(t)' /\ StageFits(t)' /\ StillPending(t)'
             /\ t \in JobThreads => ListsCurrent(t)'
  <2>1. /\ UNCHANGED <<file, lists, at, listCopy, result>>
        /\ Current(t)' = Current(t)
    BY DEF Crash, Current
  <2>2. /\ CopyCurrent(t) /\ StageFits(t) /\ StillPending(t)
        /\ t \in JobThreads => ListsCurrent(t) /\ JobOf[t] \in Jobs
    BY StateFileAssumption DEF FileInv
  <2>3. CASE ProcOf[t] = p
    <3>1. pc'[t] = "dead"
      BY <2>3 DEF Crash
    <3> QED
      BY <2>1, <2>2, <3>1 DEF CopyCurrent, StageFits, StillPending, ListsCurrent
  <2>4. CASE ProcOf[t] # p
    <3>1. /\ pc'[t] = pc[t] /\ copy'[t] = copy[t]
          /\ stateLock = t => stateLock' = t
          /\ \A j \in Jobs : jobLock[j] = t => jobLock'[j] = t
      BY <2>4 DEF Crash
    <3> QED
      BY <2>1, <2>2, <3>1 DEF CopyCurrent, StageFits, StillPending, ListsCurrent
  <2> QED
    BY <2>3, <2>4
<1> QED
  BY <1>1 DEF FileInv, Threads

(* What a thread between loading and renaming has in hand is current.      *)
THEOREM NoStaleCopy == Spec => []FileInv
<1>1. Init => FileInv
  <2> SUFFICES ASSUME Init PROVE FileInv
    OBVIOUS
  <2>1. ASSUME NEW t \in Threads
        PROVE  /\ pc[t] = "idle" /\ at[t] = 1
               /\ \A u \in Updates : result[u] = "pending"
    BY <2>1 DEF Init
  <2>2. ASSUME NEW t \in Threads PROVE CopyCurrent(t) /\ StageFits(t)
    BY <2>1, <2>2 DEF CopyCurrent, StageFits
  <2>3. ASSUME NEW t \in Threads PROVE StillPending(t)
    BY <2>1, <2>3 DEF StillPending
  <2>4. ASSUME NEW t \in JobThreads PROVE ListsCurrent(t)
    <3>1. t \in Threads
      BY <2>4 DEF Threads
    <3> QED
      BY <2>1, <3>1 DEF ListsCurrent
  <2> QED
    BY <2>2, <2>3, <2>4 DEF FileInv
<1>2. ASSUME TypeOK, TypeOK', FileInv, NEW t \in Threads, Step(t) PROVE FileInv'
  BY <1>2, StepLocal, StepOwn, OthersKept DEF FileInv, Threads
<1>3. FileInv /\ UNCHANGED vars => FileInv'
  BY DEF vars, FileInv, CopyCurrent, StageFits, StillPending, ListsCurrent, Current
<1>4. TypeOK /\ TypeOK' /\ FileInv /\ [Next]_vars => FileInv'
  BY <1>2, <1>3, CrashKeeps DEF Next, Terminated
<1> QED
  BY <1>1, <1>4, TypeCorrect, PTL DEF Spec

-----------------------------------------------------------------------------
(* The refinement.                                                         *)

Contents == [state |-> file, lists |-> lists]

(* A file update leaves the lists alone and a list update the file. *)
LEMMA ChangeOne ==
  ASSUME NEW u \in Updates
  PROVE  StoreChanges(u, Contents) =
           IF KindOf(u) = "snapshots"
             THEN {[state |-> file, lists |-> ls] : ls \in SavedLists(u, lists)}
             ELSE {[state |-> ChangeState(u, file), lists |-> lists]}
<1>1. CASE KindOf(u) = "snapshots"
  BY <1>1 DEF StoreChanges, Contents, ChangeState
<1>2. CASE KindOf(u) # "snapshots"
  <2>1. SavedLists(u, lists) = {lists}
    BY <1>2 DEF SavedLists, ChangeLists, ReplaceLists
  <2> QED
    BY <1>2, <2>1 DEF StoreChanges, Contents
<1> QED
  BY <1>1, <1>2

(* Every step of the implementation is one update of the atomic store      *)
(* taking effect or being turned down, or nothing the store shows.         *)
LEMMA StepRefines ==
  ASSUME TypeOK, FileInv, NEW t \in Threads, Step(t)
  PROVE  \/ UNCHANGED <<file, lists, result>>
         \/ \E u \in Updates :
               /\ result[u] = "pending"
               /\ \/ /\ Contents' \in StoreChanges(u, Contents)
                     /\ result' = [result EXCEPT ![u] = "applied"]
                  \/ /\ UNCHANGED <<file, lists>>
                     /\ result' = [result EXCEPT ![u] = "failed"]
<1> DEFINE u == Current(t)
<1>a. u \in Updates /\ u = <<t, at[t]>> /\ at[t] \in 1 .. 4 /\ u[1] = t
  BY DEF TypeOK, Current
<1>b. pc[t] \in {"waiting", "locked", "loaded", "written", "listed"} => result[u] = "pending"
  <2>1. StillPending(t)
    BY DEF FileInv
  <2>2. \/ at[t] < at[t]
        \/ pc[t] \in {"release", "done", "dead"}
        \/ result[<<t, at[t]>>] = "pending"
    BY <1>a, <2>1 DEF StillPending
  <2>3. ~(at[t] < at[t])
    BY <1>a
  <2> QED
    BY <1>a, <2>2, <2>3
<1>c. pc[t] \in {"locked", "written"} => KindOf(u) # "snapshots"
  BY DEF FileInv, StageFits
<1>1. CASE Enter(t) \/ Lock(t) \/ WriteTemp(t) \/ Release(t) \/ LoadLists(t)
  BY <1>1 DEF Enter, Lock, WriteTemp, Release, LoadLists
<1>2. CASE NotLocked(t) \/ FailLists(t)
  BY <1>2, <1>a, <1>b DEF NotLocked, FailLists, Return
<1>3. CASE Fail(t)
  <2>1. result[u] = "pending"
    BY <1>3, <1>b DEF Fail
  <2> QED
    BY <1>3, <1>a, <2>1 DEF Fail, Return
<1>4. CASE Load(t)
  <2>1. CASE KindOf(u) = "clear" /\ file.running[JobOf[t]] = None
    <3>1. ChangeState(u, file) = file
      BY <1>a, <2>1 DEF ChangeState, TypeOK, FileContents
    <3>2. Contents' \in StoreChanges(u, Contents)
      BY <1>4, <1>a, <2>1, <3>1, ChangeOne DEF Load, Contents
    <3> QED
      BY <1>4, <1>a, <1>b, <2>1, <3>2 DEF Load, Return
  <2>2. CASE ~(KindOf(u) = "clear" /\ file.running[JobOf[t]] = None)
    BY <1>4, <2>2 DEF Load
  <2> QED
    BY <2>1, <2>2
<1>5. CASE Rename(t)
  <2>1. pc[t] = "written" /\ file' = copy[t] /\ lists' = lists
        /\ result' = [result EXCEPT ![u] = "applied"]
    BY <1>5 DEF Rename, Return
  <2>2. file' = ChangeState(u, file)
    BY <2>1 DEF FileInv, CopyCurrent
  <2>3. Contents' \in StoreChanges(u, Contents)
    BY <1>a, <1>c, <2>1, <2>2, ChangeOne DEF Contents
  <2> QED
    BY <1>a, <1>b, <2>1, <2>3
<1>6. CASE t \in JobThreads /\ SaveLists(t)
  <2>1. /\ pc[t] = "listed" /\ file' = file
        /\ lists' = [lists EXCEPT ![JobOf[t]] = listCopy[t][JobOf[t]]]
        /\ result' = [result EXCEPT ![u] = "applied"]
    BY <1>6 DEF SaveLists, Return
  <2>2. PICK ls \in SavedLists(u, lists) : listCopy[t][JobOf[t]] = ls[JobOf[t]]
    BY <1>6, <2>1 DEF FileInv, ListsCurrent
  <2>6. KindOf(u) = "snapshots"
    BY <2>1 DEF FileInv, StageFits
  <2>3. JobOf[t] \in Jobs /\ lists \in ListContents
    BY <1>6, StateFileAssumption DEF TypeOK
  <2>4. lists' = ls
    BY <1>a, <2>1, <2>2, <2>3 DEF SavedLists, ChangeLists, ReplaceLists, ListContents
  <2>5. Contents' \in StoreChanges(u, Contents)
    BY <1>a, <2>1, <2>2, <2>4, <2>6, ChangeOne DEF Contents
  <2> QED
    BY <1>a, <1>b, <2>1, <2>5
<1> QED
  BY <1>1, <1>2, <1>3, <1>4, <1>5, <1>6 DEF Step

(* The state file and the snapshot lists implement the atomic store.       *)
THEOREM Refinement == Spec => StoreSpec
<1>1. Init => Store!Init
  BY DEF Init, Store!Init
<1>2. ASSUME TypeOK, FileInv, [Next]_vars
      PROVE  [Store!Next]_<<[state |-> file, lists |-> lists], result>>
  <2>1. ASSUME NEW t \in Threads, Step(t)
        PROVE  [Store!Next]_<<[state |-> file, lists |-> lists], result>>
    BY <1>2, <2>1, StepRefines DEF Store!Next, Store!Apply, Store!Reject, Contents
  <2>2. CASE UNCHANGED <<file, lists, result>>
    BY <2>2
  <2> QED
    BY <1>2, <2>1, <2>2 DEF Next, Crash, Terminated, vars
<1> QED
  BY <1>1, <1>2, TypeCorrect, NoStaleCopy, PTL DEF Spec, StoreSpec, Store!Spec

-----------------------------------------------------------------------------
(* Temporary files and histories.                                          *)

(* A temporary file is that of a thread about to rename it, or of one that *)
(* was killed (writeAtomic), for any threads and failures.                 *)
THEOREM TempsFromKilled == Spec => []TempsOnlyFromKilled
<1>1. Init => TempsOnlyFromKilled
  BY DEF Init, TempsOnlyFromKilled
<1>2. ASSUME TypeOK, TempsOnlyFromKilled, NEW t \in Threads, Step(t) PROVE TempsOnlyFromKilled'
  <2>1. temps \subseteq Threads /\ pc \in [Threads -> Stages]
    BY <1>2 DEF TypeOK
  <2>2. CASE Enter(t) \/ Lock(t) \/ NotLocked(t) \/ Load(t)
    BY <1>2, <2>1, <2>2 DEF Enter, Lock, NotLocked, Load, Goto, TempsOnlyFromKilled
  <2>3. CASE WriteTemp(t)
    BY <1>2, <2>1, <2>3 DEF WriteTemp, Goto, TempsOnlyFromKilled
  <2>4. CASE Rename(t) \/ Fail(t)
    BY <1>2, <2>1, <2>4 DEF Rename, Fail, Goto, TempsOnlyFromKilled
  <2>5. CASE Release(t) \/ SaveLists(t) \/ FailLists(t)
    BY <1>2, <2>1, <2>5 DEF Release, SaveLists, FailLists, Advance, Goto, TempsOnlyFromKilled
  <2>6. CASE LoadLists(t)
    BY <1>2, <2>1, <2>6 DEF LoadLists, Goto, TempsOnlyFromKilled
  <2> QED
    BY <1>2, <2>2, <2>3, <2>4, <2>5, <2>6 DEF Step
<1>3. ASSUME TypeOK, TempsOnlyFromKilled, NEW p \in Processes, Crash(p) PROVE TempsOnlyFromKilled'
  BY <1>3 DEF TypeOK, Crash, TempsOnlyFromKilled
<1>4. TempsOnlyFromKilled /\ UNCHANGED vars => TempsOnlyFromKilled'
  BY DEF vars, TempsOnlyFromKilled
<1>5. TypeOK /\ TempsOnlyFromKilled /\ [Next]_vars => TempsOnlyFromKilled'
  BY <1>2, <1>3, <1>4 DEF Next, Terminated
<1> QED
  BY <1>1, <1>5, TypeCorrect, PTL DEF Spec

(* The executions of job j whose run is on record. *)
RunRecorded(t) == result[<<t, 3>>] = "applied"
Recorded(j) == {t \in JobThreads : JobOf[t] = j /\ RunRecorded(t)}

(* A job's history has only recorded runs and each of them once, and all   *)
(* of them until it is full; the one that holds the job lock is in front.  *)
HistoryInv ==
  \A j \in Jobs :
    /\ IsFiniteSet(Recorded(j))
    /\ \A i \in 1 .. Len(file.runs[j]) : file.runs[j][i] \in Recorded(j)
    /\ \A i, k \in 1 .. Len(file.runs[j]) : file.runs[j][i] = file.runs[j][k] => i = k
    /\ Len(file.runs[j]) < MaxRuns =>
         \A t \in Recorded(j) : \E i \in 1 .. Len(file.runs[j]) : file.runs[j][i] = t
    /\ \A t \in Recorded(j) : jobLock[j] = t => Len(file.runs[j]) > 0 /\ file.runs[j][1] = t

(* What the new history of a job looks like.                               *)
LEMMA AddRunShape ==
  ASSUME NEW t \in JobThreads, NEW runs \in Histories
  PROVE  LET new == AddRun(t, runs) IN
         /\ Len(new) = IF Len(runs) < MaxRuns THEN Len(runs) + 1 ELSE MaxRuns
         /\ new[1] = t
         /\ \A i \in 2 .. Len(new) : new[i] = runs[i - 1]
<1> DEFINE all == <<t>> \o runs
           n == IF Len(runs) < MaxRuns THEN Len(runs) + 1 ELSE MaxRuns
<1>1. runs \in Seq(JobThreads) /\ Len(runs) \in Nat /\ Len(runs) <= MaxRuns
      /\ MaxRuns \in Nat \ {0}
  BY StateFileAssumption DEF Histories
<1>2. /\ all \in Seq(JobThreads) /\ Len(all) = Len(runs) + 1
      /\ all[1] = t /\ \A i \in 2 .. Len(runs) + 1 : all[i] = runs[i - 1]
  BY <1>1
<1>3. n \in 1 .. Len(all)
  BY <1>1, <1>2
<1>4. /\ Len(SubSeq(all, 1, n)) = n
      /\ \A i \in 1 .. n : SubSeq(all, 1, n)[i] = all[i]
  <2> HIDE DEF all, n
  <2> QED
    BY <1>2, <1>3, SubSeqProperties
<1>5. \A i \in 2 .. n : SubSeq(all, 1, n)[i] = runs[i - 1]
  BY <1>1, <1>2, <1>4
<1>6. SubSeq(all, 1, n)[1] = t
  BY <1>2, <1>3, <1>4
<1>7. AddRun(t, runs) = SubSeq(all, 1, n)
  BY DEF AddRun
<1> HIDE DEF all
<1> QED
  BY <1>4, <1>5, <1>6, <1>7

(* A step that records no run keeps every history, if nobody whose run is  *)
(* on record gets a job lock.                                              *)
LEMMA HistoryQuiet ==
  ASSUME HistoryInv, file'.runs = file.runs,
         \A t \in JobThreads : result'[<<t, 3>>] = "applied" <=> RunRecorded(t),
         \A t \in JobThreads : RunRecorded(t) /\ jobLock'[JobOf[t]] = t => jobLock[JobOf[t]] = t
  PROVE  HistoryInv'
<1>1. ASSUME NEW j \in Jobs PROVE Recorded(j)' = Recorded(j)
  BY DEF Recorded, RunRecorded
<1>2. ASSUME NEW j \in Jobs, NEW t \in Recorded(j), jobLock'[j] = t PROVE jobLock[j] = t
  BY <1>2 DEF Recorded
<1> QED
  BY <1>1, <1>2 DEF HistoryInv

(* A run that is recorded goes to the front of its job's history.          *)
LEMMA HistoryGrows ==
  ASSUME TypeOK, TypeOK', HistoryInv, NEW t \in JobThreads, ~RunRecorded(t),
         \A s \in JobThreads : result'[<<s, 3>>] = "applied" <=> RunRecorded(s) \/ s = t,
         file'.runs = [file.runs EXCEPT ![JobOf[t]] = AddRun(t, @)],
         jobLock' = jobLock, jobLock[JobOf[t]] = t
  PROVE  HistoryInv'
<1>1. file.runs \in [Jobs -> Histories] /\ JobOf[t] \in Jobs /\ MaxRuns \in Nat \ {0}
  BY StateFileAssumption DEF TypeOK, FileContents
<1>2. ASSUME NEW j \in Jobs, j # JobOf[t]
      PROVE  Recorded(j)' = Recorded(j) /\ file'.runs[j] = file.runs[j]
  BY <1>1, <1>2 DEF Recorded, RunRecorded
<1> DEFINE j == JobOf[t]
           old == file.runs[j]
           new == file'.runs[j]
<1>3. /\ Recorded(j)' = Recorded(j) \cup {t} /\ t \notin Recorded(j)
      /\ new = AddRun(t, old) /\ old \in Histories
  BY <1>1 DEF Recorded, RunRecorded
<1>4. /\ Len(new) = IF Len(old) < MaxRuns THEN Len(old) + 1 ELSE MaxRuns
      /\ new[1] = t
      /\ \A i \in 2 .. Len(new) : new[i] = old[i - 1]
  BY <1>3, AddRunShape
<1>5. /\ IsFiniteSet(Recorded(j))
      /\ \A i \in 1 .. Len(old) : old[i] \in Recorded(j)
      /\ \A i, k \in 1 .. Len(old) : old[i] = old[k] => i = k
      /\ Len(old) < MaxRuns =>
           \A s \in Recorded(j) : \E i \in 1 .. Len(old) : old[i] = s
  BY <1>1 DEF HistoryInv
<1>6. Len(old) \in Nat /\ Len(old) <= MaxRuns
  BY <1>3 DEF Histories
<1> HIDE DEF old, new
<1>7. IsFiniteSet(Recorded(j)')
  BY <1>3, <1>5, FS_AddElement
<1>8. \A i \in 1 .. Len(new) : i = 1 \/ (i \in 2 .. Len(new) /\ i - 1 \in 1 .. Len(old))
  BY <1>1, <1>4, <1>6
<1>9. \A i \in 1 .. Len(new) : new[i] \in Recorded(j)'
  <2>1. ASSUME NEW i \in 1 .. Len(new) PROVE new[i] \in Recorded(j)'
    <3>1. CASE i = 1
      BY <1>3, <1>4, <3>1
    <3>2. CASE i \in 2 .. Len(new) /\ i - 1 \in 1 .. Len(old)
      <4>1. new[i] = old[i - 1] /\ old[i - 1] \in Recorded(j)
        BY <1>4, <1>5, <3>2
      <4> QED
        BY <1>3, <4>1
    <3> QED
      BY <1>8, <2>1, <3>1, <3>2
  <2> QED
    BY <2>1
<1>10. \A i \in 2 .. Len(new) : new[i] \in Recorded(j) /\ new[i] # t
  BY <1>1, <1>3, <1>4, <1>5, <1>6
<1>11. ASSUME NEW i \in 1 .. Len(new), NEW k \in 1 .. Len(new), new[i] = new[k] PROVE i = k
  <2>1. CASE i = 1 \/ k = 1
    BY <1>4, <1>8, <1>10, <1>11, <2>1
  <2>2. CASE i # 1 /\ k # 1
    <3>1. PICK a \in 1 .. Len(old) : i = a + 1 /\ new[i] = old[a]
      BY <1>4, <1>8, <2>2
    <3>2. PICK b \in 1 .. Len(old) : k = b + 1 /\ new[k] = old[b]
      BY <1>4, <1>8, <2>2
    <3>3. a = b
      BY <1>5, <1>11, <3>1, <3>2
    <3> QED
      BY <3>1, <3>2, <3>3
  <2> QED
    BY <2>1, <2>2
<1>12. ASSUME Len(new) < MaxRuns, NEW s \in Recorded(j)'
       PROVE  \E i \in 1 .. Len(new) : new[i] = s
  <2>1. Len(old) < MaxRuns /\ Len(new) = Len(old) + 1
    BY <1>1, <1>4, <1>6, <1>12
  <2>2. CASE s = t
    BY <1>4, <1>6, <2>1, <2>2
  <2>3. CASE s # t
    <3>1. PICK i \in 1 .. Len(old) : old[i] = s
      BY <1>3, <1>5, <1>12, <2>1, <2>3
    <3>2. i + 1 \in 2 .. Len(new) /\ i + 1 \in 1 .. Len(new) /\ (i + 1) - 1 = i
      BY <1>6, <2>1
    <3> QED
      BY <1>4, <3>1, <3>2
  <2> QED
    BY <2>2, <2>3
<1>13. Len(new) > 0 /\ jobLock'[j] = t
  BY <1>1, <1>4, <1>6
<1>14. ASSUME NEW i \in Jobs
       PROVE  /\ IsFiniteSet(Recorded(i)')
              /\ \A k \in 1 .. Len(file'.runs[i]) : file'.runs[i][k] \in Recorded(i)'
              /\ \A k, l \in 1 .. Len(file'.runs[i]) :
                    file'.runs[i][k] = file'.runs[i][l] => k = l
              /\ Len(file'.runs[i]) < MaxRuns =>
                   \A s \in Recorded(i)' : \E k \in 1 .. Len(file'.runs[i]) : file'.runs[i][k] = s
              /\ \A s \in Recorded(i)' : jobLock'[i] = s =>
                   Len(file'.runs[i]) > 0 /\ file'.runs[i][1] = s
  <2>1. CASE i = j
    BY <1>4, <1>7, <1>9, <1>11, <1>12, <1>13, <2>1 DEF new
  <2>2. CASE i # j
    BY <1>2, <2>2 DEF HistoryInv
  <2> QED
    BY <2>1, <2>2
<1> QED
  BY <1>14 DEF HistoryInv

(* The update that records a job's run.                                    *)
LEMMA RunUpdates ==
  ASSUME NEW t \in JobThreads
  PROVE  t \in Threads /\ <<t, 3>> \in Updates
<1>1. t \in Threads
  BY DEF Threads
<1>2. 3 \in 1 .. 4 /\ 3 <= 4
  OBVIOUS
<1>3. Len(Program(t)) = 4
  BY DEF Program
<1> QED
  BY <1>1, <1>2, <1>3, ThreadUpdates

(* Nobody's run is on record before its thread has recorded it.            *)
LEMMA RunStillPending ==
  ASSUME NEW t \in JobThreads, StillPending(t), at[t] \in 1 .. 4,
         at[t] < 3 \/ (at[t] = 3 /\ pc[t] \notin {"release", "done", "dead"})
  PROVE  ~RunRecorded(t)
<1>1. <<t, 3>> \in Updates /\ 3 \in 1 .. 4
  BY RunUpdates
<1>2. \/ 3 < at[t]
      \/ 3 = at[t] /\ pc[t] \in {"release", "done", "dead"}
      \/ result[<<t, 3>>] = "pending"
  BY <1>1 DEF StillPending
<1> QED
  BY <1>2 DEF RunRecorded

(* Every step of a thread keeps the histories. *)
LEMMA HistoryStep ==
  ASSUME TypeOK, TypeOK', FileInv, HistoryInv, NEW t \in Threads, Step(t)
  PROVE  HistoryInv'
<1>a. /\ Current(t) = <<t, at[t]>> /\ Current(t) \in Updates /\ at[t] \in 1 .. 4
      /\ Current(t)[1] = t /\ Current(t)[2] = at[t]
      /\ \A s \in Threads : s # None
  BY StateFileAssumption DEF TypeOK, Current
<1>b. ASSUME NEW s \in JobThreads
      PROVE  s \in Threads /\ <<s, 3>> \in Updates /\ JobOf[s] \in Jobs
  BY <1>b, RunUpdates, StateFileAssumption
<1>c. /\ \A s \in Threads : StillPending(s) /\ CopyCurrent(s) /\ StageFits(s)
      /\ t \in JobThreads => ListsCurrent(t)
  BY DEF FileInv
<1>d. KindOf(Current(t)) = "run" <=> t \in JobThreads /\ at[t] = 3
  BY <1>a, UpdateKinds
<1>e. pc[t] \in {"waiting", "locked", "loaded", "written", "listed"} /\ t \in JobThreads
        => (at[t] = 3 => ~RunRecorded(t))
  BY <1>a, <1>c, RunStillPending
<1> DEFINE NoneGets == \A s \in JobThreads :
                RunRecorded(s) /\ jobLock'[JobOf[s]] = s => jobLock[JobOf[s]] = s
<1>1. CASE Enter(t)
  <2>1. NoneGets
    <3> SUFFICES ASSUME NEW s \in JobThreads, RunRecorded(s), jobLock'[JobOf[s]] = s,
                        jobLock[JobOf[s]] # s
                 PROVE  FALSE
      OBVIOUS
    <3>1. s = t /\ at[t] = 1 /\ pc[t] = "idle"
      BY <1>1, <1>b DEF Enter, TakeJobLock, MayUpdate, TypeOK
    <3> QED
      BY <1>c, <3>1, RunStillPending
  <2> QED
    BY <1>1, <2>1, HistoryQuiet DEF Enter, RunRecorded
<1>2. CASE Lock(t) \/ WriteTemp(t) \/ LoadLists(t)
  BY <1>2, HistoryQuiet DEF Lock, WriteTemp, LoadLists, RunRecorded
<1>3. CASE NotLocked(t) \/ Fail(t)
  <2>1. /\ pc[t] \in {"waiting", "locked", "loaded", "written"}
        /\ result' = [result EXCEPT ![<<t, at[t]>>] = "failed"]
        /\ UNCHANGED <<file, jobLock>>
    BY <1>3, <1>a DEF NotLocked, Fail, Return
  <2>2. \A s \in JobThreads : result'[<<s, 3>>] = "applied" <=> RunRecorded(s)
    BY <1>b, <1>e, <2>1 DEF TypeOK, RunRecorded
  <2> QED
    BY <2>1, <2>2, HistoryQuiet
<1>4. CASE Load(t)
  <2>1. /\ \/ result' = result
           \/ /\ at[t] # 3 \/ t \notin JobThreads
              /\ result' = [result EXCEPT ![<<t, at[t]>>] = "applied"]
        /\ UNCHANGED <<file, jobLock>>
    BY <1>4, <1>a, <1>d DEF Load, Return
  <2>2. \A s \in JobThreads : result'[<<s, 3>>] = "applied" <=> RunRecorded(s)
    BY <1>b, <2>1 DEF TypeOK, RunRecorded
  <2> QED
    BY <2>1, <2>2, HistoryQuiet
<1>5. CASE Rename(t)
  <2>1. /\ pc[t] = "written" /\ file' = ChangeState(Current(t), file)
        /\ result' = [result EXCEPT ![<<t, at[t]>>] = "applied"]
        /\ UNCHANGED jobLock
    BY <1>5, <1>a, <1>c DEF Rename, Return, CopyCurrent
  <2>2. CASE KindOf(Current(t)) = "run"
    <3>1. t \in JobThreads /\ at[t] = 3 /\ ~RunRecorded(t) /\ jobLock[JobOf[t]] = t
      BY <1>c, <1>d, <1>e, <2>1, <2>2 DEF ListsCurrent
    <3>2. file'.runs = [file.runs EXCEPT ![JobOf[t]] = AddRun(t, @)]
      BY <1>a, <2>1, <2>2 DEF ChangeState, TypeOK, FileContents
    <3>3. \A s \in JobThreads : result'[<<s, 3>>] = "applied" <=> RunRecorded(s) \/ s = t
      BY <1>b, <2>1, <3>1 DEF TypeOK, RunRecorded
    <3> QED
      BY <2>1, <3>1, <3>2, <3>3, HistoryGrows
  <2>3. CASE KindOf(Current(t)) # "run"
    <3>1. file'.runs = file.runs
      BY <1>a, <2>1, <2>3, UpdateParts DEF ChangeState, TypeOK, FileContents
    <3>2. \A s \in JobThreads : result'[<<s, 3>>] = "applied" <=> RunRecorded(s)
      BY <1>b, <1>d, <2>1, <2>3 DEF TypeOK, RunRecorded
    <3> QED
      BY <2>1, <3>1, <3>2, HistoryQuiet
  <2> QED
    BY <2>2, <2>3
<1>6. ASSUME Advance(t) PROVE NoneGets
  BY <1>6, <1>a, <1>b DEF Advance
<1>7. CASE Release(t)
  BY <1>6, <1>7, HistoryQuiet DEF Release, RunRecorded
<1>8. CASE t \in JobThreads /\ (SaveLists(t) \/ FailLists(t))
  <2>1. /\ pc[t] = "listed" /\ Advance(t) /\ UNCHANGED file
        /\ \E r \in {"applied", "failed"} : result' = [result EXCEPT ![<<t, at[t]>>] = r]
    BY <1>8, <1>a DEF SaveLists, FailLists, Return
  <2>2. at[t] # 3
    BY <1>8, <1>c, <1>d, <2>1 DEF StageFits
  <2>3. \A s \in JobThreads : result'[<<s, 3>>] = "applied" <=> RunRecorded(s)
    BY <1>b, <2>1, <2>2 DEF TypeOK, RunRecorded
  <2> QED
    BY <1>6, <2>1, <2>3, HistoryQuiet
<1> QED
  BY <1>1, <1>2, <1>3, <1>4, <1>5, <1>7, <1>8 DEF Step

(* A recorded run is in front of its job's history while its execution has *)
(* the job lock, and in it until MaxRuns others have been recorded, for    *)
(* any number of executions, failures and kills (RecordRun).               *)
THEOREM RunsKept == Spec => []HistoryKept
<1>1. Init => HistoryInv
  <2> SUFFICES ASSUME Init PROVE HistoryInv
    OBVIOUS
  <2>1. ASSUME NEW j \in Jobs PROVE Recorded(j) = {} /\ Len(file.runs[j]) = 0
    BY <2>1, RunUpdates DEF Init, EmptyFile, Recorded, RunRecorded
  <2>2. ASSUME NEW j \in Jobs PROVE IsFiniteSet(Recorded(j))
    BY <2>1, <2>2, FS_EmptySet
  <2>3. ASSUME NEW j \in Jobs PROVE 1 .. Len(file.runs[j]) = {}
    BY <2>1, <2>3
  <2> QED
    BY <2>1, <2>2, <2>3, Zenon DEF HistoryInv
<1>2. ASSUME TypeOK, HistoryInv, NEW p \in Processes, Crash(p) PROVE HistoryInv'
  <2>1. \A t \in JobThreads : t # None /\ JobOf[t] \in Jobs
    BY StateFileAssumption DEF Threads
  <2> QED
    BY <1>2, <2>1, HistoryQuiet DEF Crash, RunRecorded
<1>3. HistoryInv /\ UNCHANGED vars => HistoryInv'
  BY HistoryQuiet DEF vars, RunRecorded
<1>4. TypeOK /\ TypeOK' /\ FileInv /\ HistoryInv /\ [Next]_vars => HistoryInv'
  BY <1>2, <1>3, HistoryStep DEF Next, Terminated
<1>5. TypeOK /\ HistoryInv => HistoryKept
  <2> SUFFICES ASSUME TypeOK, HistoryInv, NEW t \in JobThreads, t \in Recorded(JobOf[t])
               PROVE  /\ jobLock[JobOf[t]] = t =>
                           file.runs[JobOf[t]] # <<>> /\ file.runs[JobOf[t]][1] = t
                      /\ (\A i \in DOMAIN file.runs[JobOf[t]] : file.runs[JobOf[t]][i] # t) =>
                           Cardinality(Recorded(JobOf[t])) > MaxRuns
    BY DEF HistoryKept, Recorded, RunRecorded
  <2> DEFINE j == JobOf[t]
             runs == file.runs[j]
             Others == Recorded(j) \ {t}
  <2>1. j \in Jobs /\ runs \in Histories /\ MaxRuns \in Nat \ {0}
    BY StateFileAssumption DEF TypeOK, FileContents
  <2>2. runs \in Seq(JobThreads) /\ Len(runs) \in Nat /\ Len(runs) <= MaxRuns
        /\ DOMAIN runs = 1 .. Len(runs)
    BY <2>1 DEF Histories
  <2>3. jobLock[j] = t => runs # <<>> /\ runs[1] = t
    BY <2>1, <2>2 DEF HistoryInv
  <2>4. ASSUME \A i \in DOMAIN runs : runs[i] # t PROVE Cardinality(Recorded(j)) > MaxRuns
    <3>1. Len(runs) = MaxRuns
      BY <2>1, <2>2, <2>4 DEF HistoryInv
    <3>2. /\ IsFiniteSet(Recorded(j)) /\ Cardinality(Recorded(j)) \in Nat
          /\ IsFiniteSet(Others) /\ Cardinality(Others) = Cardinality(Recorded(j)) - 1
      BY <2>1, FS_RemoveElement, FS_CardinalityType DEF HistoryInv
    <3>3. IsFiniteSet(1 .. MaxRuns) /\ Cardinality(1 .. MaxRuns) = MaxRuns
      BY <2>1, FS_Interval
    <3> DEFINE f == [i \in 1 .. MaxRuns |-> runs[i]]
    <3>4. f \in [1 .. MaxRuns -> Others]
      BY <2>1, <2>2, <2>4, <3>1 DEF HistoryInv
    <3>5. \A i, k \in 1 .. MaxRuns : f[i] = f[k] => i = k
      BY <2>1, <3>1 DEF HistoryInv
    <3>6. SUFFICES ASSUME Cardinality(Others) < MaxRuns PROVE FALSE
      BY <2>1, <3>2
    <3> HIDE DEF f, Others
    <3>7. \E i, k \in 1 .. MaxRuns : i # k /\ f[i] = f[k]
      BY <3>2, <3>3, <3>4, <3>6, FS_PigeonHole
    <3> QED
      BY <3>5, <3>7
  <2> QED
    BY <2>3, <2>4
<1> QED
  BY <1>1, <1>4, <1>5, TypeCorrect, NoStaleCopy, PTL DEF Spec
=============================================================================
