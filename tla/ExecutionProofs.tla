-------------------------- MODULE ExecutionProofs --------------------------
(***************************************************************************)
(* What the lock protocol of Execution guarantees for any processes, jobs, *)
(* repositories, configured lists and caps.                                *)
(***************************************************************************)
EXTENDS Execution, ScheduleProofs, FiniteSetTheorems, WellFoundedInduction, TLAPS

(* The steps of one execution, named where Step only quantifies them. *)
LEMMA StepCases ==
  ASSUME NEW e \in Executions, Step(e)
  PROVE  \/ AcquireJob(e) \/ AlreadyRunning(e) \/ ClearLeftovers(e)
         \/ ConfirmDue(e) \/ NotDue(e)
         \/ \E r \in Repos : WaitRepository(e, r)
         \/ AllRepositories(e)
         \/ \E s \in SlotFiles : WaitSlot(e, s)
         \/ Abandon(e) \/ Begin(e) \/ StartRestic(e) \/ RecordRun(e) \/ RemoveProgress(e)
         \/ \E s \in SlotFiles : UnlockSlot(e, s)
         \/ \E r \in Repos : UnlockRepository(e, r)
         \/ Return(e)
  BY DEF Step

(* The processes a configured job runs in are processes, and the owner of  *)
(* an execution and its job are what they should be.                       *)
LEMMA ExecutionParts ==
  ASSUME NEW e \in Executions
  PROVE  /\ ProcOf(e) \in JobProcs /\ ProcOf(e) \in Procs
         /\ JobOf(e) \in Jobs
         /\ e = <<ProcOf(e), JobOf(e)>>
         /\ e \in Owners /\ e # None
  BY ConstantsAssumption DEF Executions, ProcOf, JobOf, Owners, Procs

(* A job's repositories are repositories, with and without duplicates.     *)
LEMMA RepositoryParts ==
  ASSUME NEW j \in Jobs
  PROVE  /\ DOMAIN RepoList[j] = 1 .. Len(RepoList[j])
         /\ Len(RepoList[j]) \in Nat
         /\ \A i \in DOMAIN RepoList[j] : RepoList[j][i] \in Repos
         /\ RepositoryNames(j) \subseteq Repos
         /\ RepositoryNames(j) \subseteq Nat
<1>1. RepoList[j] \in Seq(Repos)
  BY ConstantsAssumption
<1>2. /\ DOMAIN RepoList[j] = 1 .. Len(RepoList[j])
      /\ Len(RepoList[j]) \in Nat
      /\ \A i \in DOMAIN RepoList[j] : RepoList[j][i] \in Repos
  <2> DEFINE list == RepoList[j]
  <2>1. list \in Seq(Repos)
    BY <1>1
  <2> HIDE DEF list
  <2>2. /\ DOMAIN list = 1 .. Len(list)
        /\ Len(list) \in Nat
        /\ \A i \in DOMAIN list : list[i] \in Repos
    BY <2>1
  <2> QED
    BY <2>2 DEF list
<1>3. Repos \subseteq Nat
  BY ConstantsAssumption
<1> QED
  BY <1>1, <1>2, <1>3 DEF RepositoryNames

-----------------------------------------------------------------------------
(* Every variable keeps its type, in particular lock files only ever name  *)
(* executions and exec invocations, and a last run is an instant the clock *)
(* has shown.                                                              *)
LEMMA TypeInit == Init => TypeOK
  BY ConstantsAssumption DEF Init, TypeOK, ProcStates, Stages

(* Starting, going on with or killing a process keeps the types.           *)
LEMMA TypeProcess ==
  ASSUME TypeOK, NEW p \in Procs, Start(p) \/ Proceed(p) \/ Crash(p)
  PROVE  TypeOK'
<1> USE DEF TypeOK, procVars, lockVars, fileVars, ProcStates, Stages
<1>1. CASE p \in Ticks /\ StartTick(p)
  BY <1>1 DEF StartTick
<1>2. ASSUME p \in Runs, NEW j \in Jobs, StartRun(p, j) PROVE TypeOK'
  BY <1>2 DEF StartRun, Executions, JobProcs
<1>3. ASSUME p \in Execs, NEW r \in Repos, StartExec(p, r) PROVE TypeOK'
  <2>1. <<p, r>> \in Owners
    BY <1>3 DEF Owners, Invocations
  <2>2. QED
    BY <1>3, <2>1 DEF StartExec
<1>4. CASE p \in Ticks /\ ListDue(p)
  BY <1>4 DEF ListDue
<1>5. ASSUME p \in Ticks, NEW j \in Jobs, Dispatch(p, j) PROVE TypeOK'
  BY <1>5 DEF Dispatch, Executions, JobProcs
<1>6. CASE p \in Ticks /\ StopDispatch(p)
  BY <1>6 DEF StopDispatch
<1>7. CASE p \in JobProcs /\ Finish(p)
  BY <1>7 DEF Finish
<1>8. ASSUME p \in Execs, NEW r \in Repos, FinishExec(p, r) PROVE TypeOK'
  BY <1>8 DEF FinishExec
<1>9. CASE Crash(p)
  BY <1>9 DEF Crash
<1> QED
  BY <1>1, <1>2, <1>3, <1>4, <1>5, <1>6, <1>7, <1>8, <1>9 DEF Start, Proceed

(* So does starting restic, which reads the job's list of repositories.    *)
LEMMA TypeStartRestic ==
  ASSUME TypeOK, NEW e \in Executions, StartRestic(e)
  PROVE  TypeOK'
<1> DEFINE j == JobOf(e)
           r == RepoList[j][attempted[e] + 1]
<1>1. attempted[e] \in Nat /\ attempted[e] < Len(RepoList[j])
  BY DEF StartRestic, TypeOK
<1>2. r \in Repos
  BY <1>1, ExecutionParts, RepositoryParts
<1>3. <<e, r>> \in Owners \X Repos
  BY <1>2, ExecutionParts
<1>4. restic' \subseteq Owners \X Repos
  BY <1>3 DEF StartRestic, TypeOK
<1>5. attempted' \in [Executions -> Nat]
  <2>1. attempted \in [Executions -> Nat] /\ attempted[e] + 1 \in Nat
    BY <1>1 DEF TypeOK
  <2>2. attempted' = [attempted EXCEPT ![e] = attempted[e] + 1]
    BY DEF StartRestic
  <2> QED
    BY <2>1, <2>2
<1>6. progress' \in [Jobs -> Executions \cup {None}]
  BY ExecutionParts DEF StartRestic, TypeOK
<1> QED
  BY <1>4, <1>5, <1>6 DEF StartRestic, TypeOK, procVars, lockVars

(* So does every step of an execution.                                     *)
LEMMA TypeStep ==
  ASSUME TypeOK, NEW e \in Executions, Step(e) \/ LockError(e)
  PROVE  TypeOK'
<1>11. CASE StartRestic(e)
  BY <1>11, TypeStartRestic
<1> USE ExecutionParts DEF TypeOK, procVars, lockVars, fileVars, Stages, Goto
<1>1. CASE AcquireJob(e)
  BY <1>1 DEF AcquireJob
<1>2. CASE AlreadyRunning(e)
  BY <1>2 DEF AlreadyRunning
<1>3. CASE ClearLeftovers(e)
  BY <1>3 DEF ClearLeftovers
<1>4. CASE ConfirmDue(e)
  BY <1>4 DEF ConfirmDue
<1>5. CASE NotDue(e)
  BY <1>5 DEF NotDue
<1>6. ASSUME NEW r \in Repos, WaitRepository(e, r) PROVE TypeOK'
  BY <1>6 DEF WaitRepository
<1>7. CASE AllRepositories(e)
  BY <1>7 DEF AllRepositories
<1>8. ASSUME NEW s \in SlotFiles, WaitSlot(e, s) PROVE TypeOK'
  BY <1>8 DEF WaitSlot
<1>9. CASE Abandon(e)
  BY <1>9 DEF Abandon
<1>10. CASE Begin(e)
  BY <1>10 DEF Begin
<1>12. CASE RecordRun(e)
  <2>1. /\ pc' = [pc EXCEPT ![e] = "recorded"]
        /\ \/ /\ lastRun' = [lastRun EXCEPT ![JobOf(e)] = now]
              /\ marker' = [marker EXCEPT ![JobOf(e)] = None]
           \/ UNCHANGED <<lastRun, marker>>
        /\ UNCHANGED <<now, procVars, lockVars, attempted, restic, progress>>
    BY <1>12 DEF RecordRun
  <2>2. pc' \in [Executions -> Stages]
    BY <2>1
  <2>3. lastRun' \in [Jobs -> Instants \cup {Never}]
    <3>1. lastRun' = lastRun \/ lastRun' = [lastRun EXCEPT ![JobOf(e)] = now]
      BY <2>1
    <3> QED
      BY <3>1
  <2>4. marker' \in [Jobs -> Executions \cup {None}]
    <3>1. marker' = marker \/ marker' = [marker EXCEPT ![JobOf(e)] = None]
      BY <2>1
    <3> QED
      BY <3>1
  <2> QED
    BY <2>1, <2>2, <2>3, <2>4
<1>13. CASE RemoveProgress(e)
  BY <1>13 DEF RemoveProgress
<1>14. ASSUME NEW s \in SlotFiles, UnlockSlot(e, s) PROVE TypeOK'
  BY <1>14 DEF UnlockSlot
<1>15. ASSUME NEW r \in Repos, UnlockRepository(e, r) PROVE TypeOK'
  BY <1>15 DEF UnlockRepository
<1>16. CASE Return(e)
  BY <1>16 DEF Return
<1>17. CASE LockError(e)
  BY <1>17 DEF LockError
<1> QED
  BY StepCases, <1>1, <1>2, <1>3, <1>4, <1>5, <1>6, <1>7, <1>8, <1>9, <1>10,
     <1>11, <1>12, <1>13, <1>14, <1>15, <1>16, <1>17

(* So do the clock, signals and restic's exits.                            *)
LEMMA TypeEnvironment ==
  ASSUME TypeOK,
         \/ AdvanceClock
         \/ \E p \in JobProcs : Interrupt(p)
         \/ \E o \in Owners, r \in Repos : ResticExit(o, r)
         \/ Terminated
         \/ UNCHANGED vars
  PROVE  TypeOK'
  BY DEF TypeOK, vars, procVars, lockVars, fileVars, AdvanceClock, Interrupt,
         ResticExit, Terminated

(* Type correctness. *)
THEOREM TypeCorrect == Spec => []TypeOK
<1>1. TypeOK /\ [Next]_vars => TypeOK'
  BY TypeProcess, TypeStep, TypeEnvironment DEF Next
<1> QED
  BY TypeInit, <1>1, PTL DEF Spec

-----------------------------------------------------------------------------
(* The lock protocol.                                                      *)

(* What every step of execution e leaves alone: the stages and the locks   *)
(* of all other executions, and who is dispatching what.                   *)
Local(e) ==
  /\ proc' = proc /\ due' = due
  /\ pc[e] \notin {"idle", "done", "dead"}
  /\ \A f \in Executions \ {e} : pc'[f] = pc[f]
  /\ \A o \in Owners \ {e} :
        /\ \A j \in Jobs : jobLock[j] = o <=> jobLock'[j] = o
        /\ \A r \in Repos : repoLock[r] = o <=> repoLock'[r] = o
        /\ \A s \in SlotFiles : slotLock[s] = o <=> slotLock'[s] = o
  /\ \A c \in restic' : c \in restic \/ c[1] = e

(* Every step of an execution is local to it.                              *)
LEMMA StepLocal ==
  ASSUME TypeOK, NEW e \in Executions, Step(e) \/ LockError(e)
  PROVE  Local(e)
<1> USE ExecutionParts DEF TypeOK, procVars, lockVars, fileVars, Goto, Local
<1>0. None \notin Owners
  BY ConstantsAssumption
<1>1. CASE AcquireJob(e)
  BY <1>0, <1>1 DEF AcquireJob
<1>2. CASE AlreadyRunning(e)
  BY <1>2 DEF AlreadyRunning
<1>3. CASE ClearLeftovers(e)
  BY <1>3 DEF ClearLeftovers
<1>4. CASE ConfirmDue(e)
  BY <1>4 DEF ConfirmDue
<1>5. CASE NotDue(e)
  BY <1>5 DEF NotDue
<1>6. ASSUME NEW r \in Repos, WaitRepository(e, r) PROVE Local(e)
  BY <1>0, <1>6 DEF WaitRepository
<1>7. CASE AllRepositories(e)
  BY <1>7 DEF AllRepositories
<1>8. ASSUME NEW s \in SlotFiles, WaitSlot(e, s) PROVE Local(e)
  BY <1>0, <1>8 DEF WaitSlot
<1>9. CASE Abandon(e)
  BY <1>9 DEF Abandon
<1>10. CASE Begin(e)
  BY <1>10 DEF Begin
<1>11. CASE StartRestic(e)
  BY <1>11 DEF StartRestic
<1>12. CASE RecordRun(e)
  BY <1>12 DEF RecordRun
<1>13. CASE RemoveProgress(e)
  BY <1>13 DEF RemoveProgress
<1>14. ASSUME NEW s \in SlotFiles, UnlockSlot(e, s) PROVE Local(e)
  BY <1>0, <1>14 DEF UnlockSlot
<1>15. ASSUME NEW r \in Repos, UnlockRepository(e, r) PROVE Local(e)
  BY <1>0, <1>15 DEF UnlockRepository
<1>16. CASE Return(e)
  BY <1>0, <1>16 DEF Return
<1>17. CASE LockError(e)
  BY <1>17 DEF LockError
<1> QED
  BY StepCases, <1>1, <1>2, <1>3, <1>4, <1>5, <1>6, <1>7, <1>8, <1>9, <1>10,
     <1>11, <1>12, <1>13, <1>14, <1>15, <1>16, <1>17

(* So a step of e can only disturb what the invariant says of e itself.    *)
LEMMA OthersKept ==
  ASSUME TypeOK, LockInv, NEW e \in Executions, Local(e)
  PROVE  /\ \A f \in Executions \ {e} : ExecutionInv(f)'
         /\ \A p \in Ticks : DueNotStarted(p)'
         /\ \A c \in restic' : c[1] # e => ResticLocked(c)'
<1>1. ASSUME NEW f \in Executions, f # e PROVE ExecutionInv(f)'
  <2>1. /\ ExecutionInv(f) /\ pc'[f] = pc[f] /\ proc' = proc
        /\ f \in Owners /\ JobOf(f) \in Jobs
        /\ RepositoryNames(JobOf(f)) \subseteq Repos
    BY <1>1, ExecutionParts, RepositoryParts DEF LockInv, Local
  <2>2. /\ \A j \in Jobs : jobLock[j] = f <=> jobLock'[j] = f
        /\ \A r \in Repos : repoLock[r] = f <=> repoLock'[r] = f
        /\ \A s \in SlotFiles : slotLock[s] = f <=> slotLock'[s] = f
    BY <1>1, <2>1 DEF Local
  <2>3. JobLocked(f)'
    BY <2>1, <2>2 DEF ExecutionInv, JobLocked, Queued, Running
  <2>4. RepositoriesLocked(f)'
    BY <2>1, <2>2 DEF ExecutionInv, RepositoriesLocked
  <2>5. LockedInOrder(f)'
    BY <2>1, <2>2 DEF ExecutionInv, LockedInOrder
  <2>6. SlotLocked(f)'
    BY <2>1, <2>2 DEF ExecutionInv, SlotLocked
  <2>7. SlotLast(f)'
    BY <2>1, <2>2 DEF ExecutionInv, SlotLast
  <2>8. UnderWay(f)'
    BY <2>1 DEF ExecutionInv, UnderWay
  <2> QED
    BY <2>3, <2>4, <2>5, <2>6, <2>7, <2>8 DEF ExecutionInv
<1>2. ASSUME NEW p \in Ticks PROVE DueNotStarted(p)'
  <2>1. \A j \in due[p] : <<p, j>> \in Executions
    BY DEF TypeOK, Executions, JobProcs
  <2> QED
    BY <2>1 DEF LockInv, DueNotStarted, Local
<1>3. ASSUME NEW c \in restic', c[1] # e PROVE ResticLocked(c)'
  <2>1. c \in restic /\ c[1] \in Owners /\ c[2] \in Repos
    BY <1>3 DEF Local, TypeOK
  <2>2. ResticLocked(c)
    BY <2>1 DEF LockInv
  <2> QED
    BY <1>3, <2>1, <2>2 DEF ResticLocked, Alive, Local
<1> QED
  BY <1>1, <1>2, <1>3

(* And what a step of e makes of e itself.  Once it runs it has everything, *)
(* and a restic process of its own only starts while it runs.              *)
LEMMA StepKeepsLocks ==
  ASSUME TypeOK, LockInv, NEW e \in Executions, Step(e) \/ LockError(e)
  PROVE  /\ ExecutionInv(e)'
         /\ \A c \in restic' : c[1] = e => ResticLocked(c)'
<1>a. /\ proc' = proc
      /\ proc[ProcOf(e)] = "dispatching"
      /\ pc[e] \notin {"idle", "done", "dead"}
  BY StepLocal DEF Local, LockInv, ExecutionInv, UnderWay
<1>b. /\ e \in Owners /\ e # None /\ JobOf(e) \in Jobs
      /\ RepositoryNames(JobOf(e)) \subseteq Repos
      /\ Repos \subseteq Nat
      /\ Running(e) => \A r \in RepositoryNames(JobOf(e)) : repoLock[r] = e
  BY ExecutionParts, RepositoryParts, ConstantsAssumption
     DEF LockInv, ExecutionInv, RepositoriesLocked, Running
<1>c. \A c \in restic : c[1] = e => repoLock[c[2]] = e /\ pc[e] = "running"
  BY <1>a DEF LockInv, ResticLocked, Alive
<1>d. UnderWay(e)'
  BY <1>a DEF UnderWay
<1>e. ExecutionInv(e)
  BY DEF LockInv
<1> DEFINE Kept == /\ ExecutionInv(e)'
                   /\ \A c \in restic' : c[1] = e => ResticLocked(c)'
<1> USE DEF TypeOK, procVars, lockVars, fileVars, Goto, ExecutionInv, JobLocked, RepositoriesLocked,
        LockedInOrder, SlotLocked, SlotLast, ResticLocked, Alive, Queued, Running
<1>1. CASE AcquireJob(e)
  BY <1>a, <1>b, <1>c, <1>d, <1>e, <1>1 DEF AcquireJob
<1>2. CASE AlreadyRunning(e)
  BY <1>a, <1>b, <1>c, <1>d, <1>e, <1>2 DEF AlreadyRunning
<1>3. CASE ClearLeftovers(e)
  BY <1>a, <1>b, <1>c, <1>d, <1>e, <1>3 DEF ClearLeftovers
<1>4. CASE ConfirmDue(e)
  BY <1>a, <1>b, <1>c, <1>d, <1>e, <1>4 DEF ConfirmDue
<1>5. CASE NotDue(e)
  BY <1>a, <1>b, <1>c, <1>d, <1>e, <1>5 DEF NotDue
<1>6. ASSUME NEW r \in Repos, WaitRepository(e, r) PROVE Kept
  <2>1. \A s \in RepositoryNames(JobOf(e)) : s < r => repoLock[s] = e
    BY <1>6, <1>b DEF WaitRepository, IsNextRepo, Missing
  <2>2. /\ repoLock' = [repoLock EXCEPT ![r] = e]
        /\ repoLock[r] = None /\ pc[e] = "repos"
        /\ UNCHANGED <<pc, jobLock, slotLock, restic>>
    BY <1>6 DEF WaitRepository
  <2> QED
    BY <1>a, <1>b, <1>c, <1>d, <1>e, <2>1, <2>2
<1>7. CASE AllRepositories(e)
  BY <1>a, <1>b, <1>c, <1>d, <1>e, <1>7 DEF AllRepositories, Missing
<1>8. ASSUME NEW s \in SlotFiles, WaitSlot(e, s) PROVE Kept
  BY <1>a, <1>b, <1>c, <1>d, <1>e, <1>8 DEF WaitSlot
<1>9. CASE Abandon(e)
  BY <1>a, <1>b, <1>c, <1>d, <1>e, <1>9 DEF Abandon
<1>10. CASE Begin(e)
  BY <1>a, <1>b, <1>c, <1>d, <1>e, <1>10 DEF Begin
<1>11. CASE StartRestic(e)
  <2> DEFINE r == RepoList[JobOf(e)][attempted[e] + 1]
  <2>1. r \in RepositoryNames(JobOf(e))
    BY <1>11, <1>b, RepositoryParts DEF StartRestic, RepositoryNames
  <2>2. /\ restic' = restic \cup {<<e, r>>}
        /\ pc[e] = "running"
        /\ UNCHANGED <<pc, jobLock, repoLock, slotLock>>
    BY <1>11 DEF StartRestic
  <2> QED
    BY <1>a, <1>b, <1>c, <1>d, <1>e, <2>1, <2>2
<1>12. CASE RecordRun(e)
  <2>1. /\ \A c \in restic : c[1] # e
        /\ pc' = [pc EXCEPT ![e] = "recorded"] /\ pc[e] = "running"
        /\ UNCHANGED <<jobLock, repoLock, slotLock, restic>>
    BY <1>12 DEF RecordRun
  <2> QED
    BY <1>a, <1>b, <1>c, <1>d, <1>e, <2>1
<1>13. CASE RemoveProgress(e)
  BY <1>a, <1>b, <1>c, <1>d, <1>e, <1>13 DEF RemoveProgress
<1>14. ASSUME NEW s \in SlotFiles, UnlockSlot(e, s) PROVE Kept
  BY <1>a, <1>b, <1>c, <1>d, <1>e, <1>14 DEF UnlockSlot
<1>15. ASSUME NEW r \in Repos, UnlockRepository(e, r) PROVE Kept
  BY <1>a, <1>b, <1>c, <1>d, <1>e, <1>15 DEF UnlockRepository
<1>16. CASE Return(e)
  BY <1>a, <1>b, <1>c, <1>d, <1>e, <1>16 DEF Return
<1>17. CASE LockError(e)
  BY <1>a, <1>b, <1>c, <1>d, <1>e, <1>17 DEF LockError
<1> QED
  BY StepCases, <1>1, <1>2, <1>3, <1>4, <1>5, <1>6, <1>7, <1>8, <1>9, <1>10,
     <1>11, <1>12, <1>13, <1>14, <1>15, <1>16, <1>17

(* At the start nobody holds or runs anything.                             *)
LEMMA LockInit == Init => LockInv
<1> SUFFICES ASSUME Init PROVE LockInv
  OBVIOUS
<1>1. \A e \in Executions : ProcOf(e) \in Procs /\ JobOf(e) \in Jobs /\ e # None
  BY ExecutionParts
<1>2. \A e \in Executions : pc[e] = "idle"
  BY DEF Init
<1>3. \A e \in Executions : ExecutionInv(e)
  BY <1>1, <1>2 DEF Init, ExecutionInv, JobLocked, RepositoriesLocked, LockedInOrder,
     SlotLocked, SlotLast, UnderWay, Queued, Running
<1> QED
  BY <1>3 DEF Init, LockInv, DueNotStarted

(* Processes coming, going and being killed keep it: a process only starts *)
(* executions it does not have under way, and a killed one loses its locks *)
(* and stops vouching for its restic processes.                            *)
LEMMA ProcessKeepsLocks ==
  ASSUME TypeOK, LockInv, NEW p \in Procs, Start(p) \/ Proceed(p) \/ Crash(p)
  PROVE  LockInv'
<1>a. \A e \in Executions : /\ e \in Owners /\ e # None
                            /\ ProcOf(e) \in JobProcs /\ ProcOf(e) \in Procs
                            /\ JobOf(e) \in Jobs
                            /\ e = <<ProcOf(e), JobOf(e)>>
  BY ExecutionParts
<1>b. \A e \in Executions : ExecutionInv(e)
  BY DEF LockInv
<1>c. /\ \A q \in Ticks : DueNotStarted(q)
      /\ \A c \in restic : ResticLocked(c)
  BY DEF LockInv
<1>d. /\ \A q \in Ticks, j \in Jobs : <<q, j>> \in Executions /\ ProcOf(<<q, j>>) = q
      /\ \A q \in Runs, j \in Jobs : <<q, j>> \in Executions /\ ProcOf(<<q, j>>) = q
  BY DEF Executions, JobProcs, ProcOf
<1>e. \A c \in restic : c[1] \in Owners /\ c[2] \in Repos
  BY DEF TypeOK
<1>f. /\ Ticks \cap Runs = {} /\ Ticks \cap Execs = {} /\ Runs \cap Execs = {}
      /\ None \notin Owners
  BY ConstantsAssumption
<1>g. \A o \in Owners : ProcOf(o) \in Procs
  BY DEF Owners, Executions, Invocations, Procs, JobProcs, ProcOf
<1> USE DEF TypeOK, procVars, lockVars, fileVars, ExecutionInv, JobLocked, RepositoriesLocked,
        LockedInOrder, SlotLocked, SlotLast, UnderWay, Queued, Running, DueNotStarted,
        ResticLocked, Alive, LockInv
<1>1. ASSUME p \in Ticks, StartTick(p) PROVE LockInv'
  BY <1>1, <1>a, <1>b, <1>c, <1>e, <1>g DEF StartTick
<1>2. ASSUME p \in Runs, NEW j \in Jobs, StartRun(p, j) PROVE LockInv'
  <2>1. /\ proc[p] = "idle"
        /\ proc' = [proc EXCEPT ![p] = "dispatching"]
        /\ pc' = [pc EXCEPT ![<<p, j>>] = "acquire"]
        /\ UNCHANGED <<due, jobLock, repoLock, slotLock, restic>>
    BY <1>2 DEF StartRun
  <2>2. pc[<<p, j>>] \in {"idle", "done", "dead"}
    BY <1>2, <1>b, <1>d, <2>1
  <2>3. \A e \in Executions : ExecutionInv(e)'
    BY <1>a, <1>b, <2>1, <2>2
  <2>4. \A q \in Ticks : DueNotStarted(q)'
    <3> SUFFICES ASSUME NEW q \in Ticks, NEW k \in due'[q]
                 PROVE  pc'[<<q, k>>] \in {"idle", "done", "dead"}
      OBVIOUS
    <3>1. k \in due[q] /\ k \in Jobs /\ <<q, k>> # <<p, j>>
      BY <1>2, <1>f, <2>1
    <3> QED
      BY <1>c, <1>d, <2>1, <3>1
  <2>5. \A c \in restic' : ResticLocked(c)'
    <3> SUFFICES ASSUME NEW c \in restic, Alive(c[1])'
                 PROVE  ResticLocked(c)'
      BY <2>1
    <3>1. Alive(c[1]) /\ ResticLocked(c) /\ c[1] \in Owners
      BY <1>c, <1>e, <1>g, <2>1
    <3>2. c[1] # <<p, j>>
      BY <1>2, <1>d, <2>2, <3>1
    <3> QED
      BY <2>1, <3>1, <3>2
  <2> QED
    BY <2>3, <2>4, <2>5
<1>3. ASSUME p \in Execs, NEW r \in Repos, StartExec(p, r) PROVE LockInv'
  <2>1. /\ proc[p] = "idle"
        /\ proc' \in {[proc EXCEPT ![p] = "passing"], [proc EXCEPT ![p] = "done"]}
        /\ \/ /\ repoLock[r] = None
              /\ repoLock' = [repoLock EXCEPT ![r] = <<p, r>>]
              /\ restic' = restic \cup {<<<<p, r>>, r>>}
           \/ UNCHANGED <<repoLock, restic>>
        /\ UNCHANGED <<due, pc, jobLock, slotLock>>
    BY <1>3 DEF StartExec
  <2>2. <<p, r>> \in Owners \ Executions
    BY <1>3, <1>f DEF Owners, Invocations, Executions, JobProcs
  <2>3. \A e \in Executions : ProcOf(e) # p
    BY <1>3, <1>a, <1>f DEF JobProcs
  <2>4. \A e \in Executions : \A q \in Repos : repoLock[q] = e <=> repoLock'[q] = e
    <3> SUFFICES ASSUME NEW e \in Executions, NEW q \in Repos
                 PROVE  repoLock[q] = e <=> repoLock'[q] = e
      OBVIOUS
    <3>1. e # None /\ e # <<p, r>>
      <4>1. ASSUME e = <<p, r>> PROVE FALSE
        BY <2>3, <4>1 DEF ProcOf
      <4> QED
        BY <1>a, <4>1
    <3>2. CASE q = r
      BY <2>1, <3>1, <3>2
    <3>3. CASE q # r
      BY <2>1, <3>3
    <3> QED
      BY <3>2, <3>3
  <2>5. \A e \in Executions : ExecutionInv(e)'
    BY <1>a, <1>b, <2>1, <2>3, <2>4, RepositoryParts
  <2>6. ASSUME NEW c \in restic PROVE ResticLocked(c)'
    <3>1. /\ c[1] \in Owners /\ c[2] \in Repos /\ ResticLocked(c)
          /\ ProcOf(c[1]) \in Procs /\ c[1] # None
      BY <1>c, <1>e, <1>f, <1>g
    <3>2. Alive(c[1])' => Alive(c[1])
      BY <2>1, <3>1
    <3>3. Alive(c[1]) => repoLock'[c[2]] = repoLock[c[2]]
      BY <2>1, <3>1
    <3> QED
      BY <2>1, <3>1, <3>2, <3>3
  <2>7. ASSUME NEW c \in restic', c \notin restic PROVE ResticLocked(c)'
    BY <2>1, <2>2, <2>7
  <2> QED
    BY <1>c, <2>1, <2>5, <2>6, <2>7
<1>4. ASSUME p \in Ticks, ListDue(p) PROVE LockInv'
  <2>1. /\ proc[p] = "listing"
        /\ proc' = [proc EXCEPT ![p] = "dispatching"]
        /\ UNCHANGED <<pc, jobLock, repoLock, slotLock, restic>>
        /\ \A q \in Ticks \ {p} : due'[q] = due[q]
        /\ due'[p] \subseteq Jobs
    BY <1>4 DEF ListDue
  <2>2. \A j \in Jobs : pc[<<p, j>>] \in {"idle", "done", "dead"}
    BY <1>4, <1>b, <1>d, <2>1
  <2>3. \A e \in Executions : ExecutionInv(e)'
    BY <1>a, <1>b, <2>1
  <2>4. \A q \in Ticks : DueNotStarted(q)'
    <3> SUFFICES ASSUME NEW q \in Ticks, NEW k \in due'[q]
                 PROVE  pc[<<q, k>>] \in {"idle", "done", "dead"}
      BY <2>1
    <3> QED
      BY <1>c, <2>1, <2>2
  <2> QED
    BY <1>c, <1>e, <1>g, <2>1, <2>3, <2>4
<1>5. ASSUME p \in Ticks, NEW j \in Jobs, Dispatch(p, j) PROVE LockInv'
  <2>1. /\ proc[p] = "dispatching"
        /\ j \in due[p]
        /\ due' = [due EXCEPT ![p] = due[p] \ {j}]
        /\ pc' = [pc EXCEPT ![<<p, j>>] = "acquire"]
        /\ UNCHANGED <<proc, jobLock, repoLock, slotLock, restic>>
    BY <1>5 DEF Dispatch
  <2>2. pc[<<p, j>>] \in {"idle", "done", "dead"}
    BY <1>5, <1>c, <2>1
  <2>3. ASSUME NEW e \in Executions PROVE ExecutionInv(e)'
    <3>1. CASE e = <<p, j>>
      <4>1. pc'[e] = "acquire" /\ ProcOf(e) = p
        BY <1>5, <1>d, <2>1, <3>1
      <4>2. pc[e] \in {"idle", "done", "dead"} /\ ExecutionInv(e)
        BY <1>b, <2>2, <3>1
      <4> HIDE DEF LockInv, TypeOK
      <4> QED
        BY <2>1, <4>1, <4>2
    <3>2. CASE e # <<p, j>>
      <4>1. pc'[e] = pc[e]
        BY <2>1, <3>2
      <4>2. ExecutionInv(e)
        BY <1>b
      <4> HIDE DEF LockInv, TypeOK
      <4> QED
        BY <2>1, <4>1, <4>2
    <3> QED
      BY <3>1, <3>2
  <2>4. \A q \in Ticks : DueNotStarted(q)'
    <3> SUFFICES ASSUME NEW q \in Ticks, NEW k \in due'[q]
                 PROVE  pc'[<<q, k>>] \in {"idle", "done", "dead"}
      OBVIOUS
    <3>1. k \in due[q] /\ k \in Jobs /\ <<q, k>> # <<p, j>>
      BY <2>1
    <3>2. <<q, k>> \in Executions /\ pc[<<q, k>>] \in {"idle", "done", "dead"}
      BY <1>c, <1>d, <3>1
    <3>3. pc'[<<q, k>>] = pc[<<q, k>>]
      <4> DEFINE f == <<q, k>>
      <4>1. f \in Executions /\ f # <<p, j>>
        BY <3>1, <3>2
      <4> HIDE DEF f
      <4>2. pc'[f] = pc[f]
        BY <2>1, <4>1
      <4> QED
        BY <4>2 DEF f
    <3> QED
      BY <3>2, <3>3
  <2>5. ASSUME NEW c \in restic PROVE ResticLocked(c)'
    <3>1. ResticLocked(c) /\ ProcOf(c[1]) \in Procs
      BY <1>c, <1>e, <1>g
    <3>2. ASSUME NEW f \in Executions, pc[f] = "running" PROVE pc'[f] = "running"
      <4>1. f # <<p, j>>
        BY <2>2, <3>2
      <4> QED
        BY <2>1, <3>2, <4>1
    <3> HIDE DEF LockInv, TypeOK
    <3> QED
      BY <2>1, <3>1, <3>2
  <2> QED
    BY <2>1, <2>3, <2>4, <2>5
<1>6. ASSUME p \in Ticks, StopDispatch(p) PROVE LockInv'
  BY <1>6, <1>a, <1>b, <1>c, <1>e, <1>g DEF StopDispatch
<1>7. ASSUME p \in JobProcs, Finish(p) PROVE LockInv'
  <2>1. /\ proc[p] = "dispatching"
        /\ \A e \in Executions : ProcOf(e) = p => pc[e] \in {"idle", "done"}
        /\ proc' = [proc EXCEPT ![p] = "done"]
        /\ UNCHANGED <<due, pc, jobLock, repoLock, slotLock, restic>>
    BY <1>7 DEF Finish, Dispatched
  <2> QED
    BY <1>a, <1>b, <1>c, <1>e, <1>g, <2>1
<1>8. ASSUME p \in Execs, NEW r \in Repos, FinishExec(p, r) PROVE LockInv'
  <2>1. /\ repoLock[r] = <<p, r>> /\ <<<<p, r>>, r>> \notin restic
        /\ repoLock' = [repoLock EXCEPT ![r] = None]
        /\ proc[p] = "passing"
        /\ proc' = [proc EXCEPT ![p] = "done"]
        /\ UNCHANGED <<due, pc, jobLock, slotLock, restic>>
    BY <1>8 DEF FinishExec
  <2>2. <<p, r>> \notin Executions
    BY <1>8, <1>f DEF Executions, JobProcs
  <2>3. \A e \in Executions : ProcOf(e) # p
    BY <1>8, <1>a, <1>f DEF JobProcs
  <2>4. \A e \in Executions : \A q \in Repos : repoLock[q] = e <=> repoLock'[q] = e
    <3>1. \A e \in Executions : e # None
      BY <1>a, Zenon
    <3>2. \A e \in Executions : e # <<p, r>>
      <4>1. ASSUME NEW e \in Executions, e = <<p, r>> PROVE FALSE
        BY <2>3, <4>1 DEF ProcOf
      <4> QED
        BY <4>1
    <3>3. \A q \in Repos : q # r => repoLock'[q] = repoLock[q]
      BY <2>1 DEF TypeOK
    <3>4. repoLock'[r] = None
      BY <1>8, <2>1 DEF TypeOK
    <3> QED
      BY <2>1, <3>1, <3>2, <3>3, <3>4
  <2>5. \A e \in Executions : ExecutionInv(e)'
    BY <1>a, <1>b, <2>1, <2>3, <2>4, RepositoryParts
  <2>6. ASSUME NEW c \in restic PROVE ResticLocked(c)'
    <3>1. /\ c[1] \in Owners /\ c[2] \in Repos /\ c = <<c[1], c[2]>>
          /\ ResticLocked(c) /\ ProcOf(c[1]) \in Procs
      BY <1>c, <1>e, <1>g
    <3>2. Alive(c[1])' => Alive(c[1])
      BY <2>1, <3>1
    <3>3. ~(c[2] = r /\ c[1] = <<p, r>>)
      BY <2>1, <3>1
    <3>4. Alive(c[1]) => repoLock'[c[2]] = repoLock[c[2]]
      BY <2>1, <3>1, <3>3
    <3> QED
      BY <2>1, <3>1, <3>2, <3>4
  <2> QED
    BY <1>c, <2>1, <2>5, <2>6
<1>9. ASSUME Crash(p) PROVE LockInv'
  <2>1. /\ proc' = [proc EXCEPT ![p] = "dead"]
        /\ pc' = [e \in Executions |->
                    IF ProcOf(e) = p /\ pc[e] \notin {"idle", "done"} THEN "dead" ELSE pc[e]]
        /\ \A j \in Jobs : jobLock'[j] = IF OwnedBy(jobLock[j], p) THEN None ELSE jobLock[j]
        /\ \A r \in Repos : repoLock'[r] = IF OwnedBy(repoLock[r], p) THEN None ELSE repoLock[r]
        /\ \A s \in SlotFiles : slotLock'[s] = IF OwnedBy(slotLock[s], p) THEN None ELSE slotLock[s]
        /\ UNCHANGED <<due, restic>>
    BY <1>9 DEF Crash
  <2>2. ASSUME NEW e \in Executions PROVE ExecutionInv(e)'
    <3>1. CASE ProcOf(e) = p
      <4>1. pc'[e] \in {"idle", "done", "dead"}
        BY <2>1, <3>1
      <4>2. /\ \A r \in Repos : repoLock'[r] # e
            /\ \A s \in SlotFiles : slotLock'[s] # e
        BY <1>a, <2>1, <3>1 DEF OwnedBy
      <4> HIDE DEF LockInv, TypeOK
      <4> QED
        BY <4>1, <4>2
    <3>2. CASE ProcOf(e) # p
      <4>1. pc'[e] = pc[e] /\ proc'[ProcOf(e)] = proc[ProcOf(e)]
        BY <1>a, <2>1, <3>2
      <4>2. /\ \A j \in Jobs : jobLock[j] = e <=> jobLock'[j] = e
            /\ \A r \in Repos : repoLock[r] = e <=> repoLock'[r] = e
            /\ \A s \in SlotFiles : slotLock[s] = e <=> slotLock'[s] = e
        BY <1>a, <2>1, <3>2 DEF OwnedBy
      <4> QED
        BY <1>a, <1>b, <4>1, <4>2, RepositoryParts
    <3> QED
      BY <3>1, <3>2
  <2>3. \A q \in Ticks : DueNotStarted(q)'
    <3>1. ASSUME NEW q \in Ticks, NEW j \in due[q]
          PROVE  pc'[<<q, j>>] \in {"idle", "done", "dead"}
      <4>1. /\ <<q, j>> \in Executions
            /\ pc[<<q, j>>] \in {"idle", "done", "dead"}
        BY <1>c, <1>d, <3>1
      <4> QED
        BY <2>1, <4>1
    <3> QED
      BY <2>1, <3>1 DEF DueNotStarted
  <2>4. \A c \in restic' : ResticLocked(c)'
    BY <1>c, <1>e, <1>f, <1>g, <2>1 DEF OwnedBy
  <2> QED
    BY <2>2, <2>3, <2>4
<1> QED
  BY <1>1, <1>2, <1>3, <1>4, <1>5, <1>6, <1>7, <1>8, <1>9 DEF Start, Proceed

(* The clock, signals and restic's exits touch no lock.                    *)
LEMMA EnvironmentKeepsLocks ==
  ASSUME TypeOK, LockInv,
         \/ AdvanceClock
         \/ \E p \in JobProcs : Interrupt(p)
         \/ \E o \in Owners, r \in Repos : ResticExit(o, r)
         \/ Terminated
         \/ UNCHANGED vars
  PROVE  LockInv'
<1>1. /\ UNCHANGED <<proc, due, pc, jobLock, repoLock, slotLock>>
      /\ restic' \subseteq restic
  BY DEF vars, procVars, lockVars, fileVars, AdvanceClock, Interrupt,
         ResticExit, Terminated
<1>2. \A e \in Executions : ExecutionInv(e)'
  BY <1>1 DEF LockInv, ExecutionInv, JobLocked, RepositoriesLocked,
     LockedInOrder, SlotLocked, SlotLast, UnderWay, Queued, Running
<1>3. \A p \in Ticks : DueNotStarted(p)'
  BY <1>1 DEF LockInv, DueNotStarted
<1>4. \A c \in restic' : ResticLocked(c)'
  BY <1>1 DEF LockInv, ResticLocked, Alive
<1> QED
  BY <1>2, <1>3, <1>4 DEF LockInv

(* Which locks are held at each stage is inductive, given the types.       *)
LEMMA LockStep == TypeOK /\ LockInv /\ [Next]_vars => LockInv'
<1> SUFFICES ASSUME TypeOK, LockInv, [Next]_vars PROVE LockInv'
  OBVIOUS
<1>1. ASSUME NEW e \in Executions, Step(e) \/ LockError(e) PROVE LockInv'
  BY <1>1, StepLocal, OthersKept, StepKeepsLocks DEF LockInv
<1> QED
  BY <1>1, ProcessKeepsLocks, EnvironmentKeepsLocks DEF Next

(* Every execution holds the locks its stage needs.                        *)
THEOREM LocksHeld == Spec => []LockInv
  BY TypeInit, TypeCorrect, LockInit, LockStep, PTL DEF Spec

-----------------------------------------------------------------------------
(* What follows from the locks held.                                       *)

(* Two restic processes whose parents live never work on one repository.   *)
THEOREM RepositoryExclusion == Spec => []RepositoryExclusive
<1>1. TypeOK /\ LockInv => RepositoryExclusive
  <2> SUFFICES ASSUME TypeOK, LockInv, NEW c \in restic, NEW d \in restic,
                      c[2] = d[2], Alive(c[1]), Alive(d[1])
               PROVE  c = d
    BY DEF RepositoryExclusive
  <2>1. repoLock[c[2]] = c[1] /\ repoLock[d[2]] = d[1]
    BY DEF LockInv, ResticLocked
  <2>2. c = <<c[1], c[2]>> /\ d = <<d[1], d[2]>>
    BY DEF TypeOK
  <2> QED
    BY <2>1, <2>2
<1> QED
  BY <1>1, TypeCorrect, LocksHeld, PTL

(* No two executions are past the lock of one job.                         *)
THEOREM JobExclusion == Spec => []JobNotTwice
<1>1. LockInv => JobNotTwice
  BY DEF LockInv, ExecutionInv, JobLocked, JobNotTwice
<1> QED
  BY <1>1, LocksHeld, PTL

(* A job runs only with its job lock, all its repositories and a slot.     *)
THEOREM LocksBeforeWork == Spec => []RunsWithEverything
<1>1. LockInv => RunsWithEverything
  BY DEF LockInv, ExecutionInv, JobLocked, RepositoriesLocked, SlotLocked, Running,
     Missing, RunsWithEverything
<1> QED
  BY <1>1, LocksHeld, PTL

(* Along any chain of executions waiting for each other the awaited        *)
(* repository only gets larger.                                            *)
LEMMA WaitsUpward ==
  ASSUME LockInv, NEW f \in Executions, NEW r \in Repos, NEW s \in Repos,
         repoLock[r] = f, pc[f] = "repos", IsNextRepo(f, s)
  PROVE  r < s
<1>1. s \in RepositoryNames(JobOf(f)) /\ repoLock[s] # f
  BY DEF IsNextRepo, Missing
<1>2. ~(s < r)
  BY <1>1 DEF LockInv, ExecutionInv, LockedInOrder
<1>3. r \in Nat /\ s \in Nat /\ r # s
  BY <1>1, ConstantsAssumption
<1> QED
  BY <1>2, <1>3

(* A finite set of numbers has a largest one: the one with the fewest above. *)
LEMMA Largest ==
  ASSUME NEW T, T \subseteq Nat, T # {}, IsFiniteSet(T)
  PROVE  \E m \in T : \A k \in T : k <= m
<1> DEFINE above(k) == {l \in T : l > k}
           sizes == {Cardinality(above(k)) : k \in T}
           less == {ss \in Nat \X Nat : ss[1] < ss[2]}
<1>1. ASSUME NEW k \in T
      PROVE  IsFiniteSet(above(k)) /\ Cardinality(above(k)) \in Nat
  BY FS_Subset, FS_CardinalityType
<1>2. sizes \subseteq Nat /\ sizes # {}
  BY <1>1
<1>3. IsWellFoundedOn(less, Nat)
  BY NatLessThanWellFounded DEF OpToRel
<1>4. PICK n \in sizes : \A l \in sizes : ~(l < n)
  <2> HIDE DEF sizes, less
  <2>1. PICK n \in sizes : \A l \in sizes : <<l, n>> \notin less
    BY <1>2, <1>3, WFMin
  <2> QED
    BY <1>2, <2>1 DEF less
<1>5. PICK m \in T : n = Cardinality(above(m))
  BY <1>4
<1>6. ASSUME NEW k \in T, k > m PROVE FALSE
  <2>1. above(k) \subseteq above(m) /\ above(k) # above(m)
    <3>1. \A l \in above(k) : l \in T /\ l > m
      BY <1>6
    <3>2. k \in above(m) /\ k \notin above(k)
      BY <1>6
    <3> QED
      BY <3>1, <3>2
  <2> HIDE DEF above
  <2>2. /\ Cardinality(above(k)) <= Cardinality(above(m))
        /\ Cardinality(above(k)) # Cardinality(above(m))
    BY <1>1, <2>1, FS_Subset
  <2>3. Cardinality(above(k)) < n
    BY <1>1, <1>5, <2>2
  <2> QED
    BY <1>4, <2>3
<1> QED
  BY <1>6

(* Of any blocked executions, one that waits for a slot waits for one that *)
(* is past waiting, and if all wait for a repository, the one that waits   *)
(* for the largest waits for one that would have to wait for a larger.     *)
THEOREM DeadlockFree == Spec => []NoDeadlock
<1>1. TypeOK /\ LockInv => NoDeadlock
  <2> SUFFICES ASSUME TypeOK, LockInv,
                      NEW S \in SUBSET {e \in Executions : Blocked(e)}, S # {},
                      \A e \in S : WaitsFor(e) \subseteq S
               PROVE  FALSE
    BY DEF NoDeadlock
  <2>1. \A e \in S : e \in Executions /\ Blocked(e) /\ pc[e] \in {"repos", "slot"}
    BY DEF Blocked
  <2>2. ASSUME NEW e \in S, pc[e] = "slot" PROVE FALSE
    <3>1. /\ MaxConcurrent[ProcOf(e)] \in Nat \ {0} /\ ProcOf(e) \in JobProcs
          /\ \A s \in 0 .. MaxConcurrent[ProcOf(e)] - 1 : slotLock[s] # None
      BY <2>1, <2>2, ExecutionParts, ConstantsAssumption DEF Blocked
    <3>2. 0 \in 0 .. MaxConcurrent[ProcOf(e)] - 1
      BY <3>1
    <3>3. 0 \in SlotFiles
      BY <3>1, <3>2 DEF SlotFiles
    <3>4. slotLock[0] # None /\ slotLock[0] \in Executions
      BY <3>1, <3>2, <3>3 DEF TypeOK
    <3>5. slotLock[0] \in S
      BY <2>2, <3>2, <3>4 DEF WaitsFor, Owners
    <3>6. pc[slotLock[0]] \in {"ready", "running", "recorded", "unlock"}
      BY <3>3, <3>4 DEF LockInv, ExecutionInv, SlotLast
    <3> QED
      BY <2>1, <3>5, <3>6
  <2> DEFINE awaited == {r \in Repos : \E e \in S : IsNextRepo(e, r) /\ repoLock[r] # None}
  <2>3. ASSUME NEW e \in S PROVE \E r \in awaited : IsNextRepo(e, r)
    <3>1. PICK r \in Missing(e) : IsNextRepo(e, r) /\ repoLock[r] # None
      BY <2>1, <2>2 DEF Blocked
    <3>2. r \in Repos
      BY <2>1, <3>1, ExecutionParts, RepositoryParts DEF Missing
    <3> QED
      BY <3>1, <3>2
  <2>4. awaited \subseteq Nat /\ IsFiniteSet(awaited) /\ awaited # {}
    BY <2>3, ConstantsAssumption, FS_Subset
  <2>5. PICK m \in awaited : \A k \in awaited : k <= m
    <3> HIDE DEF awaited
    <3> QED
      BY <2>4, Largest
  <2>6. PICK e \in S : IsNextRepo(e, m) /\ repoLock[m] # None
    BY <2>5
  <2>7. repoLock[m] \in S
    BY <2>1, <2>2, <2>6 DEF WaitsFor, TypeOK, IsNextRepo
  <2>8. PICK s \in awaited : IsNextRepo(repoLock[m], s)
    BY <2>3, <2>7
  <2>9. m < s
    BY <2>1, <2>2, <2>7, <2>8, WaitsUpward
  <2> QED
    BY <2>4, <2>5, <2>8, <2>9
<1> QED
  BY <1>1, TypeCorrect, LocksHeld, PTL

(* Each execution past the wait for a slot has a slot file of its own, and *)
(* a cap of n knows only n of them.                                        *)
LEMMA SlotsBound ==
  ASSUME TypeOK, LockInv, NEW p \in JobProcs, NEW S,
         S \subseteq {e \in Executions :
                        /\ pc[e] \in {"ready", "running", "recorded"}
                        /\ MaxConcurrent[ProcOf(e)] <= MaxConcurrent[p]}
  PROVE  Cardinality(S) <= MaxConcurrent[p]
<1> DEFINE n == MaxConcurrent[p]
           slot == [e \in S |-> CHOOSE s \in 0 .. n - 1 : slotLock[s] = e]
<1>1. n \in Nat /\ n > 0
  BY ConstantsAssumption
<1>2. ASSUME NEW e \in S PROVE \E s \in 0 .. n - 1 : slotLock[s] = e
  <2>1. MaxConcurrent[ProcOf(e)] \in Nat /\ MaxConcurrent[ProcOf(e)] <= n
    BY ExecutionParts, ConstantsAssumption
  <2>2. PICK s \in SlotFiles : s < MaxConcurrent[ProcOf(e)] /\ slotLock[s] = e
    BY DEF LockInv, ExecutionInv, SlotLocked
  <2>3. s \in Nat
    BY ConstantsAssumption DEF SlotFiles
  <2> QED
    BY <1>1, <2>1, <2>2, <2>3
<1>3. \A e \in S : slot[e] \in 0 .. n - 1 /\ slotLock[slot[e]] = e
  BY <1>2
<1>4. slot \in Injection(S, 0 .. n - 1)
  BY <1>3 DEF Injection, IsInjective
<1>5. IsFiniteSet(0 .. n - 1) /\ Cardinality(0 .. n - 1) = n
  <2> HIDE DEF n
  <2>1. 0 \in Int /\ n - 1 \in Int /\ ~(0 > n - 1) /\ n - 1 - 0 + 1 = n
    BY <1>1
  <2>2. /\ IsFiniteSet(0 .. n - 1)
        /\ Cardinality(0 .. n - 1) = IF 0 > n - 1 THEN 0 ELSE n - 1 - 0 + 1
    BY <2>1, FS_Interval
  <2> QED
    BY <2>1, <2>2
<1> HIDE DEF slot
<1>6. Cardinality(S) <= Cardinality(0 .. n - 1)
  BY <1>4, <1>5, FS_Injection
<1> QED
  BY <1>5, <1>6

(* At most as many jobs run as the cap allows.                             *)
THEOREM CapHolds == Spec => []ConcurrencyCap
<1>1. TypeOK /\ LockInv => ConcurrencyCap
  <2> SUFFICES ASSUME TypeOK, LockInv, NEW p \in JobProcs
               PROVE  Cardinality({e \in Executions :
                         Running(e) /\ MaxConcurrent[ProcOf(e)] <= MaxConcurrent[p]})
                        <= MaxConcurrent[p]
    BY DEF ConcurrencyCap
  <2> DEFINE S == {e \in Executions :
                      Running(e) /\ MaxConcurrent[ProcOf(e)] <= MaxConcurrent[p]}
  <2>1. S \subseteq {e \in Executions :
                        /\ pc[e] \in {"ready", "running", "recorded"}
                        /\ MaxConcurrent[ProcOf(e)] <= MaxConcurrent[p]}
    BY DEF Running
  <2> HIDE DEF S
  <2>2. Cardinality(S) <= MaxConcurrent[p]
    BY <2>1, SlotsBound
  <2> QED
    BY <2>2 DEF S
<1> QED
  BY <1>1, TypeCorrect, LocksHeld, PTL

-----------------------------------------------------------------------------
(* A tick never runs a job twice for one period.                           *)

(* A tick past its last look at the state keeps the job to itself: nothing *)
(* records a run of it, so it stays due however long the tick waits.       *)
StillLater(e) ==
  LET j == JobOf(e) IN
  /\ ProcOf(e) \in Ticks /\ ~Faulty(e)
  /\ pc[e] \in {"repos", "slot", "ready", "running"}
  /\ lastRun[j] # Never
  => Truncate(lastRun[j], Sched[j]) < Truncate(now, Sched[j])

PeriodInv ==
  /\ \A j \in Jobs : lastRun[j] = Never \/ lastRun[j] <= now
  /\ \A e \in Executions : StillLater(e)

(* One step of execution e: only e's own record changes its job's last run, *)
(* and no other execution of the job is past the job lock then.            *)
LEMMA PeriodExecution ==
  ASSUME TypeOK, LockInv, PeriodInv, NEW e \in Executions, Step(e) \/ LockError(e)
  PROVE  PeriodInv'
<1>1. /\ \A f \in Executions \ {e} : pc'[f] = pc[f]
      /\ e \in Executions /\ JobOf(e) \in Jobs /\ ProcOf(e) \in JobProcs
  BY StepLocal, ExecutionParts DEF Local
<1>2. /\ now \in Nat
      /\ \A j \in Jobs : Sched[j] \in Schedules /\ (lastRun[j] = Never \/ lastRun[j] \in Nat)
  BY ConstantsAssumption DEF TypeOK
<1>3. now' = now
  BY StepCases DEF AcquireJob, AlreadyRunning, ClearLeftovers, ConfirmDue, NotDue,
     WaitRepository, AllRepositories, WaitSlot, Abandon, LockError, Begin, StartRestic,
     RecordRun, RemoveProgress, UnlockSlot, UnlockRepository, Return
<1>4. CASE RecordRun(e)
  <2>1. /\ pc[e] = "running"
        /\ pc' = [pc EXCEPT ![e] = "recorded"]
        /\ lastRun' \in {lastRun, [lastRun EXCEPT ![JobOf(e)] = now]}
    BY <1>4 DEF RecordRun, Goto
  <2>2. \A j \in Jobs : lastRun'[j] = lastRun[j] \/ (lastRun'[j] = now /\ j = JobOf(e))
    BY <2>1 DEF TypeOK
  <2>3. \A j \in Jobs : lastRun'[j] = Never \/ lastRun'[j] <= now'
    BY <1>2, <1>3, <2>2 DEF PeriodInv
  <2>4. ASSUME NEW f \in Executions PROVE StillLater(f)'
    <3>1. CASE f = e
      BY <2>1, <3>1 DEF StillLater, TypeOK
    <3>2. CASE f # e /\ pc[f] \in {"repos", "slot", "ready", "running"}
      <4>1. JobOf(f) # JobOf(e)
        BY <1>1, <2>1, <3>2 DEF LockInv, ExecutionInv, JobLocked, Queued, Running
      <4>2. lastRun'[JobOf(f)] = lastRun[JobOf(f)]
        BY <2>2, <4>1, ExecutionParts
      <4> QED
        BY <1>1, <1>3, <3>2, <4>2 DEF PeriodInv, StillLater, Faulty
    <3>3. CASE f # e /\ pc[f] \notin {"repos", "slot", "ready", "running"}
      BY <1>1, <3>3 DEF StillLater
    <3> QED
      BY <3>1, <3>2, <3>3
  <2> QED
    BY <2>3, <2>4 DEF PeriodInv
<1>5. CASE ~RecordRun(e)
  <2>1. lastRun' = lastRun
    BY <1>5, StepCases DEF AcquireJob, AlreadyRunning, ClearLeftovers, ConfirmDue, NotDue,
       WaitRepository, AllRepositories, WaitSlot, Abandon, LockError, Begin, StartRestic,
       RemoveProgress, UnlockSlot, UnlockRepository, Return, fileVars
  <2>2. ASSUME pc[e] \notin {"repos", "slot", "ready", "running"},
               pc'[e] \in {"repos", "slot", "ready", "running"}
        PROVE  ConfirmDue(e)
    BY <1>5, <2>2, StepCases DEF AcquireJob, AlreadyRunning, ClearLeftovers, ConfirmDue, NotDue,
       WaitRepository, AllRepositories, WaitSlot, Abandon, LockError, Begin, StartRestic,
       RemoveProgress, UnlockSlot, UnlockRepository, Return, Goto, TypeOK
  <2>3. StillLater(e)'
    <3>1. CASE pc[e] \in {"repos", "slot", "ready", "running"}
      BY <1>3, <2>1, <3>1 DEF PeriodInv, StillLater, Faulty
    <3>2. CASE ConfirmDue(e)
      <4> SUFFICES ASSUME ProcOf(e) \in Ticks, ~Faulty(e), lastRun[JobOf(e)] # Never
                   PROVE  Truncate(lastRun[JobOf(e)], Sched[JobOf(e)]) < Truncate(now, Sched[JobOf(e)])
        BY <1>3, <2>1 DEF StillLater, Faulty
      <4>1. Due(Sched[JobOf(e)], lastRun[JobOf(e)], now)
        BY <3>2 DEF ConfirmDue, StillDue
      <4>2. lastRun[JobOf(e)] \in Nat /\ lastRun[JobOf(e)] <= now
        BY <1>1, <1>2 DEF PeriodInv
      <4> QED
        BY <1>1, <1>2, <4>1, <4>2, DueIsLater
    <3>3. CASE pc'[e] \notin {"repos", "slot", "ready", "running"}
      BY <3>3 DEF StillLater
    <3> QED
      BY <2>2, <3>1, <3>2, <3>3
  <2>4. \A f \in Executions \ {e} : StillLater(f)'
    BY <1>1, <1>3, <2>1 DEF PeriodInv, StillLater, Faulty
  <2>5. \A j \in Jobs : lastRun'[j] = Never \/ lastRun'[j] <= now'
    BY <1>3, <2>1 DEF PeriodInv
  <2> QED
    BY <2>3, <2>4, <2>5 DEF PeriodInv
<1> QED
  BY <1>4, <1>5

(* Time passing only takes the current period further from the recorded one. *)
LEMMA PeriodClock ==
  ASSUME TypeOK, PeriodInv, AdvanceClock
  PROVE  PeriodInv'
<1>1. /\ now \in Nat /\ now' \in Nat /\ now < now'
      /\ UNCHANGED <<pc, lastRun>>
  BY ConstantsAssumption DEF TypeOK, AdvanceClock, fileVars
<1>2. \A j \in Jobs : /\ Sched[j] \in Schedules
                      /\ lastRun[j] = Never \/ lastRun[j] \in Nat
  BY ConstantsAssumption DEF TypeOK
<1>3. \A j \in Jobs : lastRun'[j] = Never \/ lastRun'[j] <= now'
  BY <1>1, <1>2 DEF PeriodInv, Never
<1>4. ASSUME NEW e \in Executions PROVE StillLater(e)'
  <2> DEFINE j == JobOf(e)
  <2>1. j \in Jobs /\ Sched[j] \in Schedules
    BY <1>2, ExecutionParts
  <2>2. SUFFICES ASSUME ProcOf(e) \in Ticks, ~Faulty(e), lastRun[j] # Never,
                        pc[e] \in {"repos", "slot", "ready", "running"}
                 PROVE  Truncate(lastRun[j], Sched[j]) < Truncate(now', Sched[j])
    BY <1>1 DEF StillLater, Faulty
  <2>3. Truncate(lastRun[j], Sched[j]) < Truncate(now, Sched[j])
    BY <2>2 DEF PeriodInv, StillLater
  <2>4. Truncate(now, Sched[j]) <= Truncate(now', Sched[j])
    BY <1>1, <2>1, TruncateMonotone
  <2>5. /\ Truncate(lastRun[j], Sched[j]) \in Int /\ Truncate(now, Sched[j]) \in Int
        /\ Truncate(now', Sched[j]) \in Int
    BY <1>1, <1>2, <2>1, <2>2, PeriodAround
  <2> QED
    BY <2>3, <2>4, <2>5
<1> QED
  BY <1>3, <1>4 DEF PeriodInv

(* No process step takes an execution past the check of the state.         *)
LEMMA StageOfProcess ==
  ASSUME TypeOK, NEW p \in Procs, Start(p) \/ Proceed(p) \/ Crash(p)
  PROVE  /\ \A e \in Executions : pc'[e] = pc[e] \/ pc'[e] \in {"acquire", "dead"}
         /\ UNCHANGED <<now, lastRun>>
<1> USE DEF fileVars, TypeOK
<1>1. CASE Start(p)
  BY <1>1 DEF Start, StartTick, StartRun, StartExec
<1>2. CASE Proceed(p)
  BY <1>2 DEF Proceed, ListDue, Dispatch, StopDispatch, Finish, FinishExec
<1>3. CASE Crash(p)
  BY <1>3 DEF Crash
<1> QED
  BY <1>1, <1>2, <1>3

(* At the start no job has a run.                                          *)
LEMMA PeriodInit == Init => PeriodInv
<1> SUFFICES ASSUME Init PROVE PeriodInv
  OBVIOUS
<1>1. /\ \A j \in Jobs : lastRun[j] = Never
      /\ \A e \in Executions : pc[e] = "idle"
  BY DEF Init
<1> QED
  BY <1>1 DEF PeriodInv, StillLater

(* What OncePerPeriod rests on is inductive, given the lock invariant.     *)
LEMMA PeriodStep == TypeOK /\ LockInv /\ PeriodInv /\ [Next]_vars => PeriodInv'
<1> SUFFICES ASSUME TypeOK, LockInv, PeriodInv, [Next]_vars PROVE PeriodInv'
  OBVIOUS
<1>1. ASSUME NEW e \in Executions, Step(e) \/ LockError(e) PROVE PeriodInv'
  BY <1>1, PeriodExecution
<1>2. CASE AdvanceClock
  BY <1>2, PeriodClock
<1>3. ASSUME NEW p \in Procs, Start(p) \/ Proceed(p) \/ Crash(p) PROVE PeriodInv'
  BY <1>3, StageOfProcess DEF PeriodInv, StillLater, Faulty
<1>4. ASSUME \/ \E p \in JobProcs : Interrupt(p)
             \/ \E o \in Owners, r \in Repos : ResticExit(o, r)
             \/ Terminated
             \/ UNCHANGED vars
      PROVE  PeriodInv'
  <2>1. UNCHANGED <<now, pc, lastRun>>
    BY <1>4 DEF Interrupt, ResticExit, Terminated, vars, fileVars
  <2> QED
    BY <2>1 DEF PeriodInv, StillLater, Faulty
<1> QED
  BY <1>1, <1>2, <1>3, <1>4 DEF Next

LEMMA PeriodsKept == Spec => []PeriodInv
  BY TypeCorrect, LocksHeld, PeriodInit, PeriodStep, PTL DEF Spec

(* Each run a tick records is in a later period than the one before it.    *)
THEOREM TickRunsOncePerPeriod == Spec => OncePerPeriod
<1>1. ASSUME TypeOK, LockInv, PeriodInv, [Next]_vars
      PROVE  [\A e \in Executions :
                LET j == JobOf(e) IN
                /\ ProcOf(e) \in Ticks /\ ~Faulty(e)
                /\ pc[e] = "running" /\ pc'[e] = "recorded"
                /\ lastRun[j] # Never
                => Truncate(lastRun[j], Sched[j]) < Truncate(lastRun'[j], Sched[j])]_vars
  <2> SUFFICES ASSUME Next, NEW e \in Executions,
                      ProcOf(e) \in Ticks, ~Faulty(e),
                      pc[e] = "running", pc'[e] = "recorded", lastRun[JobOf(e)] # Never
               PROVE  Truncate(lastRun[JobOf(e)], Sched[JobOf(e)])
                        < Truncate(lastRun'[JobOf(e)], Sched[JobOf(e)])
    BY <1>1
  <2>1. RecordRun(e)
    <3>1. ASSUME NEW p \in Procs, Start(p) \/ Proceed(p) \/ Crash(p) PROVE FALSE
      BY <1>1, <3>1, StageOfProcess
    <3>2. ASSUME NEW f \in Executions, f # e, Step(f) \/ LockError(f) PROVE FALSE
      BY <1>1, <3>2, StepLocal DEF Local
    <3>3. ASSUME Step(e) \/ LockError(e) PROVE RecordRun(e)
      BY <1>1, <3>3, StepCases DEF AcquireJob, AlreadyRunning, ClearLeftovers, ConfirmDue, NotDue,
         WaitRepository, AllRepositories, WaitSlot, Abandon, LockError, Begin, StartRestic,
         RemoveProgress, UnlockSlot, UnlockRepository, Return, Goto, TypeOK
    <3>4. ASSUME \/ AdvanceClock
                 \/ \E p \in JobProcs : Interrupt(p)
                 \/ \E o \in Owners, r \in Repos : ResticExit(o, r)
                 \/ Terminated
          PROVE  FALSE
      BY <3>4 DEF AdvanceClock, Interrupt, ResticExit, Terminated, vars
    <3> QED
      BY <3>1, <3>2, <3>3, <3>4 DEF Next
  <2>2. lastRun'[JobOf(e)] = now
    BY <1>1, <2>1, ExecutionParts DEF RecordRun, Faulty, TypeOK
  <2>3. Truncate(lastRun[JobOf(e)], Sched[JobOf(e)]) < Truncate(now, Sched[JobOf(e)])
    BY <1>1 DEF PeriodInv, StillLater
  <2> QED
    BY <2>2, <2>3
<1> QED
  BY <1>1, PeriodsKept, TypeCorrect, LocksHeld, PTL DEF Spec, OncePerPeriod

-----------------------------------------------------------------------------
(* Traces.  An execution only ever writes its own name.                    *)

(* What a step of e may do to the traces of any execution, and to where it *)
(* is itself: its own first trace comes with Begin.                        *)
Traces(e) ==
  /\ UNCHANGED <<proc, due, cancelled>>
  /\ \A j \in Jobs : /\ marker'[j] \in {marker[j], None, e}
                     /\ progress'[j] \in {progress[j], None, e}
                     /\ j # JobOf(e) => marker'[j] = marker[j] /\ progress'[j] = progress[j]
  /\ \A c \in restic' : c \in restic \/ c[1] = e
  /\ pc'[e] \in Unbegun => pc[e] \in Unbegun
  /\ pc[e] \notin {"idle", "done", "dead"}
  /\ \/ pc[e] = "ready" /\ pc'[e] = "running" /\ ~cancelled[ProcOf(e)]
     \/ pc[e] = "running"
     \/ pc[e] = "recorded"
     \/ /\ pc[e] \in Unbegun \cup {"unlock"}
        /\ pc'[e] \in Unbegun \cup {"unlock", "done"}
        /\ \A j \in Jobs : /\ marker'[j] \in {marker[j], None}
                           /\ progress'[j] \in {progress[j], None}
        /\ restic' = restic

(* Every step of an execution keeps to that.                               *)
LEMMA StepTraces ==
  ASSUME TypeOK, NEW e \in Executions, Step(e) \/ LockError(e)
  PROVE  Traces(e)
<1> USE ExecutionParts DEF TypeOK, procVars, lockVars, fileVars, Goto, Traces, Unbegun
<1>1. CASE AcquireJob(e)
  BY <1>1 DEF AcquireJob
<1>2. CASE AlreadyRunning(e)
  BY <1>2 DEF AlreadyRunning
<1>3. CASE ClearLeftovers(e)
  BY <1>3 DEF ClearLeftovers
<1>4. CASE ConfirmDue(e)
  BY <1>4 DEF ConfirmDue
<1>5. CASE NotDue(e)
  BY <1>5 DEF NotDue
<1>6. ASSUME NEW r \in Repos, WaitRepository(e, r) PROVE Traces(e)
  BY <1>6 DEF WaitRepository
<1>7. CASE AllRepositories(e)
  BY <1>7 DEF AllRepositories
<1>8. ASSUME NEW s \in SlotFiles, WaitSlot(e, s) PROVE Traces(e)
  BY <1>8 DEF WaitSlot
<1>9. CASE Abandon(e)
  BY <1>9 DEF Abandon
<1>10. CASE Begin(e)
  BY <1>10 DEF Begin
<1>11. CASE StartRestic(e)
  BY <1>11 DEF StartRestic
<1>12. CASE RecordRun(e)
  BY <1>12 DEF RecordRun
<1>13. CASE RemoveProgress(e)
  BY <1>13 DEF RemoveProgress
<1>14. ASSUME NEW s \in SlotFiles, UnlockSlot(e, s) PROVE Traces(e)
  BY <1>14 DEF UnlockSlot
<1>15. ASSUME NEW r \in Repos, UnlockRepository(e, r) PROVE Traces(e)
  BY <1>15 DEF UnlockRepository
<1>16. CASE Return(e)
  BY <1>16 DEF Return
<1>17. CASE LockError(e)
  BY <1>17 DEF LockError
<1> QED
  BY StepCases, <1>1, <1>2, <1>3, <1>4, <1>5, <1>6, <1>7, <1>8, <1>9, <1>10,
     <1>11, <1>12, <1>13, <1>14, <1>15, <1>16, <1>17

(* So nobody else's step leaves a trace of f, nor one of f's own before    *)
(* and after it is in RunJob.                                              *)
LEMMA TraceFreeKept ==
  ASSUME TypeOK, NEW e \in Executions, Traces(e), NEW f \in Executions, TraceFree(f),
         e = f => pc[e] \in Unbegun \cup {"unlock"} /\ pc'[e] # "running"
  PROVE  TraceFree(f)'
<1>1. JobOf(f) \in Jobs /\ f # None
  BY ExecutionParts
<1>2. CASE e # f
  BY <1>1, <1>2 DEF Traces, TraceFree
<1>3. CASE e = f
  BY <1>1, <1>3 DEF Traces, TraceFree, Unbegun
<1> QED
  BY <1>2, <1>3

(* A step of a process, the clock, a signal or restic's exit leaves no     *)
(* trace of any execution.                                                 *)
LEMMA TraceFreeAside ==
  ASSUME TypeOK, NEW f \in Executions, TraceFree(f),
         \/ \E p \in Procs : Start(p) \/ Proceed(p) \/ Crash(p)
         \/ AdvanceClock
         \/ \E p \in JobProcs : Interrupt(p)
         \/ \E o \in Owners, r \in Repos : ResticExit(o, r)
         \/ Terminated
         \/ UNCHANGED vars
  PROVE  TraceFree(f)'
<1>1. UNCHANGED <<marker, progress>>
  BY DEF Start, StartTick, StartRun, StartExec, Proceed, ListDue, Dispatch, StopDispatch,
     Finish, FinishExec, Crash, AdvanceClock, Interrupt, ResticExit, Terminated, vars, fileVars
<1>2. \A c \in restic' : c \in restic \/ \E p \in Execs, r \in Repos : c = <<<<p, r>>, r>>
  <2>1. ASSUME NEW q \in Procs, Start(q), NEW c \in restic', c \notin restic
        PROVE  \E p \in Execs, r \in Repos : c = <<<<p, r>>, r>>
    <3>1. q \in Execs /\ \E r \in Repos : StartExec(q, r)
      BY <2>1 DEF Start, StartTick, StartRun
    <3>2. PICK r \in Repos : StartExec(q, r)
      BY <3>1
    <3>3. restic' = restic \cup {<<<<q, r>>, r>>} \/ restic' = restic
      BY <3>2 DEF StartExec
    <3> QED
      BY <2>1, <3>1, <3>3
  <2>2. ASSUME NEW p \in Procs, Proceed(p) \/ Crash(p) PROVE restic' = restic
    BY <2>2 DEF Proceed, ListDue, Dispatch, StopDispatch, Finish, FinishExec, Crash
  <2>3. ASSUME \/ AdvanceClock
               \/ \E p \in JobProcs : Interrupt(p)
               \/ \E o \in Owners, r \in Repos : ResticExit(o, r)
               \/ Terminated
               \/ UNCHANGED vars
        PROVE  restic' \subseteq restic
    BY <2>3 DEF AdvanceClock, Interrupt, ResticExit, Terminated, vars
  <2> QED
    BY <2>1, <2>2, <2>3
<1>3. \A p \in Execs, r \in Repos : <<p, r>> # f
  BY ExecutionParts, ConstantsAssumption DEF JobProcs, ProcOf
<1> QED
  BY <1>1, <1>2, <1>3 DEF TraceFree

(* At the start nothing has left a trace.                                  *)
LEMMA TraceInit == Init => TraceInv
<1> SUFFICES ASSUME Init PROVE TraceInv
  OBVIOUS
<1>1. /\ \A e \in Executions : pc[e] = "idle" /\ JobOf(e) \in Jobs /\ e # None
      /\ \A j \in Jobs : marker[j] = None /\ progress[j] = None
      /\ restic = {}
      /\ \A p \in Ticks : due[p] = {}
  BY ExecutionParts DEF Init
<1> QED
  BY <1>1 DEF TraceInv, TraceFree

(* That an execution that has not begun has left no trace is inductive.    *)
LEMMA TraceStep == TypeOK /\ TraceInv /\ [Next]_vars => TraceInv'
<1> SUFFICES ASSUME TypeOK, TraceInv, [Next]_vars PROVE TraceInv'
  OBVIOUS
<1>1. ASSUME NEW e \in Executions, Step(e) \/ LockError(e) PROVE TraceInv'
  <2>1. Traces(e)
    BY <1>1, StepTraces
  <2>2. Local(e)
    BY <1>1, StepLocal
  <2>3. ASSUME NEW f \in Executions, pc'[f] \in Unbegun PROVE TraceFree(f)'
    <3>1. pc[f] \in Unbegun
      BY <2>1, <2>2, <2>3 DEF Traces, Local
    <3> QED
      BY <2>1, <2>3, <3>1, TraceFreeKept DEF TraceInv, Unbegun
  <2>4. /\ UNCHANGED <<proc, due>>
        /\ \A f \in Executions : pc[f] = "idle" => pc'[f] = "idle"
    BY <2>1, <2>2 DEF Traces, Local
  <2>5. \A p \in Ticks : \A j \in due[p] : <<p, j>> \in Executions
    BY DEF TypeOK, Executions, JobProcs
  <2> QED
    BY <2>3, <2>4, <2>5 DEF TraceInv
<1>2. ASSUME NEW p \in Procs, Start(p) \/ Proceed(p) \/ Crash(p) PROVE TraceInv'
  <2>1. \A f \in Executions : TraceFree(f) => TraceFree(f)'
    BY <1>2, TraceFreeAside
  <2>2. \A q \in Ticks : \A j \in Jobs : <<q, j>> \in Executions /\ ProcOf(<<q, j>>) = q
    BY DEF Executions, JobProcs, ProcOf
  <2>3. \A q \in Runs : \A j \in Jobs : <<q, j>> \in Executions /\ ProcOf(<<q, j>>) = q
    BY DEF Executions, JobProcs, ProcOf
  <2>4. \A q \in Ticks : due[q] \subseteq Jobs
    BY DEF TypeOK
  <2> USE ExecutionParts, ConstantsAssumption DEF TypeOK, TraceInv, Unbegun, procVars
  <2>5. CASE p \in Ticks /\ StartTick(p)
    BY <2>1, <2>5 DEF StartTick
  <2>6. ASSUME p \in Runs, NEW j \in Jobs, StartRun(p, j) PROVE TraceInv'
    <3>1. \A f \in Executions : pc'[f] = pc[f] \/ (f = <<p, j>> /\ pc[f] = "idle")
      BY <2>3, <2>6 DEF StartRun
    <3>2. /\ proc' = [proc EXCEPT ![p] = "dispatching"] /\ due' = due
      BY <2>6 DEF StartRun
    <3>3. \A f \in Executions : proc'[ProcOf(f)] \in {"idle", "listing"} => pc'[f] = "idle"
      BY <2>3, <2>6, <3>1, <3>2
    <3>4. \A q \in Ticks : \A k \in due'[q] : pc'[<<q, k>>] = "idle"
      <4>1. ASSUME NEW q \in Ticks, NEW k \in due[q] PROVE pc'[<<q, k>>] = "idle"
        <5>1. /\ <<q, k>> \in Executions /\ <<q, k>> # <<p, j>>
              /\ pc[<<q, k>>] = "idle"
          BY <2>2, <2>4, <2>6, <4>1
        <5> HIDE DEF TraceInv, TypeOK, Unbegun
        <5> QED
          BY <3>1, <5>1
      <4> HIDE DEF TraceInv, TypeOK, Unbegun
      <4> QED
        BY <3>2, <4>1
    <3>5. \A f \in Executions : pc'[f] \in Unbegun => TraceFree(f)'
      BY <2>1, <3>1
    <3> QED
      BY <3>3, <3>4, <3>5
  <2>7. ASSUME NEW r \in Repos, StartExec(p, r) PROVE TraceInv'
    BY <2>1, <2>7 DEF StartExec
  <2>8. ASSUME p \in Ticks, ListDue(p) PROVE TraceInv'
    BY <2>1, <2>2, <2>8 DEF ListDue
  <2>9. ASSUME p \in Ticks, NEW j \in Jobs, Dispatch(p, j) PROVE TraceInv'
    <3>1. \A f \in Executions : pc'[f] = pc[f] \/ (f = <<p, j>> /\ pc[f] = "idle")
      BY <2>2, <2>9 DEF Dispatch
    <3>2. /\ proc' = proc /\ proc[p] = "dispatching"
          /\ due' = [due EXCEPT ![p] = due[p] \ {j}]
      BY <2>9 DEF Dispatch
    <3>3. \A f \in Executions : proc'[ProcOf(f)] \in {"idle", "listing"} => pc'[f] = "idle"
      BY <2>2, <2>9, <3>1, <3>2
    <3>4. \A q \in Ticks : \A k \in due'[q] : pc'[<<q, k>>] = "idle"
      BY <2>2, <2>4, <2>9, <3>1, <3>2
    <3>5. \A f \in Executions : pc'[f] \in Unbegun => TraceFree(f)'
      BY <2>1, <3>1
    <3> QED
      BY <3>3, <3>4, <3>5
  <2>10. CASE p \in Ticks /\ StopDispatch(p)
    BY <2>1, <2>10 DEF StopDispatch
  <2>11. CASE p \in JobProcs /\ Finish(p)
    BY <2>1, <2>11 DEF Finish
  <2>12. ASSUME NEW r \in Repos, FinishExec(p, r) PROVE TraceInv'
    BY <2>1, <2>12 DEF FinishExec
  <2>13. CASE Crash(p)
    BY <2>1, <2>2, <2>13 DEF Crash
  <2> QED
    BY <1>2, <2>5, <2>6, <2>7, <2>8, <2>9, <2>10, <2>11, <2>12, <2>13 DEF Start, Proceed
<1>3. ASSUME \/ AdvanceClock
             \/ \E p \in JobProcs : Interrupt(p)
             \/ \E o \in Owners, r \in Repos : ResticExit(o, r)
             \/ Terminated
             \/ UNCHANGED vars
      PROVE  TraceInv'
  <2>1. \A f \in Executions : TraceFree(f) => TraceFree(f)'
    BY <1>3, TraceFreeAside
  <2>2. UNCHANGED <<proc, due, pc>>
    BY <1>3 DEF AdvanceClock, Interrupt, ResticExit, Terminated, vars, procVars
  <2> QED
    BY <2>1, <2>2 DEF TraceInv
<1> QED
  BY <1>1, <1>2, <1>3 DEF Next

(* Where an execution is that was still queued when its process was        *)
(* interrupted.                                                            *)
Stopped(e) ==
  /\ cancelled[ProcOf(e)]
  /\ proc[ProcOf(e)] \notin {"idle", "listing"}
  /\ pc[e] \in (Unbegun \ {"idle"}) \cup {"unlock", "done", "dead"}
  /\ TraceFree(e)

(* There it stays.                                                         *)
LEMMA StoppedStep ==
  ASSUME TypeOK, [Next]_vars, NEW e \in Executions, Stopped(e)
  PROVE  Stopped(e)'
<1>a. ProcOf(e) \in JobProcs /\ ProcOf(e) \in Procs
  BY ExecutionParts
<1>1. ASSUME NEW f \in Executions, Step(f) \/ LockError(f) PROVE Stopped(e)'
  <2>1. Traces(f) /\ Local(f)
    BY <1>1, StepTraces, StepLocal
  <2>2. e = f => /\ pc[e] \in Unbegun \cup {"unlock"}
                 /\ pc'[e] \in Unbegun \cup {"unlock", "done"}
    BY <2>1 DEF Traces, Stopped, Unbegun
  <2>3. e # f => pc'[e] = pc[e]
    BY <2>1 DEF Local
  <2>4. e = f => pc'[e] # "idle"
    BY <1>1, StepCases DEF AcquireJob, AlreadyRunning, ClearLeftovers, ConfirmDue, NotDue,
       WaitRepository, AllRepositories, WaitSlot, Abandon, LockError, Begin, StartRestic,
       RecordRun, RemoveProgress, UnlockSlot, UnlockRepository, Return, Goto, TypeOK, Stopped
  <2>5. TraceFree(e)'
    BY <2>1, <2>2, TraceFreeKept DEF Stopped, Unbegun
  <2> QED
    BY <2>1, <2>2, <2>3, <2>4, <2>5 DEF Stopped, Traces
<1>2. ASSUME NEW p \in Procs, Start(p) \/ Proceed(p) \/ Crash(p) PROVE Stopped(e)'
  <2>1. TraceFree(e)'
    BY <1>2, TraceFreeAside DEF Stopped
  <2>2. /\ cancelled' = cancelled
        /\ proc'[ProcOf(e)] \notin {"idle", "listing"}
    <3>1. CASE Start(p)
      BY <1>a, <3>1 DEF Start, StartTick, StartRun, StartExec, TypeOK, Stopped, procVars
    <3>2. CASE Proceed(p)
      BY <1>a, <3>2 DEF Proceed, ListDue, Dispatch, StopDispatch, Finish, FinishExec,
         TypeOK, Stopped, procVars
    <3>3. CASE Crash(p)
      BY <1>a, <3>3 DEF Crash, TypeOK, Stopped, procVars
    <3> QED
      BY <1>2, <3>1, <3>2, <3>3
  <2>3. pc'[e] \in (Unbegun \ {"idle"}) \cup {"unlock", "done", "dead"}
    BY <1>2, StageOfProcess DEF Stopped, Unbegun
  <2> QED
    BY <2>1, <2>2, <2>3 DEF Stopped
<1>3. ASSUME \/ AdvanceClock
             \/ \E p \in JobProcs : Interrupt(p)
             \/ \E o \in Owners, r \in Repos : ResticExit(o, r)
             \/ Terminated
             \/ UNCHANGED vars
      PROVE  Stopped(e)'
  <2>1. TraceFree(e)'
    BY <1>3, TraceFreeAside DEF Stopped
  <2>2. UNCHANGED <<proc, pc>> /\ cancelled'[ProcOf(e)]
    BY <1>a, <1>3 DEF AdvanceClock, Interrupt, ResticExit, Terminated, vars, procVars,
       TypeOK, Stopped
  <2> QED
    BY <2>1, <2>2 DEF Stopped
<1> QED
  BY <1>1, <1>2, <1>3 DEF Next

(* A job that is queued when its process is interrupted never begins and   *)
(* leaves no trace (executeWithSlot's check before RunJob).                *)
THEOREM InterruptKeepsQueuedJobs == Spec => InterruptedNeverBegins
<1>1. Spec => []TraceInv
  BY TypeCorrect, TraceInit, TraceStep, PTL DEF Spec
<1>2. ASSUME NEW e \in Executions
      PROVE  Spec => [](cancelled[ProcOf(e)] /\ Queued(e) => [](~Running(e) /\ TraceFree(e)))
  <2>1. TypeOK /\ LockInv /\ TraceInv => (cancelled[ProcOf(e)] /\ Queued(e) => Stopped(e))
    BY DEF LockInv, ExecutionInv, UnderWay, TraceInv, Unbegun, Queued, Stopped
  <2>2. TypeOK /\ Stopped(e) /\ [Next]_vars => Stopped(e)'
    BY StoppedStep
  <2>3. Stopped(e) => ~Running(e) /\ TraceFree(e)
    BY DEF Stopped, Running, Unbegun
  <2> QED
    BY <1>1, <2>1, <2>2, <2>3, TypeCorrect, LocksHeld, PTL DEF Spec
<1> QED
  BY <1>2 DEF InterruptedNeverBegins
----------------------------------------------------------------
(* LeftoversOnlyFromKilled, of one execution.                              *)
LeftoversOf(e) ==
  ~Faulty(e) =>
     /\ marker[JobOf(e)] = e => pc[e] \in {"running", "dead"}
     /\ progress[JobOf(e)] = e => pc[e] \in {"running", "recorded", "dead"}
     /\ Queued(e) /\ pc[e] # "clear" =>
          marker[JobOf(e)] = None /\ progress[JobOf(e)] = None
     /\ Running(e) =>
          marker[JobOf(e)] \in {e, None} /\ progress[JobOf(e)] \in {e, None}

(* Its own steps keep it: they clear before they mark, and unmark in the    *)
(* order they marked.                                                      *)
LEMMA OwnLeftovers ==
  ASSUME TypeOK, NEW e \in Executions, Step(e) \/ LockError(e), LeftoversOf(e)
  PROVE  LeftoversOf(e)'
<1> USE ExecutionParts DEF TypeOK, procVars, lockVars, fileVars, Goto, LeftoversOf,
        Faulty, Queued, Running
<1>1. CASE AcquireJob(e)
  BY <1>1 DEF AcquireJob
<1>2. CASE AlreadyRunning(e)
  BY <1>2 DEF AlreadyRunning
<1>3. CASE ClearLeftovers(e)
  BY <1>3 DEF ClearLeftovers
<1>4. CASE ConfirmDue(e)
  BY <1>4 DEF ConfirmDue
<1>5. CASE NotDue(e)
  BY <1>5 DEF NotDue
<1>6. ASSUME NEW r \in Repos, WaitRepository(e, r) PROVE LeftoversOf(e)'
  BY <1>6 DEF WaitRepository
<1>7. CASE AllRepositories(e)
  BY <1>7 DEF AllRepositories
<1>8. ASSUME NEW s \in SlotFiles, WaitSlot(e, s) PROVE LeftoversOf(e)'
  BY <1>8 DEF WaitSlot
<1>9. CASE Abandon(e)
  BY <1>9 DEF Abandon
<1>10. CASE Begin(e)
  BY <1>10 DEF Begin
<1>11. CASE StartRestic(e)
  BY <1>11 DEF StartRestic
<1>12. CASE RecordRun(e)
  BY <1>12 DEF RecordRun
<1>13. CASE RemoveProgress(e)
  BY <1>13 DEF RemoveProgress
<1>14. ASSUME NEW s \in SlotFiles, UnlockSlot(e, s) PROVE LeftoversOf(e)'
  BY <1>14 DEF UnlockSlot
<1>15. ASSUME NEW r \in Repos, UnlockRepository(e, r) PROVE LeftoversOf(e)'
  BY <1>15 DEF UnlockRepository
<1>16. CASE Return(e)
  BY <1>16 DEF Return
<1>17. CASE LockError(e)
  BY <1>17 DEF LockError
<1> QED
  BY StepCases, <1>1, <1>2, <1>3, <1>4, <1>5, <1>6, <1>7, <1>8, <1>9, <1>10,
     <1>11, <1>12, <1>13, <1>14, <1>15, <1>16, <1>17

(* A step of another execution keeps it: one that writes the job's marker  *)
(* or progress record holds the job lock, so e is not past it.             *)
LEMMA OthersLeftovers ==
  ASSUME TypeOK, LockInv, NEW e \in Executions, LeftoversOf(e),
         NEW f \in Executions, f # e, Step(f) \/ LockError(f)
  PROVE  LeftoversOf(e)'
<1> DEFINE j == JobOf(e)
<1>1. Traces(f) /\ Local(f) /\ pc'[e] = pc[e]
  BY StepTraces, StepLocal DEF Local
<1>2. e # None /\ j \in Jobs /\ JobOf(f) \in Jobs
  BY ExecutionParts
<1>3. CASE marker'[j] \in {marker[j], None} /\ progress'[j] \in {progress[j], None}
  BY <1>1, <1>2, <1>3 DEF LeftoversOf, Faulty, Queued, Running
<1>4. CASE ~(marker'[j] \in {marker[j], None} /\ progress'[j] \in {progress[j], None})
  <2>1. JobOf(f) = j /\ pc[f] \in {"ready", "running", "recorded"}
    BY <1>1, <1>2, <1>4 DEF Traces
  <2>2. jobLock[j] = f
    BY <2>1 DEF LockInv, ExecutionInv, JobLocked, Queued, Running
  <2>3. ~Queued(e) /\ ~Running(e)
    BY <2>2 DEF LockInv, ExecutionInv, JobLocked
  <2>4. /\ marker'[j] = e => marker[j] = e
        /\ progress'[j] = e => progress[j] = e
    BY <1>1, <1>2 DEF Traces
  <2> QED
    BY <1>1, <2>3, <2>4 DEF LeftoversOf, Faulty, Queued, Running
<1> QED
  BY <1>3, <1>4

(* What every step does to what is left behind.                            *)
LEMMA LeftoversStep ==
  ASSUME TypeOK, LockInv, TraceInv, [Next]_vars, NEW e \in Executions, LeftoversOf(e)
  PROVE  LeftoversOf(e)'
<1>1. ASSUME NEW f \in Executions, Step(f) \/ LockError(f) PROVE LeftoversOf(e)'
  BY <1>1, OwnLeftovers, OthersLeftovers
<1>2. ASSUME NEW p \in Procs, Start(p) \/ Proceed(p) \/ Crash(p) PROVE LeftoversOf(e)'
  <2>1. UNCHANGED <<marker, progress>>
    BY <1>2 DEF Start, StartTick, StartRun, StartExec, Proceed, ListDue, Dispatch, StopDispatch,
       Finish, FinishExec, Crash, fileVars
  <2>2. \/ pc'[e] = pc[e] \/ pc'[e] = "dead"
        \/ pc[e] = "idle" /\ pc'[e] = "acquire"
    <3>1. CASE Start(p)
      <4>1. ASSUME p \in Runs, NEW j \in Jobs, StartRun(p, j)
            PROVE  pc'[e] = pc[e] \/ (pc[e] = "idle" /\ pc'[e] = "acquire")
        BY <4>1, ExecutionParts DEF StartRun, TypeOK, TraceInv, ProcOf
      <4> QED
        BY <3>1, <4>1 DEF Start, StartTick, StartExec
    <3>2. CASE Proceed(p)
      <4>1. ASSUME p \in Ticks, NEW j \in Jobs, Dispatch(p, j)
            PROVE  pc'[e] = pc[e] \/ (pc[e] = "idle" /\ pc'[e] = "acquire")
        BY <4>1 DEF Dispatch, TypeOK, TraceInv
      <4> QED
        BY <3>2, <4>1 DEF Proceed, ListDue, StopDispatch, Finish, FinishExec
    <3>3. CASE Crash(p)
      BY <3>3 DEF Crash
    <3> QED
      BY <1>2, <3>1, <3>2, <3>3
  <2>3. pc[e] = "idle" => TraceFree(e)
    BY DEF TraceInv, Unbegun
  <2> QED
    BY <2>1, <2>2, <2>3 DEF LeftoversOf, TraceFree, Faulty, Queued, Running
<1>3. ASSUME \/ AdvanceClock
             \/ \E p \in JobProcs : Interrupt(p)
             \/ \E o \in Owners, r \in Repos : ResticExit(o, r)
             \/ Terminated
             \/ UNCHANGED vars
      PROVE  LeftoversOf(e)'
  <2>1. UNCHANGED <<pc, marker, progress>>
    BY <1>3 DEF AdvanceClock, Interrupt, ResticExit, Terminated, vars, fileVars
  <2> QED
    BY <2>1 DEF LeftoversOf, Faulty, Queued, Running
<1> QED
  BY <1>1, <1>2, <1>3 DEF Next

(* Markers and progress records that nobody answers for come only from     *)
(* executions that were killed or could not write (ClearRunning,           *)
(* RemoveProgress).                                                        *)
THEOREM LeftoversFromKilled == Spec => []LeftoversOnlyFromKilled
<1>1. Init => \A e \in Executions : LeftoversOf(e)
  <2> SUFFICES ASSUME Init, NEW e \in Executions PROVE LeftoversOf(e)
    OBVIOUS
  <2> QED
    BY ExecutionParts DEF Init, LeftoversOf, Queued, Running
<1>2. /\ TypeOK /\ LockInv /\ TraceInv /\ [Next]_vars
      /\ \A e \in Executions : LeftoversOf(e)
      => (\A e \in Executions : LeftoversOf(e))'
  BY LeftoversStep
<1>3. (\A e \in Executions : LeftoversOf(e)) => LeftoversOnlyFromKilled
  BY DEF LeftoversOf, LeftoversOnlyFromKilled
<1>4. Spec => []TraceInv
  BY TypeCorrect, TraceInit, TraceStep, PTL DEF Spec
<1> QED
  BY <1>1, <1>2, <1>3, <1>4, TypeCorrect, LocksHeld, PTL DEF Spec
-----------------------------------------------------------------------------
(* The locks implement the scheduler of Concurrency.                       *)

(* The modules of the library and the calendar mean the same in both.      *)
LEMMA SameCardinality == ASSUME NEW S PROVE Scheduler!Cardinality(S) = Cardinality(S)
  BY DEF Scheduler!Cardinality, Cardinality

LEMMA SameSchedule ==
  /\ Scheduler!Never = Never
  /\ \A t, s : Scheduler!Truncate(t, s) = Truncate(t, s)
  BY DEF Scheduler!Never, Never, Scheduler!Truncate, Truncate, Scheduler!Day, Day,
     Scheduler!Hour, Hour, Scheduler!Weekday, Weekday

(* A job that begins has all it is promised: its own locks keep others from *)
(* its job and its repositories, its slot makes it one of at most so many, *)
(* and the period it was found due in still has no run.                    *)
LEMMA BeginSeen ==
  ASSUME TypeOK, LockInv, PeriodInv, NEW e \in Executions, Begin(e)
  PROVE  Scheduler!Begin(e)
<1>1. /\ pc[e] = "ready" /\ ~cancelled[ProcOf(e)]
      /\ pc' = [pc EXCEPT ![e] = "running"]
      /\ UNCHANGED <<now, lastRun, proc, cancelled, repoLock, restic>>
  BY DEF Begin, Goto, procVars, lockVars
<1>2. Executing' = Executing \cup {e}
  BY <1>1 DEF Executing, TypeOK
<1>3. UNCHANGED <<now, lastRun, Halted, Passing, Working>>
  BY <1>1 DEF Halted, Passing, Working, Alive
<1>4. e[1] \notin Halted
  BY <1>1, ExecutionParts DEF Halted, LockInv, ExecutionInv, UnderWay, ProcOf
<1>5. Scheduler!NoRunYet(e)
  BY <1>1, SameSchedule, ExecutionParts
     DEF Scheduler!NoRunYet, PeriodInv, StillLater, Faulty, ProcOf, JobOf
<1>6. ASSUME NEW f \in Executing, f[2] = e[2] PROVE FALSE
  BY <1>1, <1>6 DEF Executing, LockInv, ExecutionInv, JobLocked, Queued, Running, JobOf
<1>7. ASSUME NEW r \in Scheduler!Repositories(e), Scheduler!InUse(r) PROVE FALSE
  <2>1. repoLock[r] = e
    BY <1>1 DEF Scheduler!Repositories, RepositoryNames, JobOf, LockInv, ExecutionInv,
       RepositoriesLocked
  <2>2. ASSUME NEW f \in Executing, r \in Scheduler!Repositories(f) PROVE FALSE
    <3>1. f \in Executions /\ pc[f] = "running" /\ r \in RepositoryNames(JobOf(f))
      BY <2>2 DEF Scheduler!Repositories, RepositoryNames, JobOf, Executing
    <3>2. repoLock[r] = f
      BY <3>1 DEF LockInv, ExecutionInv, RepositoriesLocked
    <3> QED
      BY <1>1, <2>1, <3>1, <3>2
  <2>3. ASSUME NEW x \in Passing, x[2] = r PROVE FALSE
    <3>1. x \in Invocations /\ x = e
      BY <2>1, <2>3 DEF Passing
    <3> QED
      BY <3>1, ConstantsAssumption DEF Invocations, Executions, JobProcs
  <2> QED
    BY <1>7, <2>2, <2>3 DEF Scheduler!InUse
<1>8. ASSUME NEW p \in JobProcs
      PROVE  Cardinality({f \in Executing \cup {e} : MaxConcurrent[f[1]] <= MaxConcurrent[p]})
               <= MaxConcurrent[p]
  <2> DEFINE S == {f \in Executing \cup {e} : MaxConcurrent[f[1]] <= MaxConcurrent[p]}
  <2>1. S \subseteq {f \in Executions :
                        /\ pc[f] \in {"ready", "running", "recorded"}
                        /\ MaxConcurrent[ProcOf(f)] <= MaxConcurrent[p]}
    BY <1>1 DEF Executing, ProcOf
  <2> HIDE DEF S
  <2>2. Cardinality(S) <= MaxConcurrent[p]
    BY <2>1, SlotsBound
  <2> QED
    BY <2>2 DEF S
<1>9. Scheduler!WithinCaps(Executing \cup {e})
  BY <1>8, SameCardinality DEF Scheduler!WithinCaps, JobProcs
<1> QED
  BY <1>2, <1>3, <1>4, <1>5, <1>6, <1>7, <1>9 DEF Scheduler!Begin

(* restic only starts under the lock on its repository, one at a time.     *)
LEMMA WorkSeen ==
  ASSUME TypeOK, LockInv, NEW e \in Executions, StartRestic(e)
  PROVE  \E r \in Repos : Scheduler!Work(e, r)
<1> DEFINE r == RepoList[JobOf(e)][attempted[e] + 1]
<1>1. r \in Repos /\ r \in RepositoryNames(JobOf(e))
  <2>1. attempted[e] + 1 \in 1 .. Len(RepoList[JobOf(e)])
    BY ExecutionParts, RepositoryParts DEF StartRestic, TypeOK
  <2> QED
    BY <2>1, ExecutionParts, RepositoryParts DEF RepositoryNames
<1>2. /\ pc[e] = "running" /\ ~cancelled[ProcOf(e)]
      /\ \A c \in restic : c[1] # e
      /\ restic' = restic \cup {<<e, r>>}
      /\ UNCHANGED <<now, lastRun, proc, cancelled, pc, repoLock>>
  BY DEF StartRestic, procVars, lockVars
<1>3. proc[ProcOf(e)] = "dispatching"
  BY <1>2 DEF LockInv, ExecutionInv, UnderWay
<1> HIDE DEF r
<1>4. Working' = Working \cup {<<e, r>>}
  BY <1>2, <1>3 DEF Working, Alive
<1>5. UNCHANGED <<now, lastRun, Halted, Executing, Passing>>
  BY <1>2 DEF Halted, Executing, Passing
<1>6. e \in Executing /\ e[1] \notin Halted /\ \A c \in Working : c[1] # e
  BY <1>2, <1>3, ExecutionParts DEF Executing, Halted, Working, ProcOf
<1>7. r \in Scheduler!Repositories(e)
  BY <1>1 DEF Scheduler!Repositories, RepositoryNames, JobOf
<1> QED
  BY <1>1, <1>4, <1>5, <1>6, <1>7 DEF Scheduler!Work

(* The execution ends with the write of its record.                        *)
LEMMA EndSeen ==
  ASSUME TypeOK, LockInv, NEW e \in Executions, RecordRun(e)
  PROVE  Scheduler!End(e)
<1>1. /\ pc[e] = "running" /\ pc' = [pc EXCEPT ![e] = "recorded"]
      /\ \A c \in restic : c[1] # e
      /\ UNCHANGED <<now, proc, cancelled, repoLock, restic>>
  BY DEF RecordRun, Goto, procVars, lockVars
<1>2. \/ lastRun' = [lastRun EXCEPT ![e[2]] = now]
      \/ e[1] \in MayFail /\ lastRun' = lastRun
  BY DEF RecordRun, Faulty, ProcOf, JobOf
<1>3. Executing' = Executing \ {e}
  BY <1>1 DEF Executing, TypeOK
<1>4. UNCHANGED <<now, Halted, Passing, Working>>
  BY <1>1 DEF Halted, Passing, Working, Alive
<1>5. e \in Executing /\ \A c \in Working : c[1] # e
  BY <1>1 DEF Executing, Working
<1> QED
  BY <1>2, <1>3, <1>4, <1>5 DEF Scheduler!End

(* Every other step of an execution goes unseen: it only moves locks that  *)
(* nothing running and no command passed on depends on.                    *)
LEMMA StepSeen ==
  ASSUME TypeOK, LockInv, PeriodInv, NEW e \in Executions, Step(e) \/ LockError(e)
  PROVE  [Scheduler!Next]_(Scheduler!vars)
<1>1. e \in Scheduler!Executions
  BY DEF Scheduler!Executions, Executions, JobProcs
<1>2. CASE Begin(e)
  BY <1>1, <1>2, BeginSeen DEF Scheduler!Next
<1>3. CASE StartRestic(e)
  BY <1>1, <1>3, WorkSeen DEF Scheduler!Next
<1>4. CASE RecordRun(e)
  BY <1>1, <1>4, EndSeen DEF Scheduler!Next
<1>5. CASE ~Begin(e) /\ ~StartRestic(e) /\ ~RecordRun(e)
  <2>1. /\ UNCHANGED <<now, lastRun, restic, proc, cancelled>>
        /\ pc[e] # "running" /\ pc'[e] # "running"
    BY <1>5, StepCases DEF AcquireJob, AlreadyRunning, ClearLeftovers, ConfirmDue, NotDue,
       WaitRepository, AllRepositories, WaitSlot, Abandon, LockError, RemoveProgress,
       UnlockSlot, UnlockRepository, Return, Goto, TypeOK, procVars, lockVars, fileVars
  <2>2. /\ \A f \in Executions \ {e} : pc'[f] = pc[f]
        /\ \A o \in Owners \ {e} : \A r \in Repos : repoLock[r] = o <=> repoLock'[r] = o
    BY StepLocal DEF Local
  <2>3. Executing' = Executing
    BY <2>1, <2>2 DEF Executing
  <2>4. ASSUME NEW x \in Invocations PROVE x \in Owners \ {e} /\ x[2] \in Repos
    BY ConstantsAssumption DEF Owners, Invocations, Executions, JobProcs
  <2>5. Passing' = Passing
    BY <2>2, <2>4 DEF Passing
  <2>6. UNCHANGED <<now, lastRun, Halted, Working>>
    BY <2>1 DEF Halted, Working, Alive
  <2> QED
    BY <2>3, <2>5, <2>6 DEF Scheduler!vars
<1> QED
  BY <1>2, <1>3, <1>4, <1>5

(* Processes starting and returning go unseen as well, but for a command    *)
(* passed on and a process killed.                                         *)
LEMMA ProcessSeen ==
  ASSUME TypeOK, LockInv, NEW p \in Procs, Start(p) \/ Proceed(p) \/ Crash(p)
  PROVE  [Scheduler!Next]_(Scheduler!vars)
<1>1. UNCHANGED <<now, lastRun>>
  BY StageOfProcess
<1>2. \A e \in Executions : ProcOf(e) \in JobProcs /\ ProcOf(e) \in Procs
  BY ExecutionParts
<1>3. CASE UNCHANGED <<cancelled, repoLock, restic>>
           /\ proc[p] # "dead" /\ proc'[p] # "dead"
           /\ (\A q \in Procs \ {p} : proc'[q] = proc[q])
           /\ \A e \in Executions : pc[e] = "running" <=> pc'[e] = "running"
  <2>1. Halted' = Halted /\ Executing' = Executing /\ Passing' = Passing
    BY <1>3 DEF Halted, Executing, Passing
  <2>2. \A c \in restic : ProcOf(c[1]) \in Procs
    BY DEF TypeOK, Owners, Executions, Invocations, Procs, JobProcs, ProcOf
  <2>3. Working' = Working
    BY <1>3, <2>2 DEF Working, Alive
  <2> QED
    BY <1>1, <2>1, <2>3 DEF Scheduler!vars
<1>4. ASSUME NEW e \in Executions, pc[e] \notin {"idle", "done", "dead"}
      PROVE  proc[ProcOf(e)] = "dispatching"
  BY <1>4 DEF LockInv, ExecutionInv, UnderWay
<1>5. CASE p \in Ticks /\ (StartTick(p) \/ ListDue(p) \/ StopDispatch(p))
  BY <1>3, <1>5 DEF StartTick, ListDue, StopDispatch, TypeOK, procVars, lockVars, fileVars
<1>6. ASSUME p \in Ticks, NEW j \in Jobs, Dispatch(p, j)
      PROVE  [Scheduler!Next]_(Scheduler!vars)
  <2>1. pc[<<p, j>>] # "running"
    BY <1>6 DEF Dispatch, LockInv, DueNotStarted
  <2>2. pc' = [pc EXCEPT ![<<p, j>>] = "acquire"]
        /\ UNCHANGED <<proc, cancelled, repoLock, restic>> /\ proc[p] = "dispatching"
    BY <1>6 DEF Dispatch, lockVars
  <2>3. \A e \in Executions : pc[e] = "running" <=> pc'[e] = "running"
    BY <2>1, <2>2 DEF TypeOK
  <2> QED
    BY <1>3, <2>2, <2>3
<1>7. ASSUME p \in Runs, NEW j \in Jobs, StartRun(p, j)
      PROVE  [Scheduler!Next]_(Scheduler!vars)
  <2>1. <<p, j>> \in Executions /\ ProcOf(<<p, j>>) = p /\ proc[p] = "idle"
    BY <1>7 DEF StartRun, Executions, JobProcs, ProcOf
  <2>2. pc[<<p, j>>] # "running"
    BY <1>4, <2>1
  <2>3. pc' = [pc EXCEPT ![<<p, j>>] = "acquire"]
        /\ UNCHANGED <<cancelled, repoLock, restic>>
        /\ proc' = [proc EXCEPT ![p] = "dispatching"]
    BY <1>7 DEF StartRun, lockVars
  <2>4. \A e \in Executions : pc[e] = "running" <=> pc'[e] = "running"
    BY <2>2, <2>3 DEF TypeOK
  <2>5. proc'[p] = "dispatching" /\ \A q \in Procs \ {p} : proc'[q] = proc[q]
    BY <2>3 DEF TypeOK
  <2> QED
    BY <1>3, <2>1, <2>3, <2>4, <2>5
<1>8. CASE Finish(p)
  BY <1>3, <1>8 DEF Finish, TypeOK, lockVars
<1>9. ASSUME p \in Execs, NEW r \in Repos, StartExec(p, r)
      PROVE  [Scheduler!Next]_(Scheduler!vars)
  <2>1. CASE repoLock[r] # None
    <3>1. UNCHANGED <<cancelled, repoLock, restic, pc>> /\ proc[p] = "idle"
          /\ proc' = [proc EXCEPT ![p] = "done"]
      BY <1>9, <2>1 DEF StartExec
    <3> QED
      BY <1>3, <3>1 DEF TypeOK
  <2>2. CASE repoLock[r] = None
    <3> DEFINE x == <<p, r>>
    <3>1. x \in Invocations /\ x[1] = p /\ x[2] = r
      BY <1>9 DEF Invocations
    <3>2. /\ repoLock' = [repoLock EXCEPT ![r] = x]
          /\ restic' = restic \cup {<<x, r>>}
          /\ proc[p] = "idle" /\ proc' = [proc EXCEPT ![p] = "passing"]
          /\ UNCHANGED <<cancelled, pc>>
      BY <1>9, <2>2 DEF StartExec
    <3>3. \A y \in Invocations : y # None /\ y[2] \in Repos
      BY ConstantsAssumption DEF Owners, Invocations
    <3>4. \A c \in restic : ProcOf(c[1]) \in Procs
      BY DEF TypeOK, Owners, Executions, Invocations, Procs, JobProcs, ProcOf
    <3>5. ProcOf(x) = p
      BY <3>1 DEF ProcOf
    <3>6. x = <<x[1], x[2]>> /\ \A y \in Invocations : y[2] = r /\ repoLock'[r] = y <=> y = x
      BY <3>1, <3>2 DEF TypeOK
    <3> HIDE DEF x
    <3>7. Passing' = Passing \cup {x}
      BY <2>2, <3>1, <3>2, <3>3, <3>6 DEF Passing, TypeOK
    <3>8. Working' = Working \cup {<<x, x[2]>>}
      BY <3>1, <3>2, <3>4, <3>5 DEF Working, Alive, TypeOK
    <3>9. Halted' = Halted /\ Executing' = Executing
      BY <3>2 DEF Halted, Executing, TypeOK
    <3>10. x[1] \notin Halted
      BY <1>9, <3>1, <3>2, ConstantsAssumption DEF Halted, JobProcs
    <3>11. ~Scheduler!InUse(x[2])
      <4>1. ASSUME NEW f \in Executing, r \in Scheduler!Repositories(f) PROVE FALSE
        <5>1. f \in Executions /\ pc[f] = "running" /\ r \in RepositoryNames(JobOf(f))
          BY <4>1 DEF Scheduler!Repositories, RepositoryNames, JobOf, Executing
        <5>2. repoLock[r] = f /\ f # None
          BY <5>1, ExecutionParts DEF LockInv, ExecutionInv, RepositoriesLocked
        <5> QED
          BY <2>2, <5>2
      <4>2. ASSUME NEW y \in Passing, y[2] = r PROVE FALSE
        BY <2>2, <3>3, <4>2 DEF Passing
      <4> QED
        BY <3>1, <4>1, <4>2 DEF Scheduler!InUse
    <3>12. Scheduler!Pass(x)
      BY <1>1, <3>7, <3>8, <3>9, <3>10, <3>11 DEF Scheduler!Pass
    <3> QED
      BY <3>1, <3>12 DEF Scheduler!Next, Scheduler!Invocations, Invocations
  <2> QED
    BY <2>1, <2>2
<1>10. ASSUME p \in Execs, NEW r \in Repos, FinishExec(p, r)
       PROVE  [Scheduler!Next]_(Scheduler!vars)
  <2> DEFINE x == <<p, r>>
  <2>1. x \in Invocations /\ x[2] = r
    BY <1>10 DEF Invocations
  <2>2. /\ repoLock[r] = x /\ <<x, r>> \notin restic
        /\ repoLock' = [repoLock EXCEPT ![r] = None]
        /\ proc[p] = "passing" /\ proc' = [proc EXCEPT ![p] = "done"]
        /\ UNCHANGED <<cancelled, pc, restic>>
    BY <1>10 DEF FinishExec
  <2>3. \A y \in Invocations : y # None /\ y[2] \in Repos
    BY ConstantsAssumption DEF Owners, Invocations
  <2>4. \A c \in restic : ProcOf(c[1]) \in Procs
    BY DEF TypeOK, Owners, Executions, Invocations, Procs, JobProcs, ProcOf
  <2> HIDE DEF x
  <2>5. Passing' = Passing \ {x}
    BY <2>1, <2>2, <2>3 DEF Passing, TypeOK
  <2>6. Working' = Working
    BY <2>2, <2>4 DEF Working, Alive, TypeOK
  <2>7. Halted' = Halted /\ Executing' = Executing
    BY <2>2 DEF Halted, Executing, TypeOK
  <2>8. x \in Passing /\ <<x, x[2]>> \notin Working
    BY <2>1, <2>2 DEF Passing, Working
  <2>9. Scheduler!Passed(x)
    BY <1>1, <2>5, <2>6, <2>7, <2>8 DEF Scheduler!Passed
  <2> QED
    BY <2>1, <2>9 DEF Scheduler!Next, Scheduler!Invocations, Invocations
<1>11. CASE Crash(p)
  <2>1. /\ proc' = [proc EXCEPT ![p] = "dead"] /\ proc[p] # "dead"
        /\ pc' = [e \in Executions |->
                    IF ProcOf(e) = p /\ pc[e] \notin {"idle", "done"} THEN "dead" ELSE pc[e]]
        /\ \A r \in Repos : repoLock'[r] = IF OwnedBy(repoLock[r], p) THEN None ELSE repoLock[r]
        /\ UNCHANGED <<cancelled, restic>>
    BY <1>11 DEF Crash
  <2>2. \A y \in Invocations : y # None /\ y[2] \in Repos
    BY ConstantsAssumption DEF Owners, Invocations
  <2>3. \A c \in restic : ProcOf(c[1]) \in Procs
    BY DEF TypeOK, Owners, Executions, Invocations, Procs, JobProcs, ProcOf
  <2>4. Halted' = Halted \cup {p}
    BY <2>1 DEF Halted, TypeOK
  <2>5. Executing' = {e \in Executing : e[1] # p}
    BY <2>1 DEF Executing, ProcOf
  <2>6. Passing' = {x \in Passing : x[1] # p}
    BY <2>1, <2>2 DEF Passing, OwnedBy, ProcOf
  <2>7. Working' = {c \in Working : c[1][1] # p}
    BY <2>1, <2>3 DEF Working, Alive, TypeOK, ProcOf
  <2>8. Scheduler!Kill(p)
    BY <1>1, <2>4, <2>5, <2>6, <2>7 DEF Scheduler!Kill
  <2> QED
    BY <2>8 DEF Scheduler!Next, Procs, JobProcs
<1> QED
  BY <1>5, <1>6, <1>7, <1>8, <1>9, <1>10, <1>11 DEF Start, Proceed

(* The clock, signals and restic's exits are seen for what they are, but    *)
(* for the exit of a restic process whose parent was killed.               *)
LEMMA EnvironmentSeen ==
  ASSUME TypeOK,
         \/ AdvanceClock
         \/ \E p \in JobProcs : Interrupt(p)
         \/ \E o \in Owners, r \in Repos : ResticExit(o, r)
         \/ Terminated
         \/ UNCHANGED vars
  PROVE  [Scheduler!Next]_(Scheduler!vars)
<1>1. CASE AdvanceClock
  <2>1. UNCHANGED <<lastRun, proc, cancelled, pc, repoLock, restic>>
        /\ \E t \in Instants : t > now /\ now' = t
    BY <1>1 DEF AdvanceClock, procVars, lockVars, fileVars
  <2>2. Halted' = Halted /\ Executing' = Executing /\ Passing' = Passing /\ Working' = Working
    BY <2>1 DEF Halted, Executing, Passing, Working, Alive
  <2> QED
    BY <2>1, <2>2 DEF Scheduler!AdvanceClock, Scheduler!Next
<1>2. ASSUME NEW p \in JobProcs, Interrupt(p) PROVE [Scheduler!Next]_(Scheduler!vars)
  <2>1. UNCHANGED <<now, lastRun, proc, pc, repoLock, restic>>
        /\ cancelled' = [cancelled EXCEPT ![p] = TRUE]
    BY <1>2 DEF Interrupt, lockVars, fileVars
  <2>2. Executing' = Executing /\ Passing' = Passing /\ Working' = Working
    BY <2>1 DEF Executing, Passing, Working, Alive
  <2>3. \A q \in JobProcs : cancelled'[q] <=> cancelled[q] \/ q = p
    BY <2>1 DEF TypeOK
  <2>4. Halted' = Halted \cup {p}
    BY <2>1, <2>3 DEF Halted, Procs
  <2>5. Scheduler!Interrupt(p)
    BY <2>1, <2>2, <2>4 DEF Scheduler!Interrupt
  <2> QED
    BY <2>5 DEF Scheduler!Next, JobProcs
<1>3. ASSUME NEW o \in Owners, NEW r \in Repos, ResticExit(o, r)
      PROVE  [Scheduler!Next]_(Scheduler!vars)
  <2> DEFINE c == <<o, r>>
  <2>1. c \in restic /\ restic' = restic \ {c}
        /\ UNCHANGED <<now, lastRun, proc, cancelled, pc, repoLock>>
    BY <1>3 DEF ResticExit, procVars, lockVars, fileVars
  <2> HIDE DEF c
  <2>2. Halted' = Halted /\ Executing' = Executing /\ Passing' = Passing
    BY <2>1 DEF Halted, Executing, Passing
  <2>3. Working' = Working \ {c}
    BY <2>1 DEF Working, Alive
  <2>4. CASE c \in Working
    <3>1. Scheduler!Exit(c)
      BY <2>1, <2>2, <2>3, <2>4 DEF Scheduler!Exit
    <3> QED
      BY <2>4, <3>1 DEF Scheduler!Next
  <2>5. CASE c \notin Working
    BY <2>1, <2>2, <2>3, <2>5 DEF Scheduler!vars
  <2> QED
    BY <2>4, <2>5
<1>4. CASE Terminated \/ UNCHANGED vars
  <2>1. UNCHANGED <<now, lastRun, proc, cancelled, pc, repoLock, restic>>
    BY <1>4 DEF Terminated, vars, procVars, lockVars, fileVars
  <2>2. Halted' = Halted /\ Executing' = Executing /\ Passing' = Passing /\ Working' = Working
    BY <2>1 DEF Halted, Executing, Passing, Working, Alive
  <2> QED
    BY <2>1, <2>2 DEF Scheduler!vars
<1> QED
  BY <1>1, <1>2, <1>3, <1>4

(* The processes with their lock files, slots, waits, crashes and stale     *)
(* state implement one scheduler that begins a job only when nothing is in *)
(* its way.                                                                *)
THEOREM ImplementsScheduler == Spec => SchedulerSpec
<1>1. Init => Scheduler!Init
  <2> SUFFICES ASSUME Init PROVE Scheduler!Init
    OBVIOUS
  <2>1. Halted = {} /\ Executing = {} /\ Working = {}
    BY DEF Init, Halted, Executing, Working, Procs
  <2>2. Passing = {}
    BY ConstantsAssumption DEF Init, Passing, Owners, Invocations
  <2> QED
    BY <2>1, <2>2, SameSchedule DEF Init, Scheduler!Init
<1>2. ASSUME TypeOK, LockInv, PeriodInv, [Next]_vars
      PROVE  [Scheduler!Next]_(Scheduler!vars)
  BY <1>2, StepSeen, ProcessSeen, EnvironmentSeen DEF Next
<1> QED
  BY <1>1, <1>2, TypeCorrect, LocksHeld, PeriodsKept, PTL DEF Spec, SchedulerSpec, Scheduler!Spec

=============================================================================
