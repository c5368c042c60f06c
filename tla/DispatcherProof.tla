--------------------------- MODULE DispatcherProof --------------------------
(***************************************************************************)
(* Theorems about Dispatcher, for every set of jobs, threads and limits:   *)
(* typing, exclusivity of workers, the accounting of slot permits, and the *)
(* window of the candidate query.                                          *)
(***************************************************************************)
EXTENDS Dispatcher, FiniteSetTheorems, WellFoundedInduction, TLAPS

USE DEF Kinds

\* Dropping a permit keeps the counters natural numbers.
LEMMA ReleaseType ==
    ASSUME inUse \in [Kinds -> Nat], NEW k \in Kinds, Release(k)
    PROVE  inUse' \in [Kinds -> Nat]
BY DEF Release

\* The drain loop goes back to waiting or to the next acquisition, with no job in hand.
LEMMA AdvanceType ==
    ASSUME disp \in [pc : DispPCs, kind : Kinds, job : Jobs \cup {NoJob}, started : BOOLEAN],
           NEW b \in BOOLEAN, Advance(b)
    PROVE  /\ disp' \in [pc : DispPCs, kind : Kinds, job : Jobs \cup {NoJob},
                         started : BOOLEAN]
           /\ disp'.pc \in {"acquire", "idle"}
BY DEF Advance, Idle, DispPCs, NoJob

\* Moving one thread keeps the type of the thread table.
LEMMA GotoType ==
    ASSUME TypeOK, NEW t \in Threads, NEW pc \in ThreadPCs \ {"none"}, Goto(t, pc),
           thread[t].pc # "none"
    PROVE  /\ thread' \in [Threads -> [pc : ThreadPCs, job : Jobs \cup {NoJob}]]
           /\ \A u \in Threads : thread'[u].pc = "none" <=> thread'[u].job = NoJob
           /\ \A u \in Threads : thread'[u].job = thread[u].job
           /\ \A u \in Threads : u # t => thread'[u] = thread[u]
           /\ thread'[t].pc = pc
BY DEF TypeOK, Goto

\* A worker function that returned leads to the batch or straight to the guards.
LEMMA AfterWorkType ==
    ASSUME NEW j PROVE AfterWork(j) \in {"unlist", "advance"}
BY DEF AfterWork

\* Every job is of one of the two kinds.
LEMMA KindType == ASSUME NEW j PROVE KindOf(j) \in Kinds
BY DEF KindOf

\* Every variable keeps its type: TypeOK is inductive on its own.
THEOREM TypeCorrect == Spec => []TypeOK
<1>1. Init => TypeOK
  <2> SUFFICES ASSUME Init PROVE TypeOK
    OBVIOUS
  <2>1. status \in [Jobs -> Statuses] /\ priority \in [Jobs -> Priorities]
    BY InitialAssumption DEF Init
  <2>2. limit \in [Kinds -> Nat]
    BY LimitAssumption DEF Init
  <2>3. thread \in [Threads -> [pc : ThreadPCs, job : Jobs \cup {NoJob}]]
    BY DEF Init, NoThread, ThreadPCs
  <2>4. disp \in [pc : DispPCs, kind : Kinds, job : Jobs \cup {NoJob}, started : BOOLEAN]
    BY DEF Init, Idle, DispPCs
  <2> QED
    BY <2>1, <2>2, <2>3, <2>4 DEF Init, TypeOK, Idle, NoThread
<1>2. TypeOK /\ [Next]_vars => TypeOK'
  <2> SUFFICES ASSUME TypeOK, [Next]_vars PROVE TypeOK'
    OBVIOUS
  <2> USE JobsAssumption
  <2>1. CASE DispatcherStep \/ ClaimError
    <3>1. CASE RecvWake
      BY <3>1 DEF RecvWake, TypeOK, Idle, DispPCs, table, background
    <3>2. CASE Reconcile
      BY <3>2 DEF Reconcile, TypeOK, Idle, DispPCs, table, background
    <3>3. CASE AcquireSlot
      BY <3>3 DEF AcquireSlot, TypeOK, DispPCs, table, background
    <3>4. CASE NoSlot
      BY <3>4, AdvanceType DEF NoSlot, TypeOK, table, background
    <3>5. CASE ClaimNext
      <4>1. PICK j \in Jobs : /\ IsBest(j, disp.kind)
                              /\ status' = [status EXCEPT ![j] = "running"]
                              /\ disp' = [disp EXCEPT !.pc = "launch", !.job = j]
        BY <3>5 DEF ClaimNext
      <4>2. KindOf(j) = disp.kind
        BY <4>1 DEF IsBest, Claimable, InWindow, Candidates
      <4> QED
        BY <3>5, <4>1, <4>2 DEF ClaimNext, TypeOK, DispPCs, Statuses, background
    <3>6. CASE ClaimNothing
      BY <3>6, AdvanceType, ReleaseType DEF ClaimNothing, TypeOK, table, background
    <3>7. CASE ClaimError
      BY <3>7, AdvanceType, ReleaseType, BudgetAssumption
      DEF ClaimError, TypeOK, table, background
    <3>8. ASSUME NEW t \in Threads, Launch(t) PROVE TypeOK'
      <4>1. /\ disp' \in [pc : DispPCs, kind : Kinds, job : Jobs \cup {NoJob},
                          started : BOOLEAN]
            /\ disp'.pc \in {"acquire", "idle"}
        BY <3>8, AdvanceType DEF Launch, TypeOK
      <4>2. inUse' \in [Kinds -> Nat] /\ wake' \in BOOLEAN
        BY <3>8, ReleaseType DEF Launch, TypeOK
      <4>3. registry' \subseteq Jobs /\ status' \in [Jobs -> Statuses]
        BY <3>8 DEF Launch, TypeOK, MarkedAtLaunch, Statuses
      <4>4. /\ thread' \in [Threads -> [pc : ThreadPCs, job : Jobs \cup {NoJob}]]
            /\ \A u \in Threads : thread'[u].pc = "none" <=> thread'[u].job = NoJob
        BY <3>8 DEF Launch, TypeOK, ThreadPCs, NoJob
      <4> QED
        BY <3>8, <4>1, <4>2, <4>3, <4>4 DEF Launch, TypeOK, background
    <3>9. CASE LaunchPanics
      BY <3>9, ReleaseType DEF LaunchPanics, TypeOK, Idle, DispPCs, table, background
    <3> QED
      BY <2>1, <3>1, <3>2, <3>3, <3>4, <3>5, <3>6, <3>7, <3>8, <3>9 DEF DispatcherStep
  <2>2. ASSUME NEW t \in Threads, WorkerStep(t) PROVE TypeOK'
    <3> DEFINE j == thread[t].job
    <3> USE GotoType, AfterWorkType DEF ThreadPCs
    <3>1. CASE WorkerStart(t)
      <4>1. thread[t].pc = "start"
        BY <3>1 DEF WorkerStart
      <4>2. j \in Jobs
        BY <4>1 DEF TypeOK
      <4>3. PICK pc \in {"failing", "work", "unlist", "advance"} : Goto(t, pc)
        BY <3>1 DEF WorkerStart
      <4>4. status' \in [Jobs -> Statuses]
        BY <3>1, <4>2 DEF WorkerStart, TypeOK, Statuses
      <4> QED
        BY <3>1, <4>1, <4>3, <4>4 DEF WorkerStart, TypeOK, background
    <3>2. CASE WorkerFinish(t)
      <4>1. thread[t].pc = "work"
        BY <3>2 DEF WorkerFinish
      <4>2. j \in Jobs
        BY <4>1 DEF TypeOK
      <4>3. PICK pc \in {"failing", "unlist", "advance"} : Goto(t, pc)
        BY <3>2 DEF WorkerFinish
      <4>4. status' \in [Jobs -> Statuses]
        BY <3>2, <4>2 DEF WorkerFinish, TypeOK, Statuses
      <4> QED
        BY <3>2, <4>1, <4>3, <4>4 DEF WorkerFinish, TypeOK, background
    <3>3. CASE WorkerSeesStop(t)
      <4>1. thread[t].pc = "work"
        BY <3>3 DEF WorkerSeesStop
      <4>2. PICK pc \in {"unlist", "advance"} : Goto(t, pc)
        BY <3>3 DEF WorkerSeesStop
      <4> QED
        BY <3>3, <4>1, <4>2 DEF WorkerSeesStop, TypeOK, table, background
    <3>4. CASE WorkerError(t)
      BY <3>4 DEF WorkerError, TypeOK, table, background
    <3>5. CASE WorkerReadsStatus(t)
      <4>1. thread[t].pc = "failing"
        BY <3>5 DEF WorkerReadsStatus
      <4>2. PICK pc \in {"fail", "unlist", "advance"} : Goto(t, pc)
        BY <3>5 DEF WorkerReadsStatus
      <4> QED
        BY <3>5, <4>1, <4>2 DEF WorkerReadsStatus, TypeOK, table, background
    <3>6. CASE WorkerFail(t)
      <4>1. thread[t].pc = "fail"
        BY <3>6 DEF WorkerFail
      <4>2. j \in Jobs
        BY <4>1 DEF TypeOK
      <4>3. PICK pc \in {"unlist", "advance"} : Goto(t, pc)
        BY <3>6 DEF WorkerFail
      <4>4. status' \in [Jobs -> Statuses]
        BY <3>6, <4>2 DEF WorkerFail, Failed, TypeOK, Statuses
      <4> QED
        BY <3>6, <4>1, <4>3, <4>4 DEF WorkerFail, TypeOK, background
    <3>7. CASE AdvanceBatch(t)
      <4>1. /\ thread[t].pc = "advance" /\ Goto(t, "unlist")
            /\ UNCHANGED <<priority, limit, inUse, registry, background, disp, installed, ops>>
            /\ \/ UNCHANGED <<status, retries, wake>>
               \/ wake' = TRUE /\ UNCHANGED <<status, retries>>
               \/ /\ wake' = TRUE
                  /\ \E again \in SUBSET Jobs :
                        /\ status'  = [i \in Jobs |-> IF i \in again THEN "queued"
                                                                    ELSE status[i]]
                        /\ retries' = [i \in Jobs |-> IF i \in again THEN retries[i] + 1
                                                                    ELSE retries[i]]
        BY <3>7 DEF AdvanceBatch, SiblingsOf
      <4>2. wake' \in BOOLEAN
        BY <4>1 DEF TypeOK
      <4>3. status' \in [Jobs -> Statuses]
        BY <4>1 DEF TypeOK, Statuses
      <4>4. retries' \in [Jobs -> Nat]
        <5>1. CASE UNCHANGED retries
          BY <5>1 DEF TypeOK
        <5>2. ASSUME NEW again \in SUBSET Jobs,
                     retries' = [i \in Jobs |-> IF i \in again THEN retries[i] + 1
                                                               ELSE retries[i]]
              PROVE  retries' \in [Jobs -> Nat]
          <6>1. \A i \in Jobs : retries[i] \in Nat
            BY DEF TypeOK
          <6> QED
            BY <5>2, <6>1
        <5> QED
          BY <4>1, <5>1, <5>2
      <4> QED
        BY <4>1, <4>2, <4>3, <4>4 DEF TypeOK, background
    <3>8. CASE WorkerUnlist(t)
      BY <3>8 DEF WorkerUnlist, TypeOK, table, background
    <3>9. CASE WorkerRelease(t)
      BY <3>9, ReleaseType, KindType DEF WorkerRelease, TypeOK, table, background
    <3>10. CASE WorkerWake(t)
      BY <3>10 DEF WorkerWake, TypeOK, NoThread, NoJob, table, background
    <3> QED
      BY <2>2, <3>1, <3>2, <3>3, <3>4, <3>5, <3>6, <3>7, <3>8, <3>9, <3>10
      DEF WorkerStep
  <2>3. ASSUME NEW j \in Jobs, ResumerStep(j) \/ DeleterStep(j) PROVE TypeOK'
    <3>1. CASE ResumerStarts(j)
      BY <3>1 DEF ResumerStarts, TypeOK, Statuses
    <3>2. CASE ResumerGivesUp(j)
      BY <3>2 DEF ResumerGivesUp, Failed, TypeOK, Statuses
    <3>3. CASE DeleterStep(j)
      BY <3>3 DEF DeleterStep, TypeOK, Statuses
    <3> QED
      BY <2>3, <3>1, <3>2, <3>3 DEF ResumerStep
  <2>4. CASE CommandStep
    <3>1. ASSUME NEW j \in Jobs,
                 Enqueue(j) \/ PauseJob(j) \/ ResumeJob(j) \/ StopJob(j) \/ DeleteJob(j)
          PROVE  TypeOK'
      <4>1. CASE Enqueue(j)
        BY <4>1 DEF Enqueue, Command, TypeOK, Statuses, Priorities, background
      <4>2. CASE PauseJob(j)
        BY <4>2 DEF PauseJob, Command, TypeOK, Statuses, background
      <4>3. CASE ResumeJob(j)
        <5>1. status' \in [Jobs -> Statuses] /\ ops' \in Nat
          BY <4>3 DEF ResumeJob, Command, TypeOK, Statuses
        <5>2. wake' \in BOOLEAN
          BY <4>3 DEF ResumeJob, TypeOK
        <5>3. \/ resumers' = resumers
              \/ resumers' = [resumers EXCEPT ![j] = @ + 1]
          BY <4>3 DEF ResumeJob
        <5>4. resumers' \in [Jobs -> Nat]
          BY <5>3 DEF TypeOK
        <5> QED
          BY <4>3, <5>1, <5>2, <5>4 DEF ResumeJob, TypeOK
      <4>4. CASE StopJob(j)
        BY <4>4 DEF StopJob, Command, TypeOK, Statuses, background
      <4>5. CASE DeleteJob(j)
        <5>1. status' \in [Jobs -> Statuses] /\ ops' \in Nat
          BY <4>5 DEF DeleteJob, Command, TypeOK, Statuses
        <5>2. deleters' \subseteq Jobs
          BY <4>5 DEF DeleteJob, TypeOK
        <5> QED
          BY <4>5, <5>1, <5>2 DEF DeleteJob, TypeOK
      <4> QED
        BY <3>1, <4>1, <4>2, <4>3, <4>4, <4>5
    <3>2. ASSUME NEW j \in Jobs, NEW p \in Priorities, SetPriority(j, p) PROVE TypeOK'
      BY <3>2 DEF SetPriority, Command, TypeOK, background
    <3>3. CASE ClearFinished
      BY <3>3 DEF ClearFinished, Command, TypeOK, Statuses, background
    <3>4. ASSUME NEW k \in Kinds, NEW n \in 1..MaxLimit[k], UpdateConcurrency(k, n)
          PROVE  TypeOK'
      BY <3>4, LimitAssumption DEF UpdateConcurrency, Command, TypeOK, table, background
    <3> QED
      BY <2>4, <3>1, <3>2, <3>3, <3>4 DEF CommandStep
  <2>5. CASE InstallGlobal
    BY <2>5 DEF InstallGlobal, TypeOK, table, background
  <2>6. CASE Restart
    <3>1. status' \in [Jobs -> Statuses]
      BY <2>6 DEF Restart, TypeOK, Statuses
    <3>2. thread' \in [Threads -> [pc : ThreadPCs, job : Jobs \cup {NoJob}]]
      BY <2>6 DEF Restart, NoThread, ThreadPCs
    <3>3. disp' \in [pc : DispPCs, kind : Kinds, job : Jobs \cup {NoJob}, started : BOOLEAN]
      BY <2>6 DEF Restart, Idle, DispPCs
    <3>4. inUse' \in [Kinds -> Nat] /\ resumers' \in [Jobs -> Nat] /\ ops' \in Nat
      BY <2>6 DEF Restart, TypeOK
    <3> QED
      BY <2>6, <3>1, <3>2, <3>3, <3>4 DEF Restart, TypeOK, NoThread, Idle
  <2>7. CASE UNCHANGED vars
    BY <2>7 DEF vars, table, background, TypeOK
  <2> QED
    BY <2>1, <2>2, <2>3, <2>4, <2>5, <2>6, <2>7 DEF Next
<1> QED
  BY <1>1, <1>2, PTL DEF Spec

(***************************************************************************)
(* Exclusivity.  The three parts lean on one another: the launch may add a *)
(* thread for the claimed job because the claim saw it idle and nobody     *)
(* else adds to the registry, and a worker may take its job out of the     *)
(* registry because no other thread is registered for it.                  *)
(***************************************************************************)
Exclusive == RegistryTruthful /\ OneWorkerPerJob /\ LaunchFindsJobIdle

\* A worker step other than leaving the registry moves one thread between two
\* registered program counters.
LEMMA WorkerMoves ==
    ASSUME TypeOK, NEW t \in Threads,
           WorkerStep(t), ~WorkerUnlist(t), ~WorkerRelease(t), ~WorkerWake(t)
    PROVE  /\ thread[t].pc \in RegisteredPCs
           /\ \E pc \in RegisteredPCs : Goto(t, pc)
           /\ UNCHANGED <<inUse, registry, disp>>
<1> USE AfterWorkType DEF RegisteredPCs
<1>1. CASE WorkerStart(t)
  BY <1>1 DEF WorkerStart
<1>2. CASE WorkerFinish(t)
  BY <1>2 DEF WorkerFinish
<1>3. CASE WorkerSeesStop(t)
  BY <1>3 DEF WorkerSeesStop
<1>4. CASE WorkerError(t)
  BY <1>4 DEF WorkerError
<1>5. CASE WorkerReadsStatus(t)
  BY <1>5 DEF WorkerReadsStatus
<1>6. CASE WorkerFail(t)
  BY <1>6 DEF WorkerFail
<1>7. CASE AdvanceBatch(t)
  BY <1>7 DEF AdvanceBatch
<1> QED
  BY <1>1, <1>2, <1>3, <1>4, <1>5, <1>6, <1>7 DEF WorkerStep

\* Every step of the other actors leaves threads, registry, permits and the
\* dispatcher task alone.
LEMMA OthersKeepThreads ==
    ASSUME \/ \E j \in Jobs : ResumerStep(j) \/ DeleterStep(j)
           \/ CommandStep
           \/ InstallGlobal
           \/ UNCHANGED vars
    PROVE  UNCHANGED <<inUse, registry, thread, disp>>
<1>1. CASE \E j \in Jobs : ResumerStep(j) \/ DeleterStep(j)
  BY <1>1 DEF ResumerStep, ResumerStarts, ResumerGivesUp, DeleterStep
<1>2. CASE CommandStep
  <2>1. ASSUME NEW j \in Jobs,
               Enqueue(j) \/ PauseJob(j) \/ ResumeJob(j) \/ StopJob(j) \/ DeleteJob(j)
        PROVE  UNCHANGED <<inUse, registry, thread, disp>>
    BY <2>1 DEF Enqueue, PauseJob, ResumeJob, StopJob, DeleteJob
  <2>2. ASSUME NEW j \in Jobs, NEW p \in Priorities, SetPriority(j, p)
        PROVE  UNCHANGED <<inUse, registry, thread, disp>>
    BY <2>2 DEF SetPriority
  <2>3. ASSUME NEW k \in Kinds, NEW n \in 1..MaxLimit[k], UpdateConcurrency(k, n)
        PROVE  UNCHANGED <<inUse, registry, thread, disp>>
    BY <2>3 DEF UpdateConcurrency
  <2> QED
    BY <1>2, <2>1, <2>2, <2>3 DEF CommandStep, ClearFinished
<1>3. CASE InstallGlobal
  BY <1>3 DEF InstallGlobal
<1>4. CASE UNCHANGED vars
  BY <1>4 DEF vars
<1> QED
  BY <1>1, <1>2, <1>3, <1>4

\* Every step preserves the exclusion: a job enters the registry only at its launch,
\* and leaves it with the only thread that works for it.
LEMMA ExclusiveStep ==
    ASSUME TypeOK, Exclusive, [Next]_vars
    PROVE  Exclusive'
<1> USE DEF Exclusive
<1>1. CASE \E t \in Threads : Launch(t)
  <2>1. PICK t \in Threads : Launch(t)
    BY <1>1
  <2>2. /\ disp.job \notin registry
        /\ registry' = registry \cup {disp.job}
        /\ thread' = [thread EXCEPT ![t] = [pc |-> "start", job |-> disp.job]]
        /\ thread[t].pc = "none"
    BY <2>1 DEF Launch, LaunchFindsJobIdle
  <2>3. /\ thread'[t].pc = "start" /\ thread'[t].job = disp.job
        /\ \A u \in Threads : u # t => thread'[u] = thread[u]
    BY <2>2 DEF TypeOK
  <2>4. \A u \in Threads : thread[u].pc \in RegisteredPCs => thread[u].job # disp.job
    BY <2>2 DEF RegistryTruthful
  <2>5. OneWorkerPerJob'
    BY <2>3, <2>4 DEF OneWorkerPerJob
  <2>6. RegistryTruthful'
    BY <2>2, <2>3 DEF RegistryTruthful, RegisteredPCs
  <2>7. disp'.pc # "launch"
    BY <2>1, AdvanceType DEF Launch, TypeOK
  <2> QED
    BY <2>5, <2>6, <2>7 DEF LaunchFindsJobIdle
<1>2. CASE ClaimNext
  <2>1. registry' = registry /\ thread' = thread /\ disp'.job \notin registry
    BY <1>2 DEF ClaimNext, IsBest, Claimable, TypeOK
  <2> QED
    BY <2>1 DEF RegistryTruthful, OneWorkerPerJob, LaunchFindsJobIdle
<1>3. CASE \/ RecvWake \/ Reconcile \/ AcquireSlot \/ NoSlot
           \/ ClaimNothing \/ ClaimError \/ LaunchPanics
  <2>1. registry' = registry /\ thread' = thread /\ disp'.pc # "launch"
    BY <1>3, AdvanceType DEF RecvWake, Reconcile, AcquireSlot, NoSlot, ClaimNothing,
       ClaimError, LaunchPanics, Idle, TypeOK
  <2> QED
    BY <2>1 DEF RegistryTruthful, OneWorkerPerJob, LaunchFindsJobIdle
<1>4. ASSUME NEW t \in Threads, WorkerStep(t) PROVE Exclusive'
  <2>1. CASE WorkerUnlist(t)
    <3>1. /\ thread[t].pc = "unlist"
          /\ registry' = registry \ {thread[t].job}
          /\ thread'[t].pc = "release"
          /\ \A u \in Threads : u # t => thread'[u] = thread[u]
          /\ disp' = disp
      BY <2>1 DEF WorkerUnlist, Goto, TypeOK
    <3>2. \A u \in Threads :
             thread[u].pc \in RegisteredPCs /\ u # t => thread[u].job # thread[t].job
      BY <3>1 DEF OneWorkerPerJob, RegisteredPCs
    <3>3. RegistryTruthful'
      BY <3>1, <3>2 DEF RegistryTruthful, RegisteredPCs
    <3>4. OneWorkerPerJob'
      BY <3>1 DEF OneWorkerPerJob, RegisteredPCs
    <3> QED
      BY <3>1, <3>3, <3>4 DEF LaunchFindsJobIdle
  <2>2. CASE WorkerRelease(t) \/ WorkerWake(t)
    <3>1. /\ thread[t].pc \notin RegisteredPCs
          /\ thread'[t].pc \notin RegisteredPCs
          /\ \A u \in Threads : u # t => thread'[u] = thread[u]
          /\ disp' = disp /\ registry' = registry
      BY <2>2 DEF WorkerRelease, WorkerWake, Goto, NoThread, TypeOK, RegisteredPCs
    <3> QED
      BY <3>1 DEF RegistryTruthful, OneWorkerPerJob, LaunchFindsJobIdle
  <2>3. CASE ~WorkerUnlist(t) /\ ~WorkerRelease(t) /\ ~WorkerWake(t)
    <3>1. /\ thread[t].pc \in RegisteredPCs
          /\ \E pc \in RegisteredPCs : Goto(t, pc)
          /\ UNCHANGED <<registry, disp>>
      BY <1>4, <2>3, WorkerMoves
    <3>2. /\ thread'[t].pc \in RegisteredPCs /\ thread'[t].job = thread[t].job
          /\ \A u \in Threads : u # t => thread'[u] = thread[u]
      BY <3>1 DEF Goto, TypeOK
    <3> QED
      BY <3>1, <3>2 DEF RegistryTruthful, OneWorkerPerJob, LaunchFindsJobIdle
  <2> QED
    BY <2>1, <2>2, <2>3
<1>5. CASE Restart
  <2>1. registry' = {} /\ disp'.pc = "idle" /\ \A t \in Threads : thread'[t].pc = "none"
    BY <1>5 DEF Restart, Idle, NoThread
  <2> QED
    BY <2>1 DEF RegistryTruthful, OneWorkerPerJob, LaunchFindsJobIdle, RegisteredPCs
<1>6. CASE \/ \E j \in Jobs : ResumerStep(j) \/ DeleterStep(j)
           \/ CommandStep \/ InstallGlobal \/ UNCHANGED vars
  BY <1>6, OthersKeepThreads DEF RegistryTruthful, OneWorkerPerJob, LaunchFindsJobIdle
<1> QED
  BY <1>1, <1>2, <1>3, <1>4, <1>5, <1>6 DEF Next, DispatcherStep

\* The exclusion invariant holds of every reachable state.
LEMMA ExclusiveAlways == Spec => []Exclusive
<1>1. Init => Exclusive
  BY DEF Init, Exclusive, RegistryTruthful, OneWorkerPerJob, LaunchFindsJobIdle,
         NoThread, Idle, RegisteredPCs
<1> QED
  BY <1>1, TypeCorrect, ExclusiveStep, PTL DEF Spec

\* No job ever has two workers, for any number of jobs, threads and commands.
THEOREM NeverTwoWorkers == Spec => []OneWorkerPerJob
BY ExclusiveAlways, PTL DEF Exclusive

\* The registry is exact: it names the jobs that have a worker, no more and no less.
THEOREM RegistryCorrect == Spec => []RegistryTruthful
BY ExclusiveAlways, PTL DEF Exclusive

\* What the claim read in the registry is still true at the launch.
THEOREM LaunchIsSafe == Spec => []LaunchFindsJobIdle
BY ExclusiveAlways, PTL DEF Exclusive

(***************************************************************************)
(* Permit accounting.  A kind's counter follows the set of its holders:    *)
(* one thread joins at a launch (the dispatcher hands its own permit over) *)
(* and one leaves when it releases; everything else keeps the set.         *)
(***************************************************************************)
\* The holders can be counted.
LEMMA HoldersFinite ==
    ASSUME NEW k
    PROVE  IsFiniteSet(Holders(k)) /\ Cardinality(Holders(k)) \in Nat
BY ThreadsAssumption, FS_Subset, FS_CardinalityType DEF Holders

\* Every step changes a slot counter exactly as it changes the holders of the slot.
LEMMA AccountingStep ==
    ASSUME TypeOK, LaunchFindsJobIdle, PermitAccounting, [Next]_vars
    PROVE  PermitAccounting'
<1> SUFFICES ASSUME NEW k \in Kinds
             PROVE  inUse'[k] = Cardinality(Holders(k)') + DispatcherHolds(k)'
  BY DEF PermitAccounting
<1>0. /\ inUse[k] = Cardinality(Holders(k)) + DispatcherHolds(k)
      /\ Cardinality(Holders(k)) \in Nat
      /\ inUse \in [Kinds -> Nat]
  BY HoldersFinite DEF PermitAccounting, TypeOK
<1>1. ASSUME NEW t \in Threads, Launch(t)
      PROVE  inUse'[k] = Cardinality(Holders(k)') + DispatcherHolds(k)'
  <2>1. /\ thread' = [thread EXCEPT ![t] = [pc |-> "start", job |-> disp.job]]
        /\ thread[t].pc = "none" /\ disp.pc = "launch" /\ inUse' = inUse
        /\ KindOf(disp.job) = disp.kind
    BY <1>1 DEF Launch, LaunchFindsJobIdle, TypeOK
  <2>2. disp'.pc \in {"acquire", "idle"}
    BY <1>1, AdvanceType DEF Launch, TypeOK
  <2>3. /\ thread'[t].pc = "start" /\ thread'[t].job = disp.job
        /\ \A u \in Threads : u # t => thread'[u] = thread[u]
    BY <2>1 DEF TypeOK
  <2>4. t \notin Holders(k)
    BY <2>1 DEF Holders, HoldingPCs, RegisteredPCs
  <2>5. CASE disp.kind = k
    <3>1. Holders(k)' = Holders(k) \cup {t}
      BY <2>1, <2>3, <2>5 DEF Holders, HoldingPCs, RegisteredPCs
    <3>2. Cardinality(Holders(k)') = Cardinality(Holders(k)) + 1
      BY <3>1, <2>4, HoldersFinite, FS_AddElement
    <3>3. DispatcherHolds(k) = 1 /\ DispatcherHolds(k)' = 0
      BY <2>1, <2>2, <2>5 DEF DispatcherHolds
    <3> QED
      BY <1>0, <2>1, <3>2, <3>3
  <2>6. CASE disp.kind # k
    <3>1. Holders(k)' = Holders(k)
      BY <2>1, <2>3, <2>6 DEF Holders, HoldingPCs, RegisteredPCs
    <3>2. DispatcherHolds(k) = 0 /\ DispatcherHolds(k)' = 0
      BY <2>2, <2>6 DEF DispatcherHolds
    <3> QED
      BY <1>0, <2>1, <3>1, <3>2
  <2> QED
    BY <2>5, <2>6
<1>2. CASE DispatcherStep \/ ClaimError
  <2>1. CASE \E t \in Threads : Launch(t)
    BY <1>1, <2>1
  <2>2. CASE ~\E t \in Threads : Launch(t)
    <3>1. thread' = thread
      BY <1>2, <2>2 DEF DispatcherStep, RecvWake, Reconcile, AcquireSlot, NoSlot, ClaimNext,
         ClaimNothing, ClaimError, LaunchPanics
    <3>2. Holders(k)' = Holders(k)
      BY <3>1 DEF Holders
    <3>3. CASE RecvWake \/ Reconcile \/ NoSlot
      <4>1. inUse' = inUse /\ DispatcherHolds(k) = 0
        BY <3>3 DEF RecvWake, Reconcile, NoSlot, DispatcherHolds
      <4>2. disp'.pc \in {"acquire", "idle"}
        BY <3>3, AdvanceType DEF RecvWake, Reconcile, NoSlot, Idle, TypeOK
      <4>3. DispatcherHolds(k)' = 0
        BY <4>2 DEF DispatcherHolds
      <4> QED
        BY <1>0, <3>2, <4>1, <4>3
    <3>4. CASE AcquireSlot
      <4>1. /\ disp.pc = "acquire" /\ disp'.pc = "claim" /\ disp'.kind = disp.kind
            /\ inUse' = [inUse EXCEPT ![disp.kind] = @ + 1]
        BY <3>4 DEF AcquireSlot, TypeOK
      <4> QED
        BY <1>0, <3>2, <4>1 DEF DispatcherHolds
    <3>5. CASE ClaimNext
      <4>1. /\ disp.pc = "claim" /\ disp'.pc = "launch" /\ disp'.kind = disp.kind
            /\ inUse' = inUse
        BY <3>5 DEF ClaimNext, TypeOK
      <4> QED
        BY <1>0, <3>2, <4>1 DEF DispatcherHolds
    <3>6. CASE ClaimNothing \/ ClaimError \/ LaunchPanics
      <4>1. disp.pc \in {"claim", "launch"} /\ Release(disp.kind) /\ disp.kind \in Kinds
        BY <3>6 DEF ClaimNothing, ClaimError, LaunchPanics, TypeOK
      <4>2. disp'.pc \in {"acquire", "idle", "dead"}
        BY <3>6, AdvanceType DEF ClaimNothing, ClaimError, LaunchPanics, Idle, TypeOK
      <4>3. DispatcherHolds(k) = (IF disp.kind = k THEN 1 ELSE 0) /\ DispatcherHolds(k)' = 0
        BY <4>1, <4>2 DEF DispatcherHolds
      <4> QED
        BY <1>0, <3>2, <4>1, <4>3 DEF Release
    <3> QED
      BY <1>2, <2>2, <3>3, <3>4, <3>5, <3>6 DEF DispatcherStep
  <2> QED
    BY <2>1, <2>2
<1>3. ASSUME NEW t \in Threads, WorkerStep(t)
      PROVE  inUse'[k] = Cardinality(Holders(k)') + DispatcherHolds(k)'
  <2>1. CASE WorkerRelease(t)
    <3>1. /\ thread[t].pc = "release" /\ thread'[t].pc = "wake"
          /\ \A u \in Threads : u # t => thread'[u] = thread[u]
          /\ Release(KindOf(thread[t].job)) /\ disp' = disp
      BY <2>1 DEF WorkerRelease, Goto, TypeOK
    <3>2. DispatcherHolds(k)' = DispatcherHolds(k) /\ DispatcherHolds(k) \in Nat
      BY <3>1 DEF DispatcherHolds
    <3>3. CASE KindOf(thread[t].job) = k
      <4>1. t \in Holders(k) /\ Holders(k)' = Holders(k) \ {t}
        BY <3>1, <3>3 DEF Holders, HoldingPCs, RegisteredPCs
      <4>2. Cardinality(Holders(k)') = Cardinality(Holders(k)) - 1
        BY <4>1, HoldersFinite, FS_RemoveElement
      <4>3. Cardinality(Holders(k)') \in Nat
        BY <4>1, HoldersFinite, FS_RemoveElement, FS_CardinalityType
      <4> QED
        BY <1>0, <3>1, <3>2, <3>3, <4>2, <4>3 DEF Release
    <3>4. CASE KindOf(thread[t].job) # k
      <4>1. Holders(k)' = Holders(k)
        BY <3>1, <3>4 DEF Holders, HoldingPCs, RegisteredPCs
      <4> QED
        BY <1>0, <3>1, <3>2, <3>4, <4>1, KindType DEF Release
    <3> QED
      BY <3>3, <3>4
  <2>2. CASE WorkerUnlist(t) \/ WorkerWake(t)
    <3>1. /\ thread'[t].pc \in HoldingPCs <=> thread[t].pc \in HoldingPCs
          /\ thread[t].pc \in HoldingPCs => thread'[t].job = thread[t].job
          /\ \A u \in Threads : u # t => thread'[u] = thread[u]
          /\ inUse' = inUse /\ disp' = disp
      BY <2>2 DEF WorkerUnlist, WorkerWake, Goto, NoThread, TypeOK, HoldingPCs, RegisteredPCs
    <3>2. Holders(k)' = Holders(k)
      BY <3>1 DEF Holders
    <3> QED
      BY <1>0, <3>1, <3>2 DEF DispatcherHolds
  <2>3. CASE ~WorkerUnlist(t) /\ ~WorkerRelease(t) /\ ~WorkerWake(t)
    <3>1. /\ thread[t].pc \in RegisteredPCs
          /\ \E pc \in RegisteredPCs : Goto(t, pc)
          /\ UNCHANGED <<inUse, disp>>
      BY <1>3, <2>3, WorkerMoves
    <3>2. /\ thread'[t].pc \in RegisteredPCs /\ thread'[t].job = thread[t].job
          /\ \A u \in Threads : u # t => thread'[u] = thread[u]
      BY <3>1 DEF Goto, TypeOK
    <3>3. Holders(k)' = Holders(k)
      BY <3>1, <3>2 DEF Holders, HoldingPCs
    <3> QED
      BY <1>0, <3>1, <3>3 DEF DispatcherHolds
  <2> QED
    BY <2>1, <2>2, <2>3
<1>4. CASE Restart
  <2>1. Holders(k)' = {} /\ inUse'[k] = 0 /\ DispatcherHolds(k)' = 0
    BY <1>4 DEF Restart, Holders, HoldingPCs, RegisteredPCs, NoThread, Idle, DispatcherHolds
  <2> QED
    BY <2>1, FS_EmptySet
<1>5. CASE \/ \E j \in Jobs : ResumerStep(j) \/ DeleterStep(j)
           \/ CommandStep \/ InstallGlobal \/ UNCHANGED vars
  BY <1>0, <1>5, OthersKeepThreads DEF Holders, DispatcherHolds
<1> QED
  BY <1>2, <1>3, <1>4, <1>5 DEF Next

\* A slot counter never leaks and never loses a permit, so a kind can neither
\* starve nor run more workers than permits, for every limit and any crash.
THEOREM PermitsAccounted == Spec => []PermitAccounting
<1>1. Init => PermitAccounting
  <2> SUFFICES ASSUME Init, NEW k \in Kinds
               PROVE  inUse[k] = Cardinality(Holders(k)) + DispatcherHolds(k)
    BY DEF PermitAccounting
  <2>1. Holders(k) = {} /\ DispatcherHolds(k) = 0 /\ inUse[k] = 0
    BY DEF Init, Holders, HoldingPCs, RegisteredPCs, NoThread, Idle, DispatcherHolds
  <2> QED
    BY <2>1, FS_EmptySet
<1>2. Spec => []LaunchFindsJobIdle
  BY ExclusiveAlways, PTL DEF Exclusive
<1> QED
  BY <1>1, <1>2, TypeCorrect, AccountingStep, PTL DEF Spec

(***************************************************************************)
(* The window.  Active jobs of a kind are fewer than its permits, permits  *)
(* never exceed the largest limit, and the largest limit fits the window.  *)
(***************************************************************************)
\* A limit is within what the settings accept, and the permits of a kind, although the limit
\* may fall below them, within what any limit accepts.
WithinLimits == \A k \in Kinds : limit[k] <= MaxLimit[k] /\ inUse[k] <= MaxLimit[k]

\* A new permit is given below the limit, and every other step keeps or drops permits.
LEMMA LimitsStep == ASSUME TypeOK, WithinLimits, [Next]_vars PROVE WithinLimits'
<1> USE LimitAssumption DEF WithinLimits, TypeOK
<1>1. CASE AcquireSlot
  BY <1>1 DEF AcquireSlot
<1>2. CASE ClaimNothing \/ ClaimError \/ LaunchPanics \/ \E t \in Threads : Launch(t)
  <2>1. UNCHANGED limit /\ (Release(disp.kind) \/ UNCHANGED inUse)
    BY <1>2 DEF ClaimNothing, ClaimError, LaunchPanics, Launch
  <2> QED
    BY <2>1 DEF Release
<1>3. CASE RecvWake \/ Reconcile \/ NoSlot \/ ClaimNext \/ UNCHANGED vars
  BY <1>3 DEF RecvWake, Reconcile, NoSlot, ClaimNext, vars
<1>4. ASSUME NEW t \in Threads, WorkerStep(t) PROVE WithinLimits'
  <2>1. UNCHANGED limit /\ (Release(KindOf(thread[t].job)) \/ UNCHANGED inUse)
    BY <1>4 DEF WorkerStep, WorkerStart, WorkerFinish, WorkerSeesStop, WorkerError,
       WorkerReadsStatus, WorkerFail, AdvanceBatch, WorkerUnlist, WorkerRelease, WorkerWake
  <2> QED
    BY <2>1, KindType DEF Release
<1>5. CASE CommandStep \/ InstallGlobal \/ \E j \in Jobs : ResumerStep(j) \/ DeleterStep(j)
  <2>1. CASE \E k \in Kinds : \E n \in 1 .. MaxLimit[k] : UpdateConcurrency(k, n)
    BY <2>1 DEF UpdateConcurrency
  <2>2. CASE ~\E k \in Kinds : \E n \in 1 .. MaxLimit[k] : UpdateConcurrency(k, n)
    <3>1. UNCHANGED <<limit, inUse>>
      BY <1>5, <2>2 DEF CommandStep, Enqueue, PauseJob, ResumeJob, StopJob, DeleteJob,
         ClearFinished, SetPriority, InstallGlobal, ResumerStep, ResumerStarts,
         ResumerGivesUp, DeleterStep
    <3> QED
      BY <3>1
  <2> QED
    BY <2>1, <2>2
<1>6. CASE Restart
  BY <1>6 DEF Restart
<1> QED
  BY <1>1, <1>2, <1>3, <1>4, <1>5, <1>6 DEF Next, DispatcherStep

\* The jobs of a kind that have a worker.
Working(k) == {j \in registry : KindOf(j) = k}

\* While the dispatcher holds a permit to claim with, fewer jobs of its kind are at work than
\* the window has rows: each of them has a thread with a permit of its own.
LEMMA WorkFitsTheWindow ==
    ASSUME TypeOK, RegistryTruthful, PermitAccounting, WithinLimits, disp.pc = "claim"
    PROVE  /\ IsFiniteSet(Working(disp.kind)) /\ Cardinality(Working(disp.kind)) \in Nat
           /\ Cardinality(Working(disp.kind)) < Window
<1> DEFINE k == disp.kind
           AtWork == {t \in Threads : thread[t].pc \in RegisteredPCs /\ KindOf(thread[t].job) = k}
           jobOf == [t \in AtWork |-> thread[t].job]
<1>1. IsFiniteSet(AtWork) /\ IsFiniteSet(Holders(k)) /\ Cardinality(AtWork) <= Cardinality(Holders(k))
  BY HoldersFinite, FS_Subset DEF Holders, HoldingPCs
<1>2. jobOf \in Surjection(AtWork, Working(k))
  BY DEF RegistryTruthful, Working, Surjection
<1>3. /\ IsFiniteSet(Working(k)) /\ Cardinality(Working(k)) <= Cardinality(AtWork)
      /\ Cardinality(Working(k)) \in Nat /\ Cardinality(AtWork) \in Nat
  BY <1>1, <1>2, FS_Surjection, FS_CardinalityType
<1>4. k \in Kinds /\ inUse[k] = Cardinality(Holders(k)) + 1 /\ inUse[k] <= MaxLimit[k]
  BY DEF TypeOK, PermitAccounting, DispatcherHolds, WithinLimits
<1>5. MaxLimit[k] \in Nat /\ MaxLimit[k] <= Window /\ Window \in Nat
  BY <1>4, LimitAssumption, WindowAssumption
<1>6. Cardinality(Holders(k)) \in Nat
  BY HoldersFinite
<1> QED
  BY <1>1, <1>3, <1>4, <1>5, <1>6

\* The candidates that come before a job.
Earlier(j, k) == {i \in Candidates(k) : Before(i, j)}

\* The order of the query is a strict one.
LEMMA OrderIsStrict ==
    ASSUME TypeOK, NEW i \in Jobs, NEW j \in Jobs, Before(i, j)
    PROVE  /\ ~Before(i, i)
           /\ \A h \in Jobs : Before(h, i) => Before(h, j)
<1>1. \A h \in Jobs : h \in Nat /\ Rank(priority[h]) \in 0 .. 2
  BY JobsAssumption DEF TypeOK, Priorities, Rank
<1> QED
  BY <1>1 DEF Before

\* Of the candidates nobody works for, one has only working ones before it.
LEMMA FirstIdle ==
    ASSUME TypeOK, NEW k \in Kinds, Candidates(k) \ registry # {}
    PROVE  \E j \in Candidates(k) \ registry : Earlier(j, k) \subseteq Working(k)
<1> DEFINE Idles == Candidates(k) \ registry
           Befores == {Earlier(j, k) : j \in Idles}
<1>1. Befores \subseteq FiniteSubsetsOf(Jobs) /\ Befores # {}
  <2>1. \A j \in Idles : Earlier(j, k) \in SUBSET Jobs
    BY DEF Earlier, Candidates
  <2> QED
    BY <2>1, JobsAssumption, FS_FiniteSubsetsOfFinite
<1>2. PICK s \in Befores : \A t \in Befores : ~(<<t, s>> \in StrictSubsetOrdering(Jobs))
  <2> HIDE DEF Befores
  <2> QED
    BY <1>1, FS_StrictSubsetOrderingWellFounded, WFMin
<1>3. PICK j \in Idles : s = Earlier(j, k)
  OBVIOUS
<1>4. ASSUME NEW i \in Earlier(j, k), i \notin registry PROVE FALSE
  <2>1. i \in Idles /\ i \in Jobs /\ j \in Jobs /\ Before(i, j)
    BY <1>4 DEF Earlier, Candidates
  <2>2. Earlier(i, k) \subseteq Earlier(j, k)
    BY <2>1, OrderIsStrict DEF Earlier, Candidates
  <2>3. i \in Earlier(j, k) /\ i \notin Earlier(i, k)
    BY <2>1, OrderIsStrict DEF Earlier
  <2>4. Earlier(i, k) \in SUBSET Jobs /\ Earlier(j, k) \in SUBSET Jobs
    BY DEF Earlier, Candidates
  <2>5. <<Earlier(i, k), Earlier(j, k)>> \in StrictSubsetOrdering(Jobs)
    BY <2>2, <2>3, <2>4 DEF StrictSubsetOrdering
  <2> QED
    BY <1>2, <1>3, <2>1, <2>5
<1>5. Earlier(j, k) \subseteq Working(k)
  BY <1>4 DEF Earlier, Working, Candidates
<1> QED
  BY <1>5

\* The LIMIT of the query never hides an idle job behind active ones, whatever the limits,
\* their changes and the priorities: the rows of the window are more than the workers.
THEOREM WindowIsWide == Spec => []WindowHidesNothing
<1>1. Init => WithinLimits
  BY LimitAssumption DEF Init, WithinLimits
<1>2. TypeOK /\ RegistryTruthful /\ PermitAccounting /\ WithinLimits => WindowHidesNothing
  <2> SUFFICES ASSUME TypeOK, RegistryTruthful, PermitAccounting, WithinLimits, disp.pc = "claim",
                      Candidates(disp.kind) \ registry # {}
               PROVE  Claimable(disp.kind) # {}
    BY DEF WindowHidesNothing
  <2> DEFINE k == disp.kind
  <2>1. PICK j \in Candidates(k) \ registry : Earlier(j, k) \subseteq Working(k)
    BY FirstIdle DEF TypeOK
  <2>2. Cardinality(Earlier(j, k)) <= Cardinality(Working(k)) /\ Cardinality(Earlier(j, k)) \in Nat
    BY <2>1, WorkFitsTheWindow, FS_Subset, FS_CardinalityType
  <2>3. Cardinality(Earlier(j, k)) < Window
    BY <2>2, WorkFitsTheWindow, WindowAssumption
  <2> QED
    BY <2>1, <2>3 DEF Claimable, InWindow, Earlier
<1>3. Spec => []WithinLimits
  BY <1>1, TypeCorrect, LimitsStep, PTL DEF Spec
<1> QED
  BY <1>2, <1>3, TypeCorrect, RegistryCorrect, PermitsAccounted, PTL
=============================================================================
