---------------------------- MODULE HttpJobProof ----------------------------
(***************************************************************************)
(* Theorems about HttpJob, for any number of workers, any file size and    *)
(* any number of commands and crashes: typing, one writer at a time, files *)
(* removed only when idle, and the user's stop never overridden; and that  *)
(* it implements the contract of a download.                               *)
(***************************************************************************)
EXTENDS HttpJob, TLAPS

USE DEF Absent

\* A worker step moves one worker that was running, and nobody else.
LEMMA WorkerMoves ==
    ASSUME TypeOK, NEW w \in Workers, WorkerStep(w) \/ WorkerCommitFails(w)
    PROVE  /\ pc' \in [Workers -> WorkerPCs]
           /\ lease' \in [Workers -> Nat] /\ down' \in [Workers -> Nat]
           /\ stale' \in [Workers -> BOOLEAN]
           /\ pc[w] # "none"
           /\ \A u \in Workers \ {w} : pc'[u] = pc[u] /\ lease'[u] = lease[u]
<1> USE DEF TypeOK, WorkerPCs, LeasedPCs, FilePCs, ErrorPCs, Goto, Jump, Arrive, Err,
            StaleErr, Unleased, local
<1>1. CASE WorkerStart(w)
  BY <1>1, SizeAssumption DEF WorkerStart
<1>2. CASE WorkerLock(w)
  BY <1>2, SizeAssumption DEF WorkerLock
<1>3. CASE WorkerOpen(w)
  <2>1. pc' \in [Workers -> WorkerPCs] /\ pc[w] # "none"
    BY <1>3, SizeAssumption DEF WorkerOpen, Existing
  <2>2. lease' \in [Workers -> Nat] /\ down' \in [Workers -> Nat]
    BY <1>3, SizeAssumption DEF WorkerOpen, Existing
  <2>3. stale' \in [Workers -> BOOLEAN]
    BY <1>3, SizeAssumption DEF WorkerOpen, Existing
  <2>4. \A u \in Workers \ {w} : pc'[u] = pc[u] /\ lease'[u] = lease[u]
    BY <1>3, SizeAssumption DEF WorkerOpen, Existing
  <2> QED
    BY <1>3, <2>1, <2>2, <2>3, <2>4 DEF WorkerOpen
<1>4. CASE WorkerTransportError(w)
  BY <1>4, SizeAssumption DEF WorkerTransportError
<1>5. CASE WorkerLoop(w)
  BY <1>5, SizeAssumption DEF WorkerLoop
<1>6. CASE WorkerWrite(w)
  <2>1. pc' \in [Workers -> WorkerPCs] /\ pc[w] # "none"
    BY <1>6, SizeAssumption DEF WorkerWrite
  <2>2. lease' \in [Workers -> Nat] /\ down' \in [Workers -> Nat]
    BY <1>6, SizeAssumption DEF WorkerWrite
  <2>3. stale' \in [Workers -> BOOLEAN]
    BY <1>6, SizeAssumption DEF WorkerWrite
  <2>4. \A u \in Workers \ {w} : pc'[u] = pc[u] /\ lease'[u] = lease[u]
    BY <1>6, SizeAssumption DEF WorkerWrite
  <2> QED
    BY <1>6, <2>1, <2>2, <2>3, <2>4 DEF WorkerWrite
<1>7. CASE WorkerMark(w)
  BY <1>7, SizeAssumption DEF WorkerMark
<1>8. CASE WorkerCheck(w)
  BY <1>8, SizeAssumption DEF WorkerCheck
<1>9. CASE WorkerRename(w)
  BY <1>9, SizeAssumption DEF WorkerRename
<1>10. CASE WorkerOwned(w)
  BY <1>10, SizeAssumption DEF WorkerOwned
<1>11. CASE WorkerCommit(w)
  BY <1>11, SizeAssumption DEF WorkerCommit
<1>12. CASE WorkerError(w)
  BY <1>12, SizeAssumption DEF WorkerError, Unlocked
<1>13. CASE WorkerRecover(w)
  BY <1>13, SizeAssumption DEF WorkerRecover
<1>14. CASE WorkerRecommit(w)
  BY <1>14, SizeAssumption DEF WorkerRecommit
<1>15. CASE WorkerReadStatus(w)
  BY <1>15, SizeAssumption DEF WorkerReadStatus
<1>16. CASE WorkerFail(w)
  BY <1>16, SizeAssumption DEF WorkerFail
<1>17. CASE WorkerUnlist(w)
  BY <1>17, SizeAssumption DEF WorkerUnlist
<1>18. CASE WorkerCommitFails(w)
  BY <1>18, SizeAssumption DEF WorkerCommitFails
<1> QED
  BY <1>1, <1>2, <1>3, <1>4, <1>5, <1>6, <1>7, <1>8, <1>9, <1>10,
     <1>11, <1>12, <1>13, <1>14, <1>15, <1>16, <1>17, <1>18
  DEF WorkerStep

\* What a worker step leaves alone, and what it can make of the status: it never moves
\* a stopped job, and it neither creates nor deletes the row.
LEMMA WorkerKeeps ==
    ASSUME TypeOK, NEW w \in Workers, WorkerStep(w) \/ WorkerCommitFails(w)
    PROVE  /\ UNCHANGED <<dispatcher, cmd, cleaner, deleter>>
           /\ status' \in {status, "running", "completed", "failed"}
           /\ status \in Stopped \cup {"gone"} => status' = status
<1> USE DEF Elsewhere, KeepRow, row, threads, CommitRow, MayCommit, NoRow, Stopped
<1>1. CASE WorkerStart(w)
  BY <1>1 DEF WorkerStart
<1>2. CASE WorkerLock(w)
  BY <1>2 DEF WorkerLock
<1>3. CASE WorkerOpen(w)
  BY <1>3 DEF WorkerOpen
<1>4. CASE WorkerTransportError(w)
  BY <1>4 DEF WorkerTransportError
<1>5. CASE WorkerLoop(w)
  BY <1>5 DEF WorkerLoop
<1>6. CASE WorkerWrite(w)
  BY <1>6 DEF WorkerWrite
<1>7. CASE WorkerMark(w)
  BY <1>7 DEF WorkerMark
<1>8. CASE WorkerCheck(w)
  BY <1>8 DEF WorkerCheck
<1>9. CASE WorkerRename(w)
  BY <1>9 DEF WorkerRename
<1>10. CASE WorkerOwned(w)
  BY <1>10 DEF WorkerOwned
<1>11. CASE WorkerCommit(w)
  BY <1>11 DEF WorkerCommit
<1>12. CASE WorkerError(w)
  BY <1>12 DEF WorkerError
<1>13. CASE WorkerRecover(w)
  BY <1>13 DEF WorkerRecover
<1>14. CASE WorkerRecommit(w)
  BY <1>14 DEF WorkerRecommit
<1>15. CASE WorkerReadStatus(w)
  BY <1>15 DEF WorkerReadStatus
<1>16. CASE WorkerFail(w)
  BY <1>16 DEF WorkerFail, Recoverable
<1>17. CASE WorkerUnlist(w)
  BY <1>17 DEF WorkerUnlist
<1>18. CASE WorkerCommitFails(w)
  BY <1>18 DEF WorkerCommitFails
<1> QED
  BY <1>1, <1>2, <1>3, <1>4, <1>5, <1>6, <1>7, <1>8, <1>9, <1>10,
     <1>11, <1>12, <1>13, <1>14, <1>15, <1>16, <1>17, <1>18
  DEF WorkerStep

\* The rest of a worker step keeps its types too.
LEMMA WorkerTypes ==
    ASSUME TypeOK, NEW w \in Workers, WorkerStep(w) \/ WorkerCommitFails(w)
    PROVE  /\ generation' \in Nat /\ token' \in Nat
           /\ finalization' \in {"none", "downloading", "finalizing"}
           /\ total' \in BOOLEAN
           /\ temp' \in Nat \cup {Absent} /\ dest' \in Nat \cup {Absent}
           /\ registry' \in BOOLEAN
           /\ writerLock' \in Workers \cup {NoWorker}
           /\ ops' \in Nat
<1> USE DEF Elsewhere, KeepRow, KeepFiles, row, files, CommitRow, TypeOK
<1>1. CASE WorkerStart(w)
  BY <1>1 DEF WorkerStart
<1>2. CASE WorkerLock(w)
  BY <1>2 DEF WorkerLock
<1>3. CASE WorkerOpen(w)
  <2>1. temp' \in Nat \cup {Absent}
    BY <1>3 DEF WorkerOpen, Existing
  <2>2. total' \in BOOLEAN
    BY <1>3 DEF WorkerOpen, Existing
  <2> QED
    BY <1>3, <2>1, <2>2 DEF WorkerOpen
<1>4. CASE WorkerTransportError(w)
  BY <1>4 DEF WorkerTransportError
<1>5. CASE WorkerLoop(w)
  BY <1>5 DEF WorkerLoop
<1>6. CASE WorkerWrite(w)
  BY <1>6 DEF WorkerWrite
<1>7. CASE WorkerMark(w)
  BY <1>7 DEF WorkerMark
<1>8. CASE WorkerCheck(w)
  BY <1>8 DEF WorkerCheck
<1>9. CASE WorkerRename(w)
  BY <1>9 DEF WorkerRename
<1>10. CASE WorkerOwned(w)
  BY <1>10 DEF WorkerOwned
<1>11. CASE WorkerCommit(w)
  BY <1>11 DEF WorkerCommit
<1>12. CASE WorkerError(w)
  BY <1>12 DEF WorkerError, Unlocked
<1>13. CASE WorkerRecover(w)
  BY <1>13 DEF WorkerRecover
<1>14. CASE WorkerRecommit(w)
  BY <1>14 DEF WorkerRecommit
<1>15. CASE WorkerReadStatus(w)
  BY <1>15 DEF WorkerReadStatus
<1>16. CASE WorkerFail(w)
  BY <1>16 DEF WorkerFail
<1>17. CASE WorkerUnlist(w)
  BY <1>17 DEF WorkerUnlist
<1>18. CASE WorkerCommitFails(w)
  BY <1>18, BudgetAssumption DEF WorkerCommitFails
<1> QED
  BY <1>1, <1>2, <1>3, <1>4, <1>5, <1>6, <1>7, <1>8, <1>9, <1>10,
     <1>11, <1>12, <1>13, <1>14, <1>15, <1>16, <1>17, <1>18
  DEF WorkerStep

\* Every variable keeps its type: TypeOK is inductive on its own.
LEMMA TypeInit == ASSUME Init PROVE TypeOK
<1>1. /\ pc \in [Workers -> WorkerPCs] /\ lease \in [Workers -> Nat]
      /\ down \in [Workers -> Nat]
  BY DEF Init, WorkerPCs
<1>2. stale \in [Workers -> BOOLEAN]
  BY DEF Init
<1>3. cmd.pc = "idle" /\ deleter.pc = "off"
  BY DEF Init, NoCommand, DeleterOff
<1> QED
  BY <1>1, <1>2, <1>3 DEF Init, TypeOK, Statuses, NoCommand, DeleterOff

\* A step of any actor keeps every type.
LEMMA TypeStep == ASSUME TypeOK, [Next]_vars PROVE TypeOK'
<1>1. CASE DispatcherStep
  <2>1. CASE Claim
    BY <2>1 DEF Claim, TypeOK, Statuses, files, threads, local
  <2>2. ASSUME NEW w \in Workers, Launch(w) PROVE TypeOK'
    <3>1. pc' \in [Workers -> WorkerPCs]
      BY <2>2 DEF Launch, TypeOK, WorkerPCs
    <3>2. registry' \in BOOLEAN /\ status' \in Statuses
      BY <2>2 DEF Launch, TypeOK, Statuses
    <3> QED
      BY <2>2, <3>1, <3>2 DEF Launch, TypeOK, files, threads, local
  <2> QED
    BY <1>1, <2>1, <2>2 DEF DispatcherStep
<1>2. ASSUME NEW w \in Workers, WorkerStep(w) \/ WorkerCommitFails(w) PROVE TypeOK'
  <2>1. status' \in Statuses
    BY <1>2, WorkerKeeps DEF TypeOK, Statuses
  <2> QED
    BY <1>2, <2>1, WorkerMoves, WorkerKeeps, WorkerTypes DEF TypeOK
<1>3. CASE Clicks
  <2> USE BudgetAssumption DEF Click, TypeOK, row, files, local
  <2>1. CASE ClickPause
    BY <2>1 DEF ClickPause
  <2>2. CASE ClickResume
    BY <2>2 DEF ClickResume
  <2>3. CASE ClickStop
    BY <2>3 DEF ClickStop
  <2>4. CASE ClickDelete
    BY <2>4 DEF ClickDelete
  <2>5. CASE ClickClear
    BY <2>5 DEF ClickClear
  <2> QED
    BY <1>3, <2>1, <2>2, <2>3, <2>4, <2>5 DEF Clicks
<1>4. CASE CommandStep
  <2> USE DEF CommandKeeps, Done, NoCommand, files, TypeOK, Statuses, local
  <2>1. CASE PauseWrite
    BY <2>1 DEF PauseWrite
  <2>2. CASE ResumeWrite
    BY <2>2 DEF ResumeWrite
  <2>3. CASE StopRead
    BY <2>3 DEF StopRead
  <2>4. CASE StopWrite
    BY <2>4 DEF StopWrite
  <2>5. CASE DeleteRead
    BY <2>5 DEF DeleteRead
  <2>6. CASE DeleteMark
    BY <2>6 DEF DeleteMark
  <2>7. CASE DeleteStorage
    BY <2>7 DEF DeleteStorage
  <2>8. CASE DeleteRow
    BY <2>8 DEF DeleteRow
  <2>9. CASE ClearFinished
    BY <2>9 DEF ClearFinished
  <2> QED
    BY <1>4, <2>1, <2>2, <2>3, <2>4, <2>5, <2>6, <2>7, <2>8, <2>9 DEF CommandStep
<1>5. CASE CleanerStep \/ DeleterStep
  <2> USE DEF ThreadKeeps, DeleterOff, files, TypeOK, Statuses, local
  <2>1. CASE CleanerWaits
    BY <2>1 DEF CleanerWaits
  <2>2. CASE CleanerRemoves
    BY <2>2 DEF CleanerRemoves
  <2>3. CASE DeleterWaits
    BY <2>3 DEF DeleterWaits
  <2>4. CASE DeleterRemoves
    BY <2>4 DEF DeleterRemoves
  <2>5. CASE DeleterPurges
    BY <2>5 DEF DeleterPurges
  <2> QED
    BY <1>5, <2>1, <2>2, <2>3, <2>4, <2>5 DEF CleanerStep, DeleterStep
<1>6. CASE Crash
  <2>1. /\ pc' \in [Workers -> WorkerPCs] /\ lease' \in [Workers -> Nat]
        /\ down' \in [Workers -> Nat]
    BY <1>6 DEF Crash, WorkerPCs
  <2>2. stale' \in [Workers -> BOOLEAN]
    BY <1>6 DEF Crash
  <2>3. registry' \in BOOLEAN /\ total' \in BOOLEAN
    BY <1>6 DEF Crash, TypeOK
  <2>4. temp' \in Nat \cup {Absent} /\ dest' \in Nat \cup {Absent}
    BY <1>6 DEF Crash, TypeOK, files
  <2> QED
    BY <1>6, <2>1, <2>2, <2>3, <2>4, BudgetAssumption
    DEF Crash, TypeOK, Statuses, NoCommand, DeleterOff, files
<1>7. CASE UNCHANGED vars
  BY <1>7 DEF vars, row, files, threads, local, TypeOK
<1> QED
  BY <1>1, <1>2, <1>3, <1>4, <1>5, <1>6, <1>7 DEF Next

\* Type correctness of HttpJob.
THEOREM TypeCorrect == Spec => []TypeOK
  BY TypeInit, TypeStep, PTL DEF Spec

\* The registry is set while a thread works, and one thread works at most.
Exclusive ==
    /\ \A w \in Workers : pc[w] # "none" => registry
    /\ \A w, u \in Workers : pc[w] # "none" /\ pc[u] # "none" => w = u

\* A worker that does nothing any more, or nothing yet.
Resting == {"none", "start", "unlist"}

\* Once a row is completed or failed no worker is left between claim and last write.
OverIsQuiet == status \in {"completed", "failed"} => \A w \in Workers : pc[w] \in Resting

\* The command in progress and the row agree: nothing is pending against a tombstone,
\* a cancelled row waits for its tombstone at most, and files are deleted at once only
\* for a row at rest.
CommandFits ==
    /\ status = "cancelled" => cmd.pc \notin {"pause", "stopRead", "stopWrite"}
    /\ status \in {"deleting", "gone"} => cmd.pc = "idle"
    /\ cmd.pc = "deleteMark" => status = "cancelled"
    /\ cmd.pc \in {"deleteStorage", "deleteRow"} =>
          /\ status \in {"completed", "cancelled", "failed"}
          /\ \A w \in Workers : pc[w] \in Resting

\* The detached threads only ever wait for a job the user has given up.
ThreadsFit ==
    /\ cleaner # "off" => status \in {"cancelled", "deleting", "gone"}
    /\ deleter.pc # "off" => status \in {"deleting", "gone"}

\* The inductive invariant.
Ownership == Exclusive /\ LeaseIsExclusive /\ OneWriter
Removal   == CommandFits /\ ThreadsFit /\ FilesRemovedOnlyWhenIdle
HttpInv   == TypeOK /\ Ownership /\ OverIsQuiet /\ Removal

\* What a step of a worker does to its own claim on the job: it becomes a holder of
\* the lease only from start, on a row that asks for work; as a holder it keeps the
\* row's generation and the lock; and it clears the registry only when it ends.
LEMMA WorkerOwns ==
    ASSUME TypeOK, Ownership, OverIsQuiet,
           NEW w \in Workers, WorkerStep(w) \/ WorkerCommitFails(w)
    PROVE  /\ pc'[w] \in LeasedPCs /\ status' # "gone" =>
                 generation' = lease'[w] /\ token' = lease'[w]
           /\ pc'[w] \in FilePCs \cup {"owned", "commit"} => writerLock' = w
           /\ pc'[w] \in LeasedPCs => pc[w] \in LeasedPCs \/ status \in {"queued", "running"}
           /\ pc'[w] \notin Resting =>
                 /\ pc[w] \notin Resting \/ status \in {"queued", "running", "gone"}
                 /\ status' \notin {"completed", "failed"}
           /\ pc[w] \in Resting => status' = status \/ status \in {"queued", "running"}
           /\ registry' = registry \/ pc'[w] = "none"
<1> USE DEF TypeOK, Ownership, LeaseIsExclusive, OneWriter, OverIsQuiet, NoRow,
            LeasedPCs, FilePCs, Resting, Goto, Jump, Arrive, Err, StaleErr, Unleased, local,
            KeepRow, KeepFiles, Elsewhere, row, files, CommitRow, Current, Stopped, Statuses
<1>1. CASE WorkerStart(w)
  BY <1>1 DEF WorkerStart
<1>2. CASE WorkerLock(w)
  BY <1>2 DEF WorkerLock
<1>3. CASE WorkerOpen(w)
  BY <1>3 DEF WorkerOpen, Existing
<1>4. CASE WorkerTransportError(w)
  BY <1>4 DEF WorkerTransportError
<1>5. CASE WorkerLoop(w)
  BY <1>5 DEF WorkerLoop
<1>6. CASE WorkerWrite(w)
  BY <1>6 DEF WorkerWrite
<1>7. CASE WorkerMark(w)
  BY <1>7 DEF WorkerMark
<1>8. CASE WorkerCheck(w)
  BY <1>8 DEF WorkerCheck
<1>9. CASE WorkerRename(w)
  BY <1>9 DEF WorkerRename
<1>10. CASE WorkerOwned(w)
  BY <1>10 DEF WorkerOwned
<1>11. CASE WorkerCommit(w)
  BY <1>11 DEF WorkerCommit
<1>12. CASE WorkerError(w)
  BY <1>12 DEF WorkerError, Unlocked
<1>13. CASE WorkerRecover(w)
  BY <1>13 DEF WorkerRecover
<1>14. CASE WorkerRecommit(w)
  BY <1>14 DEF WorkerRecommit
<1>15. CASE WorkerReadStatus(w)
  BY <1>15 DEF WorkerReadStatus
<1>16. CASE WorkerFail(w)
  BY <1>16 DEF WorkerFail
<1>17. CASE WorkerUnlist(w)
  BY <1>17 DEF WorkerUnlist
<1>18. CASE WorkerCommitFails(w)
  BY <1>18 DEF WorkerCommitFails
<1> QED
  BY <1>1, <1>2, <1>3, <1>4, <1>5, <1>6, <1>7, <1>8, <1>9, <1>10,
     <1>11, <1>12, <1>13, <1>14, <1>15, <1>16, <1>17, <1>18
  DEF WorkerStep

\* A worker step preserves the invariant: by exclusivity every other worker is
\* outside, so only the worker that moves can disturb it.
LEMMA WorkerPreserves ==
    ASSUME HttpInv, NEW w \in Workers, WorkerStep(w) \/ WorkerCommitFails(w)
    PROVE  Ownership' /\ OverIsQuiet' /\ Removal'
<1> USE DEF HttpInv
<1>1. \A u \in Workers \ {w} : pc'[u] = "none" /\ pc[u] = "none"
  BY WorkerMoves DEF Ownership, Exclusive
<1>2. "none" \notin LeasedPCs /\ "none" \notin FilePCs \cup {"owned", "commit"}
  BY DEF LeasedPCs, FilePCs
<1>3. Exclusive'
  BY <1>1, WorkerMoves, WorkerOwns DEF Ownership, Exclusive
<1>4. LeaseIsExclusive'
  BY <1>1, <1>2, WorkerOwns DEF LeaseIsExclusive, NoRow
<1>5. OneWriter'
  BY <1>1, <1>2, WorkerOwns DEF OneWriter
<1>6. OverIsQuiet'
  BY <1>1, WorkerOwns DEF OverIsQuiet, Resting
<1>7. UNCHANGED <<cmd, cleaner, deleter>>
  BY WorkerKeeps
<1>8. CommandFits'
  <2>1. CASE cmd.pc \in {"deleteStorage", "deleteRow"}
    <3>1. /\ status \in {"completed", "cancelled", "failed"}
          /\ \A u \in Workers : pc[u] \in Resting
      BY <2>1 DEF Removal, CommandFits
    <3>2. status' = status /\ pc'[w] \in Resting
      BY <3>1, WorkerOwns
    <3> QED
      BY <1>1, <1>7, <2>1, <3>1, <3>2 DEF CommandFits, Resting
  <2>2. CASE cmd.pc \notin {"deleteStorage", "deleteRow"}
    BY <1>7, <2>2, WorkerKeeps DEF Removal, CommandFits, Stopped
  <2> QED
    BY <2>1, <2>2
<1>9. ThreadsFit'
  BY <1>7, WorkerKeeps DEF Removal, ThreadsFit, Stopped
<1>10. FilesRemovedOnlyWhenIdle'
  <2> SUFFICES ASSUME cleaner = "remove" \/ deleter.pc = "remove" \/ cmd.pc = "deleteStorage"
               PROVE  \A u \in Workers : pc'[u] \notin LeasedPCs
    BY <1>7 DEF FilesRemovedOnlyWhenIdle
  <2>1. status \notin {"queued", "running"}
    BY DEF Removal, CommandFits, ThreadsFit
  <2>2. pc[w] \notin LeasedPCs
    BY DEF Removal, FilesRemovedOnlyWhenIdle
  <2> QED
    BY <1>1, <1>2, <2>1, <2>2, WorkerOwns
<1> QED
  BY <1>3, <1>4, <1>5, <1>6, <1>8, <1>9, <1>10 DEF Ownership, Removal

\* The dispatcher launches into an empty registry only, hence next to no other worker.
LEMMA LaunchPreserves ==
    ASSUME HttpInv, NEW w \in Workers, Launch(w)
    PROVE  Ownership' /\ OverIsQuiet' /\ Removal'
<1> USE DEF HttpInv, TypeOK
<1>1. /\ UNCHANGED <<generation, token, writerLock, local, threads>>
      /\ \A u \in Workers \ {w} : pc'[u] = pc[u]
      /\ pc'[w] \in {pc[w], "start"} /\ pc[w] = "none"
      /\ status' = status \/ (status = "queued" /\ status' = "running")
  <2>1. UNCHANGED <<generation, token, writerLock, local, threads>>
    BY DEF Launch, local, threads
  <2>2. /\ \A u \in Workers \ {w} : pc'[u] = pc[u]
        /\ pc'[w] \in {pc[w], "start"} /\ pc[w] = "none"
    BY DEF Launch
  <2>3. status' = status \/ (status = "queued" /\ status' = "running")
    BY DEF Launch
  <2> QED
    BY <2>1, <2>2, <2>3
<1>2. "none" \notin LeasedPCs /\ "start" \notin LeasedPCs
      /\ {"none", "start"} \cap (FilePCs \cup {"owned", "commit"}) = {}
  BY DEF LeasedPCs, FilePCs
<1>3. Exclusive'
  <2>1. CASE registry
    BY <2>1 DEF Launch, Ownership, Exclusive
  <2>2. CASE ~registry
    <3>1. \A u \in Workers : pc[u] = "none"
      BY <2>2 DEF Ownership, Exclusive
    <3>2. registry' /\ \A u \in Workers \ {w} : pc'[u] = "none"
      BY <1>1, <2>2, <3>1 DEF Launch
    <3> QED
      BY <3>2 DEF Exclusive
  <2> QED
    BY <2>1, <2>2
<1>4. LeaseIsExclusive' /\ OneWriter'
  BY <1>1, <1>2 DEF Ownership, LeaseIsExclusive, OneWriter, NoRow, local
<1>5. OverIsQuiet'
  BY <1>1 DEF OverIsQuiet, Resting
<1>6. Removal'
  BY <1>1, <1>2
  DEF Removal, CommandFits, ThreadsFit, FilesRemovedOnlyWhenIdle, Resting, threads
<1> QED
  BY <1>3, <1>4, <1>5, <1>6 DEF Ownership

\* Claims and commands do not touch what a worker owns.
LEMMA OwnershipKept ==
    ASSUME Ownership, UNCHANGED <<generation, token, registry, writerLock, pc, local>>,
           NoRow => status' = "gone"
    PROVE  Ownership'
BY DEF Ownership, Exclusive, LeaseIsExclusive, OneWriter, NoRow, local

\* A claim only moves a queued or running row.
LEMMA ClaimPreserves ==
    ASSUME HttpInv, Claim
    PROVE  Ownership' /\ OverIsQuiet' /\ Removal'
<1>1. Ownership'
  BY OwnershipKept DEF HttpInv, Claim, NoRow
<1> QED
  BY <1>1 DEF HttpInv, Claim, threads, OverIsQuiet, Removal, CommandFits, ThreadsFit,
              FilesRemovedOnlyWhenIdle

\* A click only starts a command that fits the row.
LEMMA ClickPreserves ==
    ASSUME HttpInv, Clicks
    PROVE  Ownership' /\ OverIsQuiet' /\ Removal'
<1> USE DEF HttpInv, Click
<1>1. /\ UNCHANGED <<status, generation, token, registry, writerLock, pc, local, cleaner,
                     deleter>>
      /\ status \notin {"deleting", "gone"}
      /\ cmd'.pc \notin {"deleteMark", "deleteStorage", "deleteRow"}
      /\ status = "cancelled" => cmd'.pc \notin {"pause", "stopRead", "stopWrite"}
  <2>1. CASE ClickPause
    BY <2>1 DEF ClickPause, row
  <2>2. CASE ClickResume
    BY <2>2 DEF ClickResume, row
  <2>3. CASE ClickStop
    BY <2>3 DEF ClickStop, row
  <2>4. CASE ClickDelete
    BY <2>4 DEF ClickDelete, row, Statuses
  <2>5. CASE ClickClear
    BY <2>5 DEF ClickClear, row, Statuses
  <2> QED
    BY <2>1, <2>2, <2>3, <2>4, <2>5 DEF Clicks
<1>2. Ownership'
  BY <1>1, OwnershipKept DEF NoRow
<1> QED
  BY <1>1, <1>2
  DEF OverIsQuiet, Removal, CommandFits, ThreadsFit, FilesRemovedOnlyWhenIdle

\* A command may move the row anywhere but never out of what a pending removal needs.
LEMMA CommandPreserves ==
    ASSUME HttpInv, CommandStep
    PROVE  Ownership' /\ OverIsQuiet' /\ Removal'
<1>1. Ownership'
  <2> USE OwnershipKept DEF HttpInv, CommandKeeps, NoRow, Removal, CommandFits
  <2>1. CASE PauseWrite
    BY <2>1 DEF PauseWrite
  <2>2. CASE ResumeWrite
    BY <2>2 DEF ResumeWrite
  <2>3. CASE StopRead
    BY <2>3 DEF StopRead
  <2>4. CASE StopWrite
    BY <2>4 DEF StopWrite
  <2>5. CASE DeleteRead
    BY <2>5 DEF DeleteRead
  <2>6. CASE DeleteMark
    BY <2>6 DEF DeleteMark
  <2>7. CASE DeleteStorage
    BY <2>7 DEF DeleteStorage
  <2>8. CASE DeleteRow
    BY <2>8 DEF DeleteRow
  <2>9. CASE ClearFinished
    BY <2>9 DEF ClearFinished
  <2> QED
    BY <2>1, <2>2, <2>3, <2>4, <2>5, <2>6, <2>7, <2>8, <2>9 DEF CommandStep
<1>2. OverIsQuiet'
  <2> USE DEF HttpInv, CommandKeeps, OverIsQuiet
  <2>1. CASE PauseWrite
    BY <2>1 DEF PauseWrite
  <2>2. CASE ResumeWrite
    BY <2>2 DEF ResumeWrite
  <2>3. CASE StopRead
    BY <2>3 DEF StopRead
  <2>4. CASE StopWrite
    BY <2>4 DEF StopWrite
  <2>5. CASE DeleteRead
    BY <2>5 DEF DeleteRead
  <2>6. CASE DeleteMark
    BY <2>6 DEF DeleteMark
  <2>7. CASE DeleteStorage
    BY <2>7 DEF DeleteStorage
  <2>8. CASE DeleteRow
    BY <2>8 DEF DeleteRow
  <2>9. CASE ClearFinished
    BY <2>9 DEF ClearFinished
  <2> QED
    BY <2>1, <2>2, <2>3, <2>4, <2>5, <2>6, <2>7, <2>8, <2>9 DEF CommandStep
<1>3. Removal'
  <2> USE DEF HttpInv, TypeOK, CommandKeeps, Done, NoCommand, NoRow, Removal, CommandFits,
              ThreadsFit, FilesRemovedOnlyWhenIdle
  <2>1. CASE PauseWrite
    BY <2>1 DEF PauseWrite
  <2>2. CASE ResumeWrite
    BY <2>2 DEF ResumeWrite
  <2>3. CASE StopRead
    BY <2>3 DEF StopRead
  <2>4. CASE StopWrite
    BY <2>4 DEF StopWrite
  <2>5. CASE DeleteRead
    BY <2>5 DEF DeleteRead, JobActive, Ownership, Exclusive, OverIsQuiet, Resting,
                    LeasedPCs, FilePCs, Statuses
  <2>6. CASE DeleteMark
    BY <2>6 DEF DeleteMark
  <2>7. CASE DeleteStorage
    BY <2>7 DEF DeleteStorage
  <2>8. CASE DeleteRow
    BY <2>8 DEF DeleteRow
  <2>9. CASE ClearFinished
    BY <2>9 DEF ClearFinished
  <2> QED
    BY <2>1, <2>2, <2>3, <2>4, <2>5, <2>6, <2>7, <2>8, <2>9 DEF CommandStep
<1> QED
  BY <1>1, <1>2, <1>3

\* The detached threads look at the registry before they remove: at that moment no
\* worker is left, and the row will not ask for one again.
LEMMA ThreadPreserves ==
    ASSUME HttpInv, CleanerStep \/ DeleterStep
    PROVE  Ownership' /\ OverIsQuiet' /\ Removal'
<1>1. Ownership'
  <2> USE OwnershipKept DEF HttpInv, ThreadKeeps, NoRow
  <2>1. CASE CleanerWaits
    BY <2>1 DEF CleanerWaits
  <2>2. CASE CleanerRemoves
    BY <2>2 DEF CleanerRemoves
  <2>3. CASE DeleterWaits
    BY <2>3 DEF DeleterWaits
  <2>4. CASE DeleterRemoves
    BY <2>4 DEF DeleterRemoves
  <2>5. CASE DeleterPurges
    BY <2>5 DEF DeleterPurges
  <2> QED
    BY <2>1, <2>2, <2>3, <2>4, <2>5 DEF CleanerStep, DeleterStep
<1>2. OverIsQuiet'
  <2> USE DEF HttpInv, ThreadKeeps, OverIsQuiet
  <2>1. CASE CleanerWaits
    BY <2>1 DEF CleanerWaits
  <2>2. CASE CleanerRemoves
    BY <2>2 DEF CleanerRemoves
  <2>3. CASE DeleterWaits
    BY <2>3 DEF DeleterWaits
  <2>4. CASE DeleterRemoves
    BY <2>4 DEF DeleterRemoves
  <2>5. CASE DeleterPurges
    BY <2>5 DEF DeleterPurges
  <2> QED
    BY <2>1, <2>2, <2>3, <2>4, <2>5 DEF CleanerStep, DeleterStep
<1>3. Removal'
  <2> USE DEF HttpInv, TypeOK, JobActive, ThreadKeeps, DeleterOff, Removal, CommandFits, ThreadsFit,
              FilesRemovedOnlyWhenIdle, Ownership, Exclusive, LeasedPCs, FilePCs
  <2>1. CASE CleanerWaits
    BY <2>1 DEF CleanerWaits
  <2>2. CASE CleanerRemoves
    BY <2>2 DEF CleanerRemoves
  <2>3. CASE DeleterWaits
    BY <2>3 DEF DeleterWaits
  <2>4. CASE DeleterRemoves
    BY <2>4 DEF DeleterRemoves
  <2>5. CASE DeleterPurges
    BY <2>5 DEF DeleterPurges
  <2> QED
    BY <2>1, <2>2, <2>3, <2>4, <2>5 DEF CleanerStep, DeleterStep
<1> QED
  BY <1>1, <1>2, <1>3

\* The inductive invariant holds of every reachable state.
THEOREM HttpInvariant == Spec => []HttpInv
<1>1. Init => HttpInv
  <2> SUFFICES ASSUME Init PROVE Ownership /\ OverIsQuiet /\ Removal
    BY TypeInit DEF HttpInv
  <2>1. /\ \A w \in Workers : pc[w] = "none"
        /\ status = "queued" /\ cmd.pc = "idle" /\ cleaner = "off" /\ deleter.pc = "off"
    BY DEF Init, NoCommand, DeleterOff
  <2> QED
    BY <2>1 DEF Ownership, Exclusive, LeaseIsExclusive, OneWriter, OverIsQuiet, Removal,
                CommandFits, ThreadsFit, FilesRemovedOnlyWhenIdle, LeasedPCs, FilePCs
<1>2. HttpInv /\ [Next]_vars => HttpInv'
  <2> SUFFICES ASSUME HttpInv, [Next]_vars
               PROVE  Ownership' /\ OverIsQuiet' /\ Removal'
    BY TypeStep DEF HttpInv
  <2>1. CASE DispatcherStep
    BY <2>1, ClaimPreserves, LaunchPreserves DEF DispatcherStep
  <2>2. ASSUME NEW w \in Workers, WorkerStep(w) \/ WorkerCommitFails(w)
        PROVE  Ownership' /\ OverIsQuiet' /\ Removal'
    BY <2>2, WorkerPreserves
  <2>3. CASE Clicks
    BY <2>3, ClickPreserves
  <2>4. CASE CommandStep
    BY <2>4, CommandPreserves
  <2>5. CASE CleanerStep \/ DeleterStep
    BY <2>5, ThreadPreserves
  <2>6. CASE Crash
    <3>1. /\ \A w \in Workers : pc'[w] = "none"
          /\ cmd'.pc = "idle" /\ cleaner' = "off" /\ deleter'.pc = "off"
      BY <2>6 DEF Crash, NoCommand, DeleterOff
    <3> QED
      BY <3>1 DEF Ownership, Exclusive, LeaseIsExclusive, OneWriter, OverIsQuiet,
                  Resting, Removal, CommandFits, ThreadsFit, FilesRemovedOnlyWhenIdle,
                  LeasedPCs, FilePCs
  <2>7. CASE UNCHANGED vars
    BY <2>7 DEF vars, row, files, threads, local, HttpInv, Ownership, Exclusive,
                LeaseIsExclusive, OneWriter, NoRow, OverIsQuiet, Removal, CommandFits,
                ThreadsFit, FilesRemovedOnlyWhenIdle
  <2> QED
    BY <2>1, <2>2, <2>3, <2>4, <2>5, <2>6, <2>7 DEF Next
<1> QED
  BY <1>1, <1>2, PTL DEF Spec

\* One thread at a time has the partial open (the writer lock of worker.rs).
THEOREM SingleWriter == Spec => []OneWriter
<1>1. HttpInv => OneWriter
  BY DEF HttpInv, Ownership
<1> QED
  BY <1>1, HttpInvariant, PTL

\* A worker that holds a lease is never robbed of it (ownership_generation in http.rs).
THEOREM LeaseHeldByOne == Spec => []LeaseIsExclusive
<1>1. HttpInv => LeaseIsExclusive
  BY DEF HttpInv, Ownership
<1> QED
  BY <1>1, HttpInvariant, PTL

\* No cleanup, deletion thread or delete command removes files under a worker.
THEOREM SafeRemoval == Spec => []FilesRemovedOnlyWhenIdle
<1>1. HttpInv => FilesRemovedOnlyWhenIdle
  BY DEF HttpInv, Removal
<1> QED
  BY <1>1, HttpInvariant, PTL

\* No worker step takes a job out of paused, cancelled or deleting.
THEOREM UserWins == Spec => WorkerNeverOverridesUser
<1>1. TypeOK /\ [Next]_vars =>
        [\A w \in Workers : WorkerStep(w) => (status \in Stopped => status' = status)]_vars
  BY WorkerKeeps
<1> QED
  BY <1>1, TypeCorrect, PTL DEF Spec, WorkerNeverOverridesUser

\* A worker commits a row only over the whole file, and its rename refuses to touch a
\* destination that exists.
LEMMA WorkerCommitsWholeFile ==
    ASSUME TypeOK, NEW w \in Workers, WorkerStep(w) \/ WorkerCommitFails(w),
           status' = "completed"
    PROVE  dest' = Size \/ (status = "completed" /\ dest # Size)
<1> USE SizeAssumption DEF KeepRow, KeepFiles, row, files, MayCommit, CommitRow, NoRow
<1>1. CASE WorkerStart(w)
  BY <1>1 DEF WorkerStart
<1>2. CASE WorkerLock(w)
  BY <1>2 DEF WorkerLock
<1>3. CASE WorkerOpen(w)
  BY <1>3 DEF WorkerOpen
<1>4. CASE WorkerTransportError(w)
  BY <1>4 DEF WorkerTransportError
<1>5. CASE WorkerLoop(w)
  BY <1>5 DEF WorkerLoop
<1>6. CASE WorkerWrite(w)
  BY <1>6 DEF WorkerWrite
<1>7. CASE WorkerMark(w)
  BY <1>7 DEF WorkerMark
<1>8. CASE WorkerCheck(w)
  BY <1>8 DEF WorkerCheck
<1>9. CASE WorkerRename(w)
  BY <1>9 DEF WorkerRename
<1>10. CASE WorkerOwned(w)
  BY <1>10 DEF WorkerOwned
<1>11. CASE WorkerCommit(w)
  BY <1>11 DEF WorkerCommit
<1>12. CASE WorkerError(w)
  BY <1>12 DEF WorkerError
<1>13. CASE WorkerRecover(w)
  BY <1>13 DEF WorkerRecover
<1>14. CASE WorkerRecommit(w)
  BY <1>14 DEF WorkerRecommit
<1>15. CASE WorkerReadStatus(w)
  BY <1>15 DEF WorkerReadStatus
<1>16. CASE WorkerFail(w)
  BY <1>16 DEF WorkerFail, Recoverable
<1>17. CASE WorkerUnlist(w)
  BY <1>17 DEF WorkerUnlist
<1>18. CASE WorkerCommitFails(w)
  BY <1>18 DEF WorkerCommitFails
<1> QED
  BY <1>1, <1>2, <1>3, <1>4, <1>5, <1>6, <1>7, <1>8, <1>9, <1>10,
     <1>11, <1>12, <1>13, <1>14, <1>15, <1>16, <1>17, <1>18
  DEF WorkerStep

\* A row becomes completed only with its whole file at the destination, and the file
\* stays there while it is completed, unless it is deleted with its storage.
THEOREM CompletedFileExists == Spec => CompletedHasFile
<1> DEFINE Kept == status' = "completed" =>
                      dest' = Size \/ DeleteStorage \/ (status = "completed" /\ dest # Size)
<1>1. HttpInv /\ [Next]_vars => [Kept]_vars
  <2> SUFFICES ASSUME HttpInv, Next, status' = "completed"
               PROVE  dest' = Size \/ DeleteStorage \/ (status = "completed" /\ dest # Size)
    OBVIOUS
  <2> USE DEF files, row
  <2>1. ASSUME NEW w \in Workers, WorkerStep(w) \/ WorkerCommitFails(w)
        PROVE  dest' = Size \/ (status = "completed" /\ dest # Size)
    BY <2>1, WorkerCommitsWholeFile DEF HttpInv
  <2>2. CASE DispatcherStep
    BY <2>2 DEF DispatcherStep, Claim, Launch
  <2>3. CASE Clicks
    BY <2>3 DEF Clicks, ClickPause, ClickResume, ClickStop, ClickDelete, ClickClear, Click
  <2>4. CASE CommandStep
    <3>1. CASE PauseWrite
      BY <3>1 DEF PauseWrite
    <3>2. CASE ResumeWrite
      BY <3>2 DEF ResumeWrite
    <3>3. CASE StopRead
      BY <3>3 DEF StopRead
    <3>4. CASE StopWrite
      BY <3>4 DEF StopWrite
    <3>5. CASE DeleteRead
      BY <3>5 DEF DeleteRead
    <3>6. CASE DeleteMark
      BY <3>6 DEF DeleteMark
    <3>7. CASE DeleteStorage
      BY <3>7 DEF DeleteStorage
    <3>8. CASE DeleteRow
      BY <3>8 DEF DeleteRow
    <3>9. CASE ClearFinished
      BY <3>9 DEF ClearFinished
    <3> QED
      BY <2>4, <3>1, <3>2, <3>3, <3>4, <3>5, <3>6, <3>7, <3>8, <3>9 DEF CommandStep
  <2>5. CASE CleanerStep \/ DeleterStep
    <3> USE DEF ThreadKeeps, HttpInv, Removal, ThreadsFit, DeleterOff
    <3>1. CASE CleanerWaits
      BY <3>1 DEF CleanerWaits
    <3>2. CASE CleanerRemoves
      BY <3>2 DEF CleanerRemoves
    <3>3. CASE DeleterWaits
      BY <3>3 DEF DeleterWaits
    <3>4. CASE DeleterRemoves
      BY <3>4 DEF DeleterRemoves
    <3>5. CASE DeleterPurges
      BY <3>5 DEF DeleterPurges
    <3> QED
      BY <2>5, <3>1, <3>2, <3>3, <3>4, <3>5 DEF CleanerStep, DeleterStep
  <2>6. CASE Crash
    BY <2>6 DEF Crash
  <2> QED
    BY <2>1, <2>2, <2>3, <2>4, <2>5, <2>6 DEF Next
<1> QED
  BY <1>1, HttpInvariant, PTL DEF Spec, CompletedHasFile

(***************************************************************************)
(* Refinement.  The HTTP job, with all its devices, keeps the contract of  *)
(* a download (JobContract): initial states map to initial states, and     *)
(* every step maps to a step of the contract or to a stutter.              *)
(***************************************************************************)
\* A worker goes to finalization with as many chunks counted as the file has.
Counted ==
    \A w \in Workers : pc[w] \in {"mark", "check", "rename"} => down[w] = Size

\* No worker is there at first.
LEMMA CountedInit == ASSUME Init PROVE Counted
BY DEF Init, Counted

\* The transfer loop leaves for finalization at the last chunk, and nobody counts on.
LEMMA CountedStep == ASSUME TypeOK, Counted, [Next]_vars PROVE Counted'
<1> USE DEF Counted, TypeOK
<1>1. ASSUME NEW w \in Workers, WorkerStep(w) \/ WorkerCommitFails(w) PROVE Counted'
  <2> USE SizeAssumption DEF Goto, Jump, Arrive, Err, StaleErr, Unleased, local
  <2>1. CASE WorkerStart(w)
    BY <2>1 DEF WorkerStart
  <2>2. CASE WorkerLock(w)
    BY <2>2 DEF WorkerLock
  <2>3. CASE WorkerOpen(w)
    BY <2>3 DEF WorkerOpen
  <2>4. CASE WorkerTransportError(w)
    BY <2>4 DEF WorkerTransportError
  <2>5. CASE WorkerLoop(w)
    BY <2>5 DEF WorkerLoop
  <2>6. CASE WorkerWrite(w)
    BY <2>6 DEF WorkerWrite
  <2>7. CASE WorkerMark(w)
    BY <2>7 DEF WorkerMark
  <2>8. CASE WorkerCheck(w)
    BY <2>8 DEF WorkerCheck
  <2>9. CASE WorkerRename(w)
    BY <2>9 DEF WorkerRename
  <2>10. CASE WorkerOwned(w)
    BY <2>10 DEF WorkerOwned
  <2>11. CASE WorkerCommit(w)
    BY <2>11 DEF WorkerCommit
  <2>12. CASE WorkerError(w)
    BY <2>12 DEF WorkerError
  <2>13. CASE WorkerRecover(w)
    BY <2>13 DEF WorkerRecover
  <2>14. CASE WorkerRecommit(w)
    BY <2>14 DEF WorkerRecommit
  <2>15. CASE WorkerReadStatus(w)
    BY <2>15 DEF WorkerReadStatus
  <2>16. CASE WorkerFail(w)
    BY <2>16 DEF WorkerFail
  <2>17. CASE WorkerUnlist(w)
    BY <2>17 DEF WorkerUnlist
  <2>18. CASE WorkerCommitFails(w)
    BY <2>18 DEF WorkerCommitFails
  <2> QED
    BY <1>1, <2>1, <2>2, <2>3, <2>4, <2>5, <2>6, <2>7, <2>8, <2>9, <2>10,
       <2>11, <2>12, <2>13, <2>14, <2>15, <2>16, <2>17, <2>18
    DEF WorkerStep
<1>2. CASE DispatcherStep
  BY <1>2 DEF DispatcherStep, Claim, Launch, local
<1>3. CASE Clicks
  BY <1>3 DEF Clicks, ClickPause, ClickResume, ClickStop, ClickDelete, ClickClear, Click, local
<1>4. CASE CommandStep
  BY <1>4 DEF CommandStep, CommandKeeps, PauseWrite, ResumeWrite, StopRead, StopWrite,
              DeleteRead, DeleteMark, DeleteStorage, DeleteRow, ClearFinished, local
<1>5. CASE CleanerStep \/ DeleterStep
  BY <1>5 DEF CleanerStep, DeleterStep, ThreadKeeps, CleanerWaits, CleanerRemoves,
              DeleterWaits, DeleterRemoves, DeleterPurges, local
<1>6. CASE Crash
  BY <1>6 DEF Crash
<1>7. CASE UNCHANGED vars
  BY <1>7 DEF vars, local
<1> QED
  BY <1>1, <1>2, <1>3, <1>4, <1>5, <1>6, <1>7 DEF Next

\* The statuses in which the job is wanted.
Asked == {"queued", "running"}

\* What a step of a worker can do to the row and to the destination file, by whether
\* it holds the lease before and after.
LEMMA WorkerEffect ==
    ASSUME HttpInv, Counted, NEW w \in Workers, WorkerStep(w) \/ WorkerCommitFails(w)
    PROVE  \/ /\ status \in Asked /\ status' = "running" /\ dest' = dest
              /\ pc[w] \notin LeasedPCs /\ pc'[w] \in LeasedPCs
           \/ /\ status' = status /\ (dest' = Size <=> dest = Size)
              /\ pc'[w] \in LeasedPCs => pc[w] \in LeasedPCs
           \/ /\ status' = status /\ dest # Size /\ dest' = Size
              /\ pc[w] \in LeasedPCs /\ pc'[w] \in LeasedPCs
           \/ /\ status \in Asked /\ status' = "completed" /\ dest = Size /\ dest' = dest
              /\ pc'[w] \notin LeasedPCs
           \/ /\ status \in Asked /\ status' = "failed" /\ dest' = dest
              /\ pc[w] \notin LeasedPCs /\ pc'[w] \notin LeasedPCs
<1> USE SizeAssumption
    DEF HttpInv, TypeOK, Counted, OverIsQuiet, Asked, NoRow, LeasedPCs, FilePCs, Resting, Goto,
        Jump, Arrive, Err, StaleErr, Unleased, local, KeepRow, KeepFiles, row, files, CommitRow,
        MayCommit, Stopped, Statuses, Absent
<1>1. CASE WorkerStart(w)
  BY <1>1 DEF WorkerStart
<1>2. CASE WorkerLock(w)
  BY <1>2 DEF WorkerLock
<1>3. CASE WorkerOpen(w)
  BY <1>3 DEF WorkerOpen
<1>4. CASE WorkerTransportError(w)
  BY <1>4 DEF WorkerTransportError
<1>5. CASE WorkerLoop(w)
  BY <1>5 DEF WorkerLoop
<1>6. CASE WorkerWrite(w)
  BY <1>6 DEF WorkerWrite
<1>7. CASE WorkerMark(w)
  BY <1>7 DEF WorkerMark
<1>8. CASE WorkerCheck(w)
  BY <1>8 DEF WorkerCheck
<1>9. CASE WorkerRename(w)
  BY <1>9 DEF WorkerRename
<1>10. CASE WorkerOwned(w)
  BY <1>10 DEF WorkerOwned
<1>11. CASE WorkerCommit(w)
  BY <1>11 DEF WorkerCommit
<1>12. CASE WorkerError(w)
  BY <1>12 DEF WorkerError
<1>13. CASE WorkerRecover(w)
  BY <1>13 DEF WorkerRecover
<1>14. CASE WorkerRecommit(w)
  BY <1>14 DEF WorkerRecommit
<1>15. CASE WorkerReadStatus(w)
  BY <1>15 DEF WorkerReadStatus
<1>16. CASE WorkerFail(w)
  BY <1>16 DEF WorkerFail, Recoverable
<1>17. CASE WorkerUnlist(w)
  BY <1>17 DEF WorkerUnlist
<1>18. CASE WorkerCommitFails(w)
  BY <1>18 DEF WorkerCommitFails
<1> QED
  BY <1>1, <1>2, <1>3, <1>4, <1>5, <1>6, <1>7, <1>8, <1>9, <1>10,
     <1>11, <1>12, <1>13, <1>14, <1>15, <1>16, <1>17, <1>18
  DEF WorkerStep

\* The worker with the lease is the owner the contract speaks of: there is no other.
LEMMA OwnerIs ==
    ASSUME HttpInv, NEW w \in Workers, WorkerStep(w) \/ WorkerCommitFails(w)
    PROVE  /\ Owners  = IF pc[w] \in LeasedPCs THEN {w} ELSE {}
           /\ Owners' = IF pc'[w] \in LeasedPCs THEN {w} ELSE {}
<1>1. \A u \in Workers \ {w} : pc'[u] = "none" /\ pc[u] = "none"
  BY WorkerMoves DEF HttpInv, Ownership, Exclusive
<1>2. "none" \notin LeasedPCs
  BY DEF LeasedPCs, FilePCs
<1>3. Owners  = IF pc[w] \in LeasedPCs THEN {w} ELSE {}
  BY <1>1, <1>2 DEF Owners
<1>4. Owners' = IF pc'[w] \in LeasedPCs THEN {w} ELSE {}
  BY <1>1, <1>2 DEF Owners
<1> QED
  BY <1>3, <1>4

\* What the wish is for each status.
LEMMA WishIs ==
    /\ status \in Asked => Wish = "wanted"
    /\ status = "paused" => Wish = "held"
    /\ status \in {"cancelled", "deleting"} => Wish = "dropped"
    /\ status = "completed" => Wish = "done"
    /\ status \in {"failed", "gone"} => Wish = status
BY DEF Wish, Asked

\* The same of the next state.
LEMMA NextWishIs ==
    /\ status' \in Asked => Wish' = "wanted"
    /\ status' = "paused" => Wish' = "held"
    /\ status' \in {"cancelled", "deleting"} => Wish' = "dropped"
    /\ status' = "completed" => Wish' = "done"
    /\ status' \in {"failed", "gone"} => Wish' = status'
BY DEF Wish, Asked

\* A step that keeps the status keeps the wish.
LEMMA SameWish == ASSUME status' = status PROVE Wish' = Wish
BY DEF Wish

\* Every step of a worker is a step of the contract or a stutter.
LEMMA WorkerRefines ==
    ASSUME HttpInv, Counted, NEW w \in Workers, WorkerStep(w) \/ WorkerCommitFails(w)
    PROVE  [Contract!Next]_Contract!vars
<1> DEFINE Leased     == pc[w] \in LeasedPCs
           NextLeased == pc'[w] \in LeasedPCs
<1>o. /\ Leased => Owners = {w}
      /\ ~Leased => Owners = {}
      /\ NextLeased => Owners' = {w}
      /\ ~NextLeased => Owners' = {}
  BY OwnerIs
<1> HIDE DEF Leased, NextLeased
<1>1. CASE status \in Asked /\ status' = "running" /\ dest' = dest /\ ~Leased /\ NextLeased
  <2>1. Wish = "wanted" /\ Wish' = "wanted"
    BY <1>1, WishIs, NextWishIs DEF Asked
  <2>2. Contract!Begin
    BY <1>1, <1>o, <2>1 DEF Contract!Begin
  <2> QED
    BY <2>2 DEF Contract!Next
<1>2. CASE status' = status /\ (dest' = Size <=> dest = Size) /\ (NextLeased => Leased)
  <2>1. Wish' = Wish /\ (dest = Size)' = (dest = Size)
    BY <1>2, SameWish
  <2>2. Owners' = Owners \/ Owners' = {}
    BY <1>2, <1>o
  <2> QED
    BY <2>1, <2>2 DEF Contract!Leave, Contract!Next, Contract!vars
<1>3. CASE status' = status /\ dest # Size /\ dest' = Size /\ Leased /\ NextLeased
  <2>1. Contract!Deliver
    BY <1>3, <1>o, SameWish DEF Contract!Deliver
  <2> QED
    BY <2>1 DEF Contract!Next
<1>4. CASE status \in Asked /\ status' = "completed" /\ dest = Size /\ dest' = dest /\ ~NextLeased
  <2>1. Wish = "wanted" /\ Wish' = "done"
    BY <1>4, WishIs, NextWishIs
  <2>2. Contract!Finish
    BY <1>4, <1>o, <2>1 DEF Contract!Finish
  <2> QED
    BY <2>2 DEF Contract!Next
<1>5. CASE status \in Asked /\ status' = "failed" /\ dest' = dest /\ ~Leased /\ ~NextLeased
  <2>1. Wish = "wanted" /\ Wish' = "failed"
    BY <1>5, WishIs, NextWishIs
  <2>2. Contract!Fail
    BY <1>5, <1>o, <2>1 DEF Contract!Fail
  <2> QED
    BY <2>2 DEF Contract!Next
<1> QED
  BY <1>1, <1>2, <1>3, <1>4, <1>5, WorkerEffect DEF Leased, NextLeased

\* A step that moves no worker thread keeps the owner.
LEMMA SameOwners ==
    ASSUME pc' = pc PROVE Owners' = Owners
BY DEF Owners

\* A step that changes neither the status, the destination nor a thread is a stutter.
LEMMA StutterRefines ==
    ASSUME status' = status, dest' = dest, pc' = pc
    PROVE  [Contract!Next]_Contract!vars
BY SameWish, SameOwners DEF Contract!vars

\* The claim keeps the wish, and a launched worker holds no lease yet.
LEMMA DispatcherRefines ==
    ASSUME TypeOK, DispatcherStep
    PROVE  [Contract!Next]_Contract!vars
<1>1. Wish' = Wish
  BY WishIs, NextWishIs DEF DispatcherStep, Claim, Launch, Asked, Wish
<1>2. Owners' = Owners
  BY DEF DispatcherStep, Claim, Launch, Owners, TypeOK, LeasedPCs, FilePCs
<1>3. dest' = dest
  BY DEF DispatcherStep, Claim, Launch, files
<1> QED
  BY <1>1, <1>2, <1>3 DEF Contract!vars

\* A worker holds no lease of a row at rest, nor while somebody removes its files.
LEMMA NoOwners ==
    ASSUME HttpInv, cleaner = "remove" \/ deleter.pc = "remove" \/ cmd.pc = "deleteStorage"
    PROVE  Owners = {}
BY DEF HttpInv, Removal, FilesRemovedOnlyWhenIdle, Owners

\* Removing the files of a job that nobody asks for any more.
LEMMA RemovalRefines ==
    ASSUME HttpInv, deleter.pc = "remove" \/ cmd.pc = "deleteStorage",
           UNCHANGED <<status, pc>>, dest' = Absent \/ dest' = dest
    PROVE  [Contract!Next]_Contract!vars
<1>1. CASE dest' = dest
  BY <1>1, StutterRefines
<1>2. CASE dest' = Absent
  <2>1. status \in {"completed", "cancelled", "failed", "deleting", "gone"}
    BY DEF HttpInv, Removal, CommandFits, ThreadsFit
  <2>2. Wish \in {"done", "failed", "dropped", "gone"}
    BY <2>1, WishIs
  <2>3. (dest' = Size) = FALSE
    BY <1>2, SizeAssumption DEF Absent
  <2>4. Contract!Remove
    BY <2>2, <2>3, NoOwners, SameWish, SameOwners DEF Contract!Remove
  <2> QED
    BY <2>4 DEF Contract!Next
<1> QED
  BY <1>1, <1>2

\* A step of the user writes the wish and nothing else.
LEMMA UserRefines ==
    ASSUME UNCHANGED <<dest, pc>>,
           Contract!Hold \/ Contract!Ask \/ Contract!Drop \/ Contract!Forget
    PROVE  [Contract!Next]_Contract!vars
<1>1. UNCHANGED <<dest = Size, Owners>>
  BY SameOwners
<1> QED
  BY <1>1 DEF Contract!User, Contract!Next

\* Every write of a command handler is the user changing the wish, or a removal.
LEMMA CommandRefines ==
    ASSUME HttpInv, CommandStep
    PROVE  [Contract!Next]_Contract!vars
<1> USE DEF CommandKeeps
<1>k. status \in Statuses
  BY DEF HttpInv, TypeOK
<1>g. NoRow => cmd.pc = "idle"
  BY DEF HttpInv, Removal, CommandFits, NoRow
<1>w. ~NoRow => Wish # "gone"
  BY <1>k, WishIs DEF NoRow, Statuses, Asked
<1>1. CASE PauseWrite
  <2>1. status' = "paused" /\ ~NoRow
    BY <1>1, <1>g DEF PauseWrite
  <2>2. Contract!Hold
    BY <2>1, <1>w, NextWishIs DEF Contract!Hold
  <2> QED
    BY <1>1, <2>2, UserRefines DEF PauseWrite, files
<1>2. CASE ResumeWrite
  <2>1. CASE status \in {"completed", "cancelled"}
    BY <1>2, <2>1, StutterRefines DEF ResumeWrite, files
  <2>2. CASE status \notin {"completed", "cancelled"}
    <3>1. status' = "queued" /\ status \in Asked \cup {"paused", "failed"}
      BY <1>2, <2>2, <1>g, <1>k DEF ResumeWrite, HttpInv, Removal, CommandFits, Asked, Statuses
    <3>2. Contract!Ask
      BY <3>1, WishIs, NextWishIs DEF Contract!Ask, Asked
    <3> QED
      BY <1>2, <3>2, UserRefines DEF ResumeWrite, files
  <2> QED
    BY <2>1, <2>2
<1>3. CASE StopRead
  BY <1>3, StutterRefines DEF StopRead, files
<1>4. CASE StopWrite
  <2>1. status' = "cancelled" /\ ~NoRow
    BY <1>4, <1>g DEF StopWrite
  <2>2. Contract!Drop
    BY <2>1, <1>w, NextWishIs DEF Contract!Drop
  <2> QED
    BY <1>4, <2>2, UserRefines DEF StopWrite, files
<1>5. CASE DeleteRead
  BY <1>5, StutterRefines DEF DeleteRead, files
<1>6. CASE DeleteMark
  <2>1. status = "cancelled" /\ status' = "deleting"
    BY <1>6 DEF DeleteMark, HttpInv, Removal, CommandFits
  <2>2. Wish' = Wish
    BY <2>1, WishIs, NextWishIs
  <2> QED
    BY <1>6, <2>2, SameOwners DEF DeleteMark, files, Contract!vars
<1>7. CASE DeleteStorage
  BY <1>7, RemovalRefines DEF DeleteStorage, files
<1>8. CASE DeleteRow
  <2>1. Contract!Forget
    BY <1>8, NextWishIs DEF DeleteRow, Contract!Forget
  <2> QED
    BY <1>8, <2>1, UserRefines DEF DeleteRow, files
<1>9. CASE ClearFinished
  <2>1. CASE status' = status
    BY <1>9, <2>1, StutterRefines DEF ClearFinished, files
  <2>2. CASE status' = "gone"
    <3>1. Contract!Forget
      BY <2>2, NextWishIs DEF Contract!Forget
    <3> QED
      BY <1>9, <3>1, UserRefines DEF ClearFinished, files
  <2> QED
    BY <1>9, <2>1, <2>2 DEF ClearFinished
<1> QED
  BY <1>1, <1>2, <1>3, <1>4, <1>5, <1>6, <1>7, <1>8, <1>9 DEF CommandStep

\* The detached threads remove files and forget the row, of a dropped job only.
LEMMA ThreadRefines ==
    ASSUME HttpInv, CleanerStep \/ DeleterStep
    PROVE  [Contract!Next]_Contract!vars
<1> USE DEF ThreadKeeps
<1>1. CASE CleanerWaits
  BY <1>1, StutterRefines DEF CleanerWaits, files
<1>2. CASE CleanerRemoves
  BY <1>2, StutterRefines DEF CleanerRemoves
<1>3. CASE DeleterWaits
  BY <1>3, StutterRefines DEF DeleterWaits, files
<1>4. CASE DeleterRemoves
  BY <1>4, RemovalRefines DEF DeleterRemoves, files
<1>5. CASE DeleterPurges
  <2>1. CASE status' = status
    BY <1>5, <2>1, StutterRefines DEF DeleterPurges, files
  <2>2. CASE status' = "gone"
    <3>1. Contract!Forget
      BY <2>2, NextWishIs DEF Contract!Forget
    <3> QED
      BY <1>5, <3>1, UserRefines DEF DeleterPurges, files
  <2> QED
    BY <1>5, <2>1, <2>2 DEF DeleterPurges
<1> QED
  BY <1>1, <1>2, <1>3, <1>4, <1>5 DEF CleanerStep, DeleterStep

\* A crash takes the owner away; requeueing the row does not change the wish.
LEMMA CrashRefines ==
    ASSUME Crash
    PROVE  [Contract!Next]_Contract!vars
<1>1. Wish' = Wish
  BY WishIs, NextWishIs DEF Crash, Asked, Wish
<1>2. Owners' = {}
  BY DEF Crash, Owners, LeasedPCs, FilePCs
<1>3. dest' = dest
  BY DEF Crash, files
<1> QED
  BY <1>1, <1>2, <1>3 DEF Contract!Leave, Contract!Next

\* The HTTP job implements the contract of a download.
THEOREM ContractKept == Spec => KeepsContract
<1>1. Init => Contract!Init
  <2> SUFFICES ASSUME Init PROVE Contract!Init
    OBVIOUS
  <2>1. Wish = "wanted"
    BY WishIs DEF Init, Asked
  <2>2. (dest = Size) = FALSE
    BY SizeAssumption DEF Init, Absent
  <2>3. Owners = {}
    BY DEF Init, Owners, LeasedPCs, FilePCs
  <2> QED
    BY <2>1, <2>2, <2>3 DEF Contract!Init
<1>2. HttpInv /\ Counted /\ [Next]_vars => [Contract!Next]_Contract!vars
  <2> SUFFICES ASSUME HttpInv, Counted, [Next]_vars
               PROVE  [Contract!Next]_Contract!vars
    OBVIOUS
  <2>1. CASE DispatcherStep
    BY <2>1, DispatcherRefines DEF HttpInv
  <2>2. ASSUME NEW w \in Workers, WorkerStep(w) \/ WorkerCommitFails(w)
        PROVE  [Contract!Next]_Contract!vars
    BY <2>2, WorkerRefines
  <2>3. CASE Clicks
    BY <2>3, StutterRefines
    DEF Clicks, ClickPause, ClickResume, ClickStop, ClickDelete, ClickClear, Click, row, files
  <2>4. CASE CommandStep
    BY <2>4, CommandRefines
  <2>5. CASE CleanerStep \/ DeleterStep
    BY <2>5, ThreadRefines
  <2>6. CASE Crash
    BY <2>6, CrashRefines
  <2>7. CASE UNCHANGED vars
    BY <2>7, StutterRefines DEF vars, row, files
  <2> QED
    BY <2>1, <2>2, <2>3, <2>4, <2>5, <2>6, <2>7 DEF Next
<1>3. Spec => []Counted
  <2>1. Counted /\ TypeOK /\ [Next]_vars => Counted'
    BY CountedStep
  <2> QED
    BY <2>1, CountedInit, TypeCorrect, PTL DEF Spec
<1> QED
  BY <1>1, <1>2, <1>3, HttpInvariant, PTL DEF Spec, KeepsContract, Contract!Spec
=============================================================================
