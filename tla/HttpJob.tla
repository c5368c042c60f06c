------------------------------ MODULE HttpJob -------------------------------
(***************************************************************************)
(* One HTTP download job from claim to commit: the worker thread with its  *)
(* three ownership devices (in-memory registry, persistent lease, lock on  *)
(* the .part file), the rename of the finished file and the separate       *)
(* commit of its row, the error path that tries to recover a finished      *)
(* file, and the commands, cleanup threads and crashes that interleave     *)
(* with all of it (downloads/worker.rs, http.rs, storage.rs, commands.rs). *)
(*                                                                         *)
(* The slots of the dispatcher are left out (Dispatcher has them), and so  *)
(* are the bytes (HttpTransfer has them): a file is its number of chunks.  *)
(* The server declares the length of the file.                             *)
(***************************************************************************)
EXTENDS Integers, FiniteSets

CONSTANTS
    Workers,    \* identities for worker threads
    NoWorker,
    Size,       \* chunks of the complete file
    MaxOps      \* bound: commands + crashes + database failures per behaviour

ASSUME WorkersAssumption == NoWorker \notin Workers
ASSUME SizeAssumption    == Size \in Nat \ {0}
ASSUME BudgetAssumption  == MaxOps \in Nat

VARIABLES
    status,     \* jobs.status; "gone" = row deleted
    generation, \* download_jobs.ownership_generation
    token,      \* download_jobs.ownership_token: a generation, 0 for ''
    finalization, \* download_jobs.finalization_state
    total,      \* download_jobs.total_bytes is known
    temp,       \* chunks in the .part file, Absent if there is none
    dest,       \* chunks in the destination file, Absent if there is none
    registry,   \* the job is in active_downloads
    writerLock, \* who holds the lock on <temp>.lock
    dispatcher, \* "idle", or "claimed" between claim and launch
    pc,         \* worker threads: program counter,
    lease,      \* generation of the lease it holds,
    down,       \* chunks it believes to be in the partial,
    stale,      \* its error is HTTP_STALE_LEASE
    cmd,        \* the command handler in progress
    cleaner,    \* cleanup_managed_paths_when_idle thread
    deleter,    \* schedule_job_deletion_after_idle thread
    ops         \* budget spent

row   == <<status, generation, token, finalization, total>>
files == <<temp, dest>>
local == <<lease, down, stale>>
threads == <<cmd, cleaner, deleter>>
vars  == <<row, files, registry, writerLock, dispatcher, pc, local, threads, ops>>

Absent == -1
Statuses == {"queued", "running", "paused", "cancelled", "completed", "failed",
             "deleting", "gone"}
Stopped == {"paused", "cancelled", "deleting"}
NoRow == status = "gone"

FilePCs   == {"open", "loop", "write", "mark", "check", "rename"}
LeasedPCs == {"lock"} \cup FilePCs \cup {"owned", "commit"}
ErrorPCs  == {"error", "recover", "recommit", "read", "fail"}
WorkerPCs == {"none", "start", "unlist"} \cup LeasedPCs \cup ErrorPCs

(***************************************************************************)
(* Dispatcher: claim and launch, as in module Dispatcher but for one job.  *)
(***************************************************************************)
Claim ==
    /\ dispatcher = "idle" /\ ~registry
    /\ status \in {"queued", "running"}
    /\ status' = "running"
    /\ dispatcher' = "claimed"
    /\ UNCHANGED <<generation, token, finalization, total, files, registry, writerLock,
                   pc, local, threads, ops>>

Launch(w) ==
    /\ dispatcher = "claimed" /\ pc[w] = "none"
    /\ dispatcher' = "idle"
    /\ IF registry
       THEN UNCHANGED <<status, registry, pc>>
       ELSE /\ registry' = TRUE
            /\ status' = IF status = "queued" THEN "running" ELSE status
            /\ pc' = [pc EXCEPT ![w] = "start"]
    /\ UNCHANGED <<generation, token, finalization, total, files, writerLock, local,
                   threads, ops>>

(***************************************************************************)
(* Worker thread.                                                          *)
(***************************************************************************)
Jump(w, target) == pc' = [pc EXCEPT ![w] = target]
Goto(w, target) == Jump(w, target) /\ UNCHANGED local
Err(w) == Goto(w, "error")
StaleErr(w) == Jump(w, "error") /\ stale' = [stale EXCEPT ![w] = TRUE]
                               /\ UNCHANGED <<lease, down>>
Arrive(w, target, n) == Jump(w, target) /\ down' = [down EXCEPT ![w] = n]
                                       /\ UNCHANGED <<lease, stale>>

\* http_lease_is_current: a missing row is an ordinary error, not a stale lease.
Current(w) == ~NoRow /\ generation = lease[w] /\ token = lease[w]
Unleased(w) == IF NoRow THEN Err(w) ELSE StaleErr(w)

KeepRow == UNCHANGED row
KeepFiles == UNCHANGED <<files, writerLock>>
Elsewhere == UNCHANGED <<registry, dispatcher, threads, ops>>

\* claim_http_lease.
WorkerStart(w) ==
    /\ pc[w] = "start"
    /\ CASE NoRow -> Goto(w, "recover") /\ KeepRow
         [] status \in Stopped \cup {"completed", "failed"} -> Goto(w, "unlist") /\ KeepRow
         [] OTHER ->
              /\ generation' = generation + 1
              /\ token' = generation + 1
              /\ finalization' = "downloading"
              /\ status' = "running"
              /\ Jump(w, "lock") /\ lease' = [lease EXCEPT ![w] = generation + 1]
              /\ UNCHANGED <<total, down, stale>>
    /\ KeepFiles /\ Elsewhere

\* Mutant: the lock file is closed as soon as it is locked.
WorkerLockDropped(w) ==
    /\ pc[w] = "lock" /\ writerLock = NoWorker
    /\ Goto(w, "open")
    /\ KeepRow /\ KeepFiles /\ Elsewhere

\* acquire_http_writer_lock blocks until the previous holder closed its file.
WorkerLock(w) ==
    /\ pc[w] = "lock"
    /\ IF NoRow THEN Err(w) /\ UNCHANGED writerLock
       ELSE writerLock = NoWorker /\ writerLock' = w /\ Goto(w, "open")
    /\ KeepRow /\ UNCHANGED files /\ Elsewhere

\* Mutant: a partial that is not there has a length.
ExistingUnchecked == temp

Existing == IF temp = Absent THEN 0 ELSE temp

\* A partial that is already complete goes straight to finalization; otherwise the
\* request is sent, the representation persisted and the partial opened: appended
\* to after a 206, isolated or truncated after a 200.
WorkerOpen(w) ==
    /\ pc[w] = "open"
    /\ IF total /\ Existing = Size
       THEN /\ Arrive(w, "mark", Size)
            /\ UNCHANGED <<total, temp>>
       ELSE IF ~Current(w) THEN Unleased(w) /\ UNCHANGED <<total, temp>>
       ELSE /\ total' = TRUE
            /\ \E resumed \in {0, Existing} :
                  /\ temp' = resumed
                  /\ Arrive(w, "loop", resumed)
    /\ UNCHANGED <<status, generation, token, finalization, dest, writerLock>> /\ Elsewhere

\* The request, a read or a write fails for good; at the open the old partial may
\* have been set aside already (200, or a 206 of another representation).
WorkerTransportError(w) ==
    /\ \/ pc[w] = "open" /\ temp' \in {temp, Absent}
       \/ pc[w] = "loop" /\ UNCHANGED temp
    /\ Err(w)
    /\ KeepRow /\ UNCHANGED <<dest, writerLock>> /\ Elsewhere

\* Top of the transfer loop: lease, then status, then the next read.
WorkerLoop(w) ==
    /\ pc[w] = "loop"
    /\ CASE ~Current(w) -> Unleased(w) /\ UNCHANGED writerLock
         [] Current(w) /\ status \in {"paused", "cancelled"} ->
                Goto(w, "unlist") /\ writerLock' = NoWorker
         [] OTHER -> /\ Goto(w, IF down[w] = Size THEN "mark" ELSE "write")
                     /\ UNCHANGED writerLock
    /\ KeepRow /\ UNCHANGED files /\ Elsewhere

\* The lease is checked again between the read and the write.  A partial that was
\* unlinked under the open handle swallows the bytes.
WorkerWrite(w) ==
    /\ pc[w] = "write"
    /\ IF Current(w)
       THEN /\ temp' = IF temp = Absent THEN Absent ELSE temp + 1
            /\ Arrive(w, "loop", down[w] + 1)
       ELSE Unleased(w) /\ UNCHANGED temp
    /\ KeepRow /\ UNCHANGED <<dest, writerLock>> /\ Elsewhere

\* finalize_rust_http_staging, step by step: mark_http_finalizing and fsync ...
WorkerMark(w) ==
    /\ pc[w] = "mark"
    /\ IF ~Current(w) THEN Unleased(w) /\ KeepRow
       ELSE /\ finalization' = "finalizing"
            /\ Goto(w, IF temp = Absent THEN "error" ELSE "check")
            /\ UNCHANGED <<status, generation, token, total>>
    /\ KeepFiles /\ Elsewhere

\* ... the lease again ...
WorkerCheck(w) ==
    /\ pc[w] = "check"
    /\ IF Current(w) THEN Goto(w, "rename") ELSE Unleased(w)
    /\ KeepRow /\ KeepFiles /\ Elsewhere

\* ... the rename, refused when the destination exists ...
WorkerRename(w) ==
    /\ pc[w] = "rename"
    /\ IF dest # Absent \/ temp = Absent
       THEN Err(w) /\ UNCHANGED files
       ELSE /\ dest' = temp /\ temp' = Absent
            /\ Goto(w, IF temp = down[w] THEN "owned" ELSE "error")
    /\ KeepRow /\ UNCHANGED writerLock /\ Elsewhere

\* ... the lease once more (finalize_http_job_owned) ...
WorkerOwned(w) ==
    /\ pc[w] = "owned"
    /\ IF Current(w) THEN Goto(w, "commit") ELSE Unleased(w)
    /\ KeepRow /\ KeepFiles /\ Elsewhere

\* ... and the commit (finalize_http_job): the file is measured again, and the row
\* is updated unless the user stopped the job.
\* Mutant: without the user.
MayCommitAnyway == ~NoRow /\ dest = Size

MayCommit == ~NoRow /\ status \notin Stopped /\ dest = Size

CommitRow ==
    /\ status' = "completed" /\ token' = 0 /\ finalization' = "none"
    /\ UNCHANGED <<generation, total>>

WorkerCommit(w) ==
    /\ pc[w] = "commit"
    /\ IF MayCommit THEN CommitRow /\ Goto(w, "unlist") /\ writerLock' = NoWorker
                    ELSE KeepRow /\ Err(w) /\ UNCHANGED writerLock
    /\ UNCHANGED files /\ Elsewhere

\* All five attempts fail in the database.
WorkerCommitFails(w) ==
    /\ pc[w] = "commit" /\ ops < MaxOps
    /\ ops' = ops + 1
    /\ Err(w)
    /\ KeepRow /\ KeepFiles /\ UNCHANGED <<registry, dispatcher, threads>>

\* The worker function returned an error: the file handles close and the lease is
\* given back; a stale lease ends the thread without another word.
StillLocked(w) == writerLock    \* mutant: the handle leaks

Unlocked(w) == IF writerLock = w THEN NoWorker ELSE writerLock

WorkerError(w) ==
    /\ pc[w] = "error"
    /\ writerLock' = Unlocked(w)
    /\ IF Current(w)
       THEN /\ token' = 0
            /\ finalization' = IF finalization = "finalizing" THEN "finalizing" ELSE "none"
       ELSE UNCHANGED <<token, finalization>>
    /\ Goto(w, IF stale[w] THEN "unlist" ELSE "recover")
    /\ UNCHANGED <<status, generation, total, files>> /\ Elsewhere

\* complete_verified_http_job: the file is whole at its destination and no partial
\* is left.  The row and the disk are read first, the row is committed later.
Recoverable == MayCommit /\ temp = Absent /\ total

WorkerRecover(w) ==
    /\ pc[w] = "recover"
    /\ Goto(w, CASE Recoverable /\ status # "completed" -> "recommit"
                 [] Recoverable /\ status = "completed" -> "unlist"
                 [] OTHER -> "read")
    /\ KeepRow /\ KeepFiles /\ Elsewhere

WorkerRecommit(w) ==
    /\ pc[w] = "recommit"
    /\ IF MayCommit THEN CommitRow /\ Goto(w, "unlist") ELSE KeepRow /\ Goto(w, "read")
    /\ KeepFiles /\ Elsewhere

WorkerReadStatus(w) ==
    /\ pc[w] = "read"
    /\ Goto(w, IF status \in Stopped \cup {"completed"} THEN "unlist" ELSE "fail")
    /\ KeepRow /\ KeepFiles /\ Elsewhere

\* fail_job: recovery once more, then a guarded UPDATE (taken as one step).
WorkerFail(w) ==
    /\ pc[w] = "fail"
    /\ CASE Recoverable -> CommitRow
         [] ~Recoverable /\ ~NoRow /\ status \notin Stopped \cup {"completed"} ->
              status' = "failed" /\ UNCHANGED <<generation, token, finalization, total>>
         [] OTHER -> KeepRow
    /\ Goto(w, "unlist")
    /\ KeepFiles /\ Elsewhere

WorkerUnlist(w) ==
    /\ pc[w] = "unlist"
    /\ registry' = FALSE
    /\ Jump(w, "none")
    /\ lease' = [lease EXCEPT ![w] = 0] /\ down' = [down EXCEPT ![w] = 0]
    /\ stale' = [stale EXCEPT ![w] = FALSE]
    /\ KeepRow /\ KeepFiles /\ UNCHANGED <<dispatcher, threads, ops>>

(***************************************************************************)
(* Commands.  The webview issues them one at a time, for a row it shows    *)
(* (rows being deleted are hidden); between the click and the write, and   *)
(* between two critical sections of a handler, the worker goes on.         *)
(***************************************************************************)
NoCommand == [pc |-> "idle", partial |-> FALSE, storage |-> FALSE]

Click(shown, first, partial, storage) ==
    /\ cmd.pc = "idle" /\ ops < MaxOps
    /\ status \in shown
    /\ cmd' = [pc |-> first, partial |-> partial, storage |-> storage]
    /\ ops' = ops + 1
    /\ UNCHANGED <<row, files, registry, writerLock, dispatcher, pc, local,
                   cleaner, deleter>>

ClickPause  == Click({"queued", "running"}, "pause", FALSE, FALSE)
ClickResume == Click({"paused", "failed"}, "resume", FALSE, FALSE)
ClickStop   == \E p \in BOOLEAN :
                 Click({"queued", "running", "paused", "failed"}, "stopRead", p, FALSE)
ClickDelete == \E s \in BOOLEAN :
                 Click(Statuses \ {"deleting", "gone"}, "deleteRead", FALSE, s)
ClickClear  == Click(Statuses \ {"deleting", "gone"}, "clear", FALSE, FALSE)

JobNeverActive == FALSE         \* mutant: nobody asks the registry

\* job_is_active, runtime_job_is_active.
JobActive == registry

Done == cmd' = NoCommand
CommandKeeps == UNCHANGED <<generation, token, finalization, total, registry, writerLock,
                            dispatcher, pc, local, ops>>

\* Mutant: pausing also takes the lease away.
PauseRevokes ==
    /\ cmd.pc = "pause"
    /\ status' = IF NoRow THEN status ELSE "paused"
    /\ token' = 0
    /\ Done
    /\ UNCHANGED <<generation, finalization, total, registry, writerLock, dispatcher, pc,
                   local, ops, files, cleaner, deleter>>

\* set_job_status "paused": no look at the current status.
PauseWrite ==
    /\ cmd.pc = "pause"
    /\ status' = IF NoRow THEN status ELSE "paused"
    /\ Done
    /\ CommandKeeps /\ UNCHANGED <<files, cleaner, deleter>>

\* set_job_status "running".
ResumeWrite ==
    /\ cmd.pc = "resume"
    /\ status' = IF NoRow \/ status \in {"completed", "cancelled"} THEN status ELSE "queued"
    /\ Done
    /\ CommandKeeps /\ UNCHANGED <<files, cleaner, deleter>>

\* stop_job_internal: refuses a completed job, then cancels without looking again.
\* Also the first half of the deletion of an active job.
StopRead ==
    /\ cmd.pc \in {"stopRead", "deleteStopRead"}
    /\ cmd' = IF NoRow \/ status = "completed" THEN NoCommand
              ELSE [cmd EXCEPT !.pc = IF @ = "stopRead" THEN "stopWrite" ELSE "deleteStopWrite"]
    /\ CommandKeeps /\ UNCHANGED <<status, files, cleaner, deleter>>

StopWrite ==
    /\ cmd.pc \in {"stopWrite", "deleteStopWrite"}
    /\ status' = IF NoRow THEN status ELSE "cancelled"
    /\ cleaner' = IF cmd.partial THEN "wait" ELSE cleaner
    /\ cmd' = IF cmd.pc = "stopWrite" THEN NoCommand ELSE [cmd EXCEPT !.pc = "deleteMark"]
    /\ CommandKeeps /\ UNCHANGED <<files, deleter>>

\* delete_download_job: an active job is stopped first ...
DeleteRead ==
    /\ cmd.pc = "deleteRead"
    /\ cmd' = IF NoRow THEN NoCommand
              ELSE [cmd EXCEPT !.pc =
                      IF (JobActive \/ status \in {"running", "queued", "paused"})
                         /\ status # "completed"
                      THEN "deleteStopRead" ELSE "deleteStorage"]
    /\ CommandKeeps /\ UNCHANGED <<status, files, cleaner, deleter>>

\* ... then becomes a tombstone with a thread that waits for the worker;
DeleteMark ==
    /\ cmd.pc = "deleteMark"
    /\ status' = IF status = "cancelled" THEN "deleting" ELSE status
    /\ deleter' = [pc |-> "wait", storage |-> cmd.storage]
    /\ Done
    /\ CommandKeeps /\ UNCHANGED <<files, cleaner>>

\* an inactive one loses its files, then its row.
DeleteStorage ==
    /\ cmd.pc = "deleteStorage"
    /\ IF cmd.storage THEN temp' = Absent /\ dest' = Absent ELSE UNCHANGED files
    /\ cmd' = [cmd EXCEPT !.pc = "deleteRow"]
    /\ CommandKeeps /\ UNCHANGED <<status, cleaner, deleter>>

DeleteRow ==
    /\ cmd.pc = "deleteRow"
    /\ status' = "gone"
    /\ Done
    /\ CommandKeeps /\ UNCHANGED <<files, cleaner, deleter>>

ClearFinished ==
    /\ cmd.pc = "clear"
    /\ status' = IF status \in {"completed", "cancelled", "failed"} THEN "gone" ELSE status
    /\ Done
    /\ CommandKeeps /\ UNCHANGED <<files, cleaner, deleter>>

(***************************************************************************)
(* Detached threads.  Both look at the registry until it is free or they   *)
(* run out of patience (10 s and 30 s), and then act without looking again.*)
(***************************************************************************)
ThreadKeeps == UNCHANGED <<generation, token, finalization, total, registry, writerLock,
                           dispatcher, pc, local, cmd, ops>>

CleanerWaits ==
    /\ cleaner = "wait"
    /\ cleaner' = IF JobActive THEN "off" ELSE "remove"
    /\ ThreadKeeps /\ UNCHANGED <<status, files, deleter>>

CleanerRemoves ==
    /\ cleaner = "remove"
    /\ temp' = Absent /\ cleaner' = "off"
    /\ ThreadKeeps /\ UNCHANGED <<status, dest, deleter>>

DeleterOff == [pc |-> "off", storage |-> FALSE]

DeleterWaits ==
    /\ deleter.pc = "wait"
    /\ deleter' = IF JobActive THEN DeleterOff ELSE [deleter EXCEPT !.pc = "remove"]
    /\ ThreadKeeps /\ UNCHANGED <<status, files, cleaner>>

DeleterRemoves ==
    /\ deleter.pc = "remove"
    /\ IF deleter.storage THEN temp' = Absent /\ dest' = Absent ELSE UNCHANGED files
    /\ deleter' = [deleter EXCEPT !.pc = "purge"]
    /\ ThreadKeeps /\ UNCHANGED <<status, cleaner>>

DeleterPurges ==
    /\ deleter.pc = "purge"
    /\ status' = IF status = "deleting" THEN "gone" ELSE status
    /\ deleter' = DeleterOff
    /\ ThreadKeeps /\ UNCHANGED <<files, cleaner>>

(***************************************************************************)
(* The process dies and starts again: memory and file locks are gone, the  *)
(* row and the files stay, migrate turns running into queued.              *)
(***************************************************************************)
Crash ==
    /\ ops < MaxOps /\ ops' = ops + 1
    /\ status' = IF status = "running" THEN "queued" ELSE status
    /\ registry' = FALSE /\ writerLock' = NoWorker /\ dispatcher' = "idle"
    /\ pc' = [w \in Workers |-> "none"]
    /\ lease' = [w \in Workers |-> 0] /\ down' = [w \in Workers |-> 0]
    /\ stale' = [w \in Workers |-> FALSE]
    /\ cmd' = NoCommand /\ cleaner' = "off" /\ deleter' = DeleterOff
    /\ UNCHANGED <<generation, token, finalization, total, files>>

\* create_http_download_job: the row is queued and the .part file reserved, empty.
Init ==
    /\ status = "queued" /\ generation = 0 /\ token = 0 /\ finalization = "none"
    /\ total = FALSE
    /\ temp = 0 /\ dest = Absent
    /\ registry = FALSE /\ writerLock = NoWorker /\ dispatcher = "idle"
    /\ pc = [w \in Workers |-> "none"]
    /\ lease = [w \in Workers |-> 0] /\ down = [w \in Workers |-> 0]
    /\ stale = [w \in Workers |-> FALSE]
    /\ cmd = NoCommand /\ cleaner = "off" /\ deleter = DeleterOff
    /\ ops = 0

WorkerStep(w) ==
    \/ WorkerStart(w) \/ WorkerLock(w) \/ WorkerOpen(w) \/ WorkerTransportError(w)
    \/ WorkerLoop(w) \/ WorkerWrite(w) \/ WorkerMark(w) \/ WorkerCheck(w)
    \/ WorkerRename(w) \/ WorkerOwned(w) \/ WorkerCommit(w) \/ WorkerError(w)
    \/ WorkerRecover(w) \/ WorkerRecommit(w) \/ WorkerReadStatus(w) \/ WorkerFail(w)
    \/ WorkerUnlist(w)

DispatcherStep == Claim \/ \E w \in Workers : Launch(w)

CommandStep ==
    \/ PauseWrite \/ ResumeWrite \/ StopRead \/ StopWrite
    \/ DeleteRead \/ DeleteMark \/ DeleteStorage \/ DeleteRow \/ ClearFinished

Clicks == ClickPause \/ ClickResume \/ ClickStop \/ ClickDelete \/ ClickClear

CleanerStep == CleanerWaits \/ CleanerRemoves
DeleterStep == DeleterWaits \/ DeleterRemoves \/ DeleterPurges

Next ==
    \/ DispatcherStep
    \/ \E w \in Workers : WorkerStep(w) \/ WorkerCommitFails(w)
    \/ Clicks \/ CommandStep
    \/ CleanerStep \/ DeleterStep
    \/ Crash

Spec == Init /\ [][Next]_vars

\* Threads that can run do run; the dispatcher's reconciliation keeps polling.
\* Nothing is assumed of the user, of crashes or of database failures.
Fairness ==
    /\ WF_vars(DispatcherStep)
    /\ \A w \in Workers : WF_vars(WorkerStep(w))
    /\ WF_vars(CommandStep) /\ WF_vars(CleanerStep) /\ WF_vars(DeleterStep)

FairSpec == Spec /\ Fairness

(***************************************************************************)
(* Properties.                                                             *)
(***************************************************************************)
TypeOK ==
    /\ status \in Statuses
    /\ generation \in Nat /\ token \in Nat
    /\ finalization \in {"none", "downloading", "finalizing"}
    /\ total \in BOOLEAN
    /\ temp \in Nat \cup {Absent} /\ dest \in Nat \cup {Absent}
    /\ registry \in BOOLEAN
    /\ writerLock \in Workers \cup {NoWorker}
    /\ dispatcher \in {"idle", "claimed"}
    /\ pc \in [Workers -> WorkerPCs]
    /\ lease \in [Workers -> Nat] /\ down \in [Workers -> Nat]
    /\ stale \in [Workers -> BOOLEAN]
    /\ cmd \in [pc : {"idle", "pause", "resume", "stopRead", "stopWrite", "deleteRead",
                      "deleteStopRead", "deleteStopWrite", "deleteMark", "deleteStorage",
                      "deleteRow", "clear"},
                partial : BOOLEAN, storage : BOOLEAN]
    /\ cleaner \in {"off", "wait", "remove"}
    /\ deleter \in [pc : {"off", "wait", "remove", "purge"}, storage : BOOLEAN]
    /\ ops \in Nat

\* A worker that has a lease never loses it to another one: while the row exists,
\* the row still names that worker's generation.  (The stale-lease exits are a
\* second line of defence; registry and launch already exclude a second worker.)
LeaseIsExclusive ==
    \A w \in Workers :
        pc[w] \in LeasedPCs /\ ~NoRow =>
            generation = lease[w] /\ token = lease[w]

\* One thread at most has the partial open, and it holds the lock file.
OneWriter ==
    \A w \in Workers : pc[w] \in FilePCs \cup {"owned", "commit"} => writerLock = w

\* A row becomes completed only with its whole file at the destination, and while it
\* is completed the file stays there, whatever stops, errors, cleanups and crashes
\* interleave with the rename and the commit; only a deletion with storage takes it.
CompletedHasFile ==
    [][status' = "completed" =>
          \/ dest' = Size
          \/ DeleteStorage
          \/ status = "completed" /\ dest # Size]_vars

\* Nobody removes files under a worker that uses them, although the cleanup thread,
\* the deletion thread and the delete command look at the registry once and remove
\* later, and a claimed job may still be launched in between.
FilesRemovedOnlyWhenIdle ==
    cleaner = "remove" \/ deleter.pc = "remove" \/ cmd.pc = "deleteStorage" =>
        \A w \in Workers : pc[w] \notin LeasedPCs

\* No step of a worker takes a job out of paused, cancelled or deleting: the write
\* that ends a download always loses against the user's decision.
WorkerNeverOverridesUser ==
    [][\A w \in Workers : WorkerStep(w) => (status \in Stopped => status' = status)]_vars

\* The job as the contract sees it: the column jobs.status as a wish, a worker with a
\* lease as the owner, and the destination file when it is whole.
Wish == CASE status \in {"queued", "running"} -> "wanted"
          [] status = "paused" -> "held"
          [] status \in {"cancelled", "deleting"} -> "dropped"
          [] status = "completed" -> "done"
          [] OTHER -> status
Owners == {w \in Workers : pc[w] \in LeasedPCs}

Contract == INSTANCE JobContract WITH wish <- Wish, whole <- dest = Size, owners <- Owners

\* Registry, lease, lock, rename and commit together keep the contract of a download:
\* one owner at a time, taken only for a wanted job; done only over a whole file and
\* never against the user; files removed only of a job that is over and unowned.
KeepsContract == Contract!Spec

\* A paused or cancelled job goes quiet: its worker sees the stop and leaves.
StoppedGoesQuiet ==
    status \in {"paused", "cancelled"} ~> (~registry \/ status \notin {"paused", "cancelled"})

\* A download that was started comes to an end, through any error and any crash.
DownloadEnds ==
    status \in {"queued", "running"} ~> status \notin {"queued", "running"}

\* All work on a job comes to an end, by itself or because it is stopped.
WorkEnds == StoppedGoesQuiet /\ DownloadEnds
=============================================================================
