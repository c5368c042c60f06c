----------------------------- MODULE Dispatcher -----------------------------
(***************************************************************************)
(* The download dispatcher (src/src-tauri/src/dispatcher.rs): one async    *)
(* task that claims queued jobs from SQLite under per-kind slot limits and *)
(* starts one OS thread per claimed job, the worker threads' entry and     *)
(* exit paths, and the command handlers that change job status, priority   *)
(* or limits under its feet.                                               *)
(*                                                                         *)
(* Two stores of truth are kept apart because the code keeps them apart:   *)
(* the jobs table (status, priority, retries: durable, shared by           *)
(* everyone) and the process memory (registry, gates, threads: lost at a   *)
(* crash).  What a worker does between start and end is abstracted to how  *)
(* it can end; the HTTP worker is detailed in HttpJob and HttpTransfer.    *)
(***************************************************************************)
EXTENDS Naturals, FiniteSets

CONSTANTS
    Jobs,           \* job ids; AUTOINCREMENT, so larger is younger
    MediaJobs,      \* the jobs with a media_jobs row; the others are HTTP
    Batches,        \* playlist batches
    BatchOf,        \* batch of a playlist job, NoBatch for a standalone job
    NoBatch,
    Threads,        \* identities for worker threads
    MaxLimit,       \* largest slot limit per kind that settings accept (8, 4)
    Window,         \* LIMIT 64 of the candidate query
    MediaRuntime,   \* TRUE iff yt-dlp/ffmpeg were found at startup
    PromptInstall,  \* TRUE: setup installs the dispatcher within its first 16 ms
    InitialStatuses, InitialPriorities,  \* what an earlier run left in the table
    MaxOps          \* bound: commands + restarts + claim errors per behaviour

ASSUME JobsAssumption    == Jobs \subseteq Nat \ {0} /\ IsFiniteSet(Jobs)
ASSUME MediaAssumption   == MediaJobs \subseteq Jobs
ASSUME BatchAssumption   == /\ NoBatch \notin Batches
                            /\ BatchOf \in [Jobs -> Batches \cup {NoBatch}]
                            /\ \A j \in Jobs \ MediaJobs : BatchOf[j] = NoBatch
Kinds == {"http", "media"}
ASSUME ThreadsAssumption == IsFiniteSet(Threads)
ASSUME LimitAssumption   == MaxLimit \in [Kinds -> Nat \ {0}]
ASSUME WindowAssumption  == Window \in Nat /\ \A k \in Kinds : MaxLimit[k] <= Window
ASSUME FlagsAssumption   == MediaRuntime \in BOOLEAN /\ PromptInstall \in BOOLEAN
ASSUME BudgetAssumption  == MaxOps \in Nat

Statuses == {"new", "queued", "running", "paused", "cancelled", "completed",
             "failed", "deleting", "gone"}
Priorities == {"high", "normal", "low"}
ASSUME InitialAssumption == /\ InitialStatuses \subseteq Statuses \ {"running"}
                            /\ InitialPriorities \subseteq Priorities

VARIABLES
    status,     \* jobs.status; "new" = no row yet, "gone" = row deleted
    priority,   \* jobs.priority
    retries,    \* playlist_items.automatic_retries
    limit,      \* DynamicSlotState.limit per kind
    inUse,      \* DynamicSlotState.active per kind
    registry,   \* active_downloads plus the keys of active_media_pids
    thread,     \* worker threads: program counter and job
    resumers,   \* live resume_media_worker_when_idle threads per job
    deleters,   \* jobs with a live schedule_job_deletion_after_idle thread
    wake,       \* a Wake event waits in the channel
    disp,       \* the dispatcher task
    installed,  \* GLOBAL_DISPATCHER is set
    ops         \* budget spent

table == <<status, priority, retries>>
background == <<resumers, deleters>>
vars  == <<table, limit, inUse, registry, thread, background, wake, disp, installed, ops>>

NoJob == 0
KindOf(j) == IF j \in MediaJobs THEN "media" ELSE "http"
Exists(j) == status[j] \notin {"new", "gone"}
Pending(j) == status[j] \in {"queued", "running"}
SiblingsOf(j) == {i \in Jobs : BatchOf[i] = BatchOf[j]}

Idle == [pc |-> "idle", kind |-> "http", job |-> NoJob, started |-> FALSE]
NoThread == [pc |-> "none", job |-> NoJob]

ThreadPCs == {"none", "start", "work", "failing", "fail", "advance", "unlist",
              "release", "wake"}
DispPCs == {"idle", "acquire", "claim", "launch", "dead"}

\* Threads that still own the registry entry of their job, and threads that
\* still own a slot permit (a worker leaves the registry before it drops it).
RegisteredPCs == {"start", "work", "failing", "fail", "advance", "unlist"}
HoldingPCs == RegisteredPCs \cup {"release"}

(***************************************************************************)
(* Candidate selection (claim_next_job, candidate_ids).                    *)
(***************************************************************************)
Rank(p) == CASE p = "high" -> 0 [] p = "normal" -> 1 [] p = "low" -> 2

Before(i, j) ==
    \/ Rank(priority[i]) < Rank(priority[j])
    \/ Rank(priority[i]) = Rank(priority[j]) /\ i < j

\* Items of a playlist are inserted in order of position, so within a batch the
\* job id stands for the position.  Only the first pending item is offered.
IsHead(j) == \A i \in SiblingsOf(j) : Pending(i) => j <= i

\* Mutant: the query selects queued rows only.
CandidatesQueued(k) ==
    {j \in Jobs : /\ KindOf(j) = k
                  /\ status[j] = "queued"
                  /\ BatchOf[j] # NoBatch => IsHead(j)}

Candidates(k) ==
    {j \in Jobs : /\ KindOf(j) = k
                  /\ Pending(j)
                  /\ BatchOf[j] # NoBatch => IsHead(j)}

\* Mutant: LIMIT is one row short.
InWindowShort(k) ==
    {j \in Candidates(k) : Cardinality({i \in Candidates(k) : Before(i, j)}) < Window - 1}

\* ORDER BY rank, id LIMIT Window.
InWindow(k) ==
    {j \in Candidates(k) : Cardinality({i \in Candidates(k) : Before(i, j)}) < Window}

\* Mutant: the claim does not look at the registries.
ClaimableAny(k) == InWindow(k)
Claimable(k) == InWindow(k) \ registry

IsBest(j, k) == /\ j \in Claimable(k)
                /\ \A i \in Claimable(k) : i = j \/ Before(j, i)

(***************************************************************************)
(* The dispatcher task.                                                    *)
(***************************************************************************)
\* Drop of a DynamicSlotPermit: saturating_sub.
Release(k) == inUse' = [inUse EXCEPT ![k] = IF @ = 0 THEN 0 ELSE @ - 1]

\* The next try_start of the drain loop: HTTP, then media, then again from the
\* top if this round started something, else back to waiting.
Advance(started) ==
    disp' = CASE disp.kind = "http" -> [Idle EXCEPT !.pc = "acquire", !.kind = "media",
                                                    !.started = started]
              [] disp.kind = "media" /\ started -> [Idle EXCEPT !.pc = "acquire"]
              [] disp.kind = "media" /\ ~started -> Idle

RecvWake ==
    /\ disp.pc = "idle" /\ wake
    /\ wake' = FALSE
    /\ disp' = [Idle EXCEPT !.pc = "acquire"]
    /\ UNCHANGED <<table, limit, inUse, registry, thread, background, installed, ops>>

\* Mutant: the tick finds no wake and does nothing.
ReconcileSkips == disp.pc = "idle" /\ ~wake /\ UNCHANGED vars

\* The 16 ms timeout with the reconciliation interval elapsed.
Reconcile ==
    /\ disp.pc = "idle" /\ ~wake
    /\ PromptInstall => installed
    /\ disp' = [Idle EXCEPT !.pc = "acquire"]
    /\ UNCHANGED <<table, limit, inUse, registry, thread, background, wake, installed, ops>>

AcquireSlot ==
    /\ disp.pc = "acquire"
    /\ inUse[disp.kind] < limit[disp.kind]
    /\ disp.kind = "media" => MediaRuntime
    /\ inUse' = [inUse EXCEPT ![disp.kind] = @ + 1]
    /\ disp' = [disp EXCEPT !.pc = "claim"]
    /\ UNCHANGED <<table, limit, registry, thread, background, wake, installed, ops>>

NoSlot ==
    /\ disp.pc = "acquire"
    /\ \/ inUse[disp.kind] >= limit[disp.kind]
       \/ disp.kind = "media" /\ ~MediaRuntime   \* permit taken and dropped at once
    /\ Advance(disp.started)
    /\ UNCHANGED <<table, limit, inUse, registry, thread, background, wake, installed, ops>>

\* One SQLite transaction; the registry is read inside it, and only this task
\* ever adds to the registry.
ClaimNext ==
    /\ disp.pc = "claim"
    /\ \E j \in Jobs :
          /\ IsBest(j, disp.kind)
          /\ status' = [status EXCEPT ![j] = "running"]
          /\ disp' = [disp EXCEPT !.pc = "launch", !.job = j]
    /\ UNCHANGED <<priority, retries, limit, inUse, registry, thread, background,
                   wake, installed, ops>>

\* Mutant: the permit is kept when nothing was claimed.
ClaimNothingLeaks ==
    /\ disp.pc = "claim" /\ Claimable(disp.kind) = {}
    /\ Advance(disp.started)
    /\ UNCHANGED <<table, limit, inUse, registry, thread, background, wake, installed, ops>>

\* Nothing to claim: the permit is dropped.
ClaimNothing ==
    /\ disp.pc = "claim" /\ Claimable(disp.kind) = {}
    /\ Release(disp.kind)
    /\ Advance(disp.started)
    /\ UNCHANGED <<table, limit, registry, thread, background, wake, installed, ops>>

\* SQLITE_BUSY or any other error of the transaction: as if nothing was queued.
ClaimError ==
    /\ disp.pc = "claim" /\ ops < MaxOps
    /\ Release(disp.kind)
    /\ Advance(disp.started)
    /\ ops' = ops + 1
    /\ UNCHANGED <<table, limit, registry, thread, background, wake, installed>>

\* The HTTP entry point marks the row before it spawns the thread; the media
\* worker does so from its own thread (WorkerStart).
MarkedAtLaunch(j) ==
    IF KindOf(j) = "http" /\ Pending(j) THEN [status EXCEPT ![j] = "running"] ELSE status

Launch(t) ==
    /\ disp.pc = "launch" /\ installed
    /\ thread[t].pc = "none"
    /\ Advance(TRUE)
    /\ IF disp.job \in registry
       THEN /\ Release(disp.kind) /\ wake' = TRUE       \* completion(), return false
            /\ UNCHANGED <<status, registry, thread>>
       ELSE /\ registry' = registry \cup {disp.job}
            /\ thread' = [thread EXCEPT ![t] = [pc |-> "start", job |-> disp.job]]
            /\ status' = MarkedAtLaunch(disp.job)
            /\ UNCHANGED <<inUse, wake>>
    /\ UNCHANGED <<priority, retries, limit, background, installed, ops>>

\* launch_http/launch_media find no global dispatcher and panic: the task dies
\* and its permit is dropped while unwinding.
LaunchPanics ==
    /\ disp.pc = "launch" /\ ~installed
    /\ Release(disp.kind)
    /\ disp' = [Idle EXCEPT !.pc = "dead"]
    /\ UNCHANGED <<table, limit, registry, thread, background, wake, installed, ops>>

(***************************************************************************)
(* Worker threads (run_download_worker_with_engine_and_registry,           *)
(* run_media_worker_with_completion_options).                              *)
(***************************************************************************)
StopStatuses(k) == IF k = "http" THEN {"paused", "cancelled", "completed", "deleting"}
                                 ELSE {"paused", "cancelled", "completed"}

\* Where a thread goes when its worker function has returned.
AfterWork(j) == IF BatchOf[j] = NoBatch THEN "unlist" ELSE "advance"

Goto(t, pc) == thread' = [thread EXCEPT ![t].pc = pc]

\* First look at the row: claim_http_lease, or the status read of the media worker.
WorkerStart(t) ==
    LET j == thread[t].job IN
    /\ thread[t].pc = "start"
    /\ CASE status[j] = "gone" -> Goto(t, "failing") /\ UNCHANGED status
         [] status[j] \in StopStatuses(KindOf(j)) ->
                Goto(t, AfterWork(j)) /\ UNCHANGED status
         [] OTHER -> /\ Goto(t, "work")
                     /\ status' = IF Pending(j) THEN [status EXCEPT ![j] = "running"]
                                                ELSE status
    /\ UNCHANGED <<priority, retries, limit, inUse, registry, background, wake, disp,
                   installed, ops>>

\* The transfer succeeded.  HTTP commits unless the user stopped the job; media
\* commits only from running, and otherwise reports an error.
MayComplete(j) == IF KindOf(j) = "http"
                  THEN Exists(j) /\ status[j] \notin {"paused", "cancelled", "deleting"}
                  ELSE status[j] = "running"

WorkerFinish(t) ==
    LET j == thread[t].job IN
    /\ thread[t].pc = "work"
    /\ IF MayComplete(j)
       THEN status' = [status EXCEPT ![j] = "completed"] /\ Goto(t, AfterWork(j))
       ELSE UNCHANGED status /\ Goto(t, "failing")
    /\ UNCHANGED <<priority, retries, limit, inUse, registry, background, wake, disp,
                   installed, ops>>

\* The poll inside the transfer loop sees a pause or a cancellation.
WorkerSeesStop(t) ==
    LET j == thread[t].job IN
    /\ thread[t].pc = "work" /\ status[j] \in {"paused", "cancelled"}
    /\ Goto(t, AfterWork(j))
    /\ UNCHANGED <<table, limit, inUse, registry, background, wake, disp, installed, ops>>

WorkerError(t) ==
    /\ thread[t].pc = "work"
    /\ Goto(t, "failing")
    /\ UNCHANGED <<table, limit, inUse, registry, background, wake, disp, installed, ops>>

\* The error path reads the status, and only then writes 'failed'.
WorkerReadsStatus(t) ==
    LET j == thread[t].job IN
    /\ thread[t].pc = "failing"
    /\ Goto(t, IF status[j] \in StopStatuses(KindOf(j)) THEN AfterWork(j) ELSE "fail")
    /\ UNCHANGED <<table, limit, inUse, registry, background, wake, disp, installed, ops>>

\* fail_job guards its UPDATE; fail_media_job does not.
Failed(j) == IF Exists(j) /\ (KindOf(j) = "http" => status[j] \notin StopStatuses("http"))
             THEN [status EXCEPT ![j] = "failed"] ELSE status

WorkerFail(t) ==
    LET j == thread[t].job IN
    /\ thread[t].pc = "fail"
    /\ status' = Failed(j)
    /\ Goto(t, AfterWork(j))
    /\ UNCHANGED <<priority, retries, limit, inUse, registry, background, wake, disp,
                   installed, ops>>

\* advance_playlist_batch, with the job status standing for the item status: wake
\* the dispatcher for the next item, or, when nothing of the batch is left to run,
\* requeue once the failures diagnosed as temporary (any subset of them).  The
\* early returns (the job was only paused; the batch is paused or cancelled; an
\* item still runs) leave everything alone.
AdvanceBatch(t) ==
    LET j == thread[t].job
        siblings == SiblingsOf(j)
        failed == {i \in siblings : status[i] = "failed" /\ retries[i] < 1}
    IN
    /\ thread[t].pc = "advance"
    /\ Goto(t, "unlist")
    /\ \/ UNCHANGED <<status, retries, wake>>
       \/ /\ status[j] \in {"completed", "failed", "cancelled", "gone"}
          /\ \E i \in siblings : status[i] = "queued"
          /\ wake' = TRUE
          /\ UNCHANGED <<status, retries>>
       \/ /\ status[j] \in {"completed", "failed", "cancelled", "gone"}
          /\ \A i \in siblings : ~Pending(i)
          /\ \E again \in (SUBSET failed) \ {{}} :
                /\ status'  = [i \in Jobs |-> IF i \in again THEN "queued" ELSE status[i]]
                /\ retries' = [i \in Jobs |-> IF i \in again THEN retries[i] + 1
                                                             ELSE retries[i]]
          /\ wake' = TRUE
    /\ UNCHANGED <<priority, limit, inUse, registry, background, disp, installed, ops>>

\* Mutant: the guard does not remove the entry.
WorkerUnlistForgets(t) ==
    /\ thread[t].pc = "unlist"
    /\ Goto(t, "release")
    /\ UNCHANGED <<table, limit, inUse, registry, background, wake, disp, installed, ops>>

\* The guards drop in reverse order of declaration: registry entry first, then
\* the completion closure, which drops the permit and wakes the dispatcher.
WorkerUnlist(t) ==
    /\ thread[t].pc = "unlist"
    /\ registry' = registry \ {thread[t].job}
    /\ Goto(t, "release")
    /\ UNCHANGED <<table, limit, inUse, background, wake, disp, installed, ops>>

WorkerRelease(t) ==
    /\ thread[t].pc = "release"
    /\ Release(KindOf(thread[t].job))
    /\ Goto(t, "wake")
    /\ UNCHANGED <<table, limit, registry, background, wake, disp, installed, ops>>

\* Mutant: the thread keeps its job after the completion.
WorkerWakeKeepsJob(t) ==
    /\ thread[t].pc = "wake"
    /\ wake' = TRUE
    /\ Goto(t, "none")
    /\ UNCHANGED <<table, limit, inUse, registry, background, disp, installed, ops>>

WorkerWake(t) ==
    /\ thread[t].pc = "wake"
    /\ wake' = TRUE
    /\ thread' = [thread EXCEPT ![t] = NoThread]
    /\ UNCHANGED <<table, limit, inUse, registry, background, disp, installed, ops>>

(***************************************************************************)
(* Detached threads: resume_media_worker_when_idle, one per resume command,*)
(* and schedule_job_deletion_after_idle, one per deletion.                 *)
(***************************************************************************)
ResumerStarts(j) ==
    /\ resumers[j] > 0 /\ j \notin registry
    /\ resumers' = [resumers EXCEPT ![j] = @ - 1]
    /\ status' = IF Exists(j) /\ status[j] \notin {"completed", "cancelled"}
                 THEN [status EXCEPT ![j] = "running"] ELSE status
    /\ wake' = TRUE
    /\ UNCHANGED <<priority, retries, limit, inUse, registry, thread, deleters, disp,
                   installed, ops>>

\* 7 s went by and the job was busy at every poll (the last poll and the write
\* that follows it are one step).
ResumerGivesUp(j) ==
    /\ resumers[j] > 0 /\ j \in registry
    /\ resumers' = [resumers EXCEPT ![j] = @ - 1]
    /\ status' = Failed(j)
    /\ UNCHANGED <<priority, retries, limit, inUse, registry, thread, deleters, wake,
                   disp, installed, ops>>

\* schedule_job_deletion_after_idle: the row goes if it is still a tombstone; the
\* thread gives up when the job stays busy for 30 s.
DeleterStep(j) ==
    /\ j \in deleters
    /\ deleters' = deleters \ {j}
    /\ status' = IF j \notin registry /\ status[j] = "deleting"
                 THEN [status EXCEPT ![j] = "gone"] ELSE status
    /\ UNCHANGED <<priority, retries, limit, inUse, registry, thread, resumers, wake,
                   disp, installed, ops>>

(***************************************************************************)
(* Command handlers.  They need LocalState, which setup manages only after *)
(* the dispatcher is installed.                                            *)
(***************************************************************************)
Command == installed /\ ops < MaxOps /\ ops' = ops + 1

Enqueue(j) ==
    /\ Command /\ status[j] = "new"
    /\ status' = [status EXCEPT ![j] = "queued"]
    /\ priority' = [priority EXCEPT ![j] = "normal"]
    /\ wake' = TRUE
    /\ UNCHANGED <<retries, limit, inUse, registry, thread, background, disp, installed>>

\* Mutant: a pause empties the registry at once.
PauseJobFrees(j) ==
    /\ Command /\ Exists(j)
    /\ status' = [status EXCEPT ![j] = "paused"]
    /\ registry' = registry \ {j}
    /\ UNCHANGED <<priority, retries, limit, inUse, thread, background, wake, disp, installed>>

\* set_job_status "paused": the UPDATE has no guard on the current status.
PauseJob(j) ==
    /\ Command /\ Exists(j)
    /\ status' = [status EXCEPT ![j] = "paused"]
    /\ UNCHANGED <<priority, retries, limit, inUse, registry, thread, background, wake,
                   disp, installed>>

\* set_job_status "running": queued first, then the engine's own resume path.
ResumeJob(j) ==
    /\ Command /\ Exists(j) /\ status[j] \notin {"completed", "cancelled"}
    /\ status' = [status EXCEPT ![j] = "queued"]
    /\ IF KindOf(j) = "http"
       THEN wake' = TRUE /\ UNCHANGED resumers
       ELSE /\ resumers' = IF MediaRuntime THEN [resumers EXCEPT ![j] = @ + 1] ELSE resumers
            /\ UNCHANGED wake
    /\ UNCHANGED <<priority, retries, limit, inUse, registry, thread, deleters, disp,
                   installed>>

StopJob(j) ==
    /\ Command /\ Exists(j) /\ status[j] # "completed"
    /\ status' = [status EXCEPT ![j] = "cancelled"]
    /\ UNCHANGED <<priority, retries, limit, inUse, registry, thread, background, wake,
                   disp, installed>>

\* delete_download_job: a tombstone while the job may be active, else the row goes.
\* HttpJob splits it at the points where the connection lock is released.
DeleteJob(j) ==
    LET wasActive == j \in registry \/ status[j] \in {"running", "queued", "paused"} IN
    /\ Command /\ Exists(j)
    /\ IF wasActive /\ status[j] # "completed"
       THEN /\ status' = [status EXCEPT ![j] = "deleting"]
            /\ deleters' = deleters \cup {j}
       ELSE /\ status' = [status EXCEPT ![j] = "gone"]
            /\ UNCHANGED deleters
    /\ UNCHANGED <<priority, retries, limit, inUse, registry, thread, resumers, wake,
                   disp, installed>>

ClearFinished ==
    /\ Command
    /\ status' = [j \in Jobs |-> IF status[j] \in {"completed", "cancelled", "failed"}
                                 THEN "gone" ELSE status[j]]
    /\ UNCHANGED <<priority, retries, limit, inUse, registry, thread, background, wake,
                   disp, installed>>

\* set_download_priority: a standalone job, or every item of a playlist at once.
SetPriority(j, p) ==
    LET targets == IF BatchOf[j] = NoBatch THEN {j} ELSE SiblingsOf(j) IN
    /\ Command /\ Exists(j)
    /\ priority' = [i \in Jobs |-> IF i \in targets THEN p ELSE priority[i]]
    /\ wake' = TRUE
    /\ UNCHANGED <<status, retries, limit, inUse, registry, thread, background, disp, installed>>

\* save_settings: both gates take the new limits; permits already out stay out.
UpdateConcurrency(k, n) ==
    /\ Command /\ limit[k] # n
    /\ limit' = [limit EXCEPT ![k] = n]
    /\ wake' = TRUE
    /\ UNCHANGED <<table, inUse, registry, thread, background, disp, installed>>

(***************************************************************************)
(* Process start, crash and restart.                                       *)
(***************************************************************************)
\* install_global, then run_download_worker / run_media_worker for what is queued.
InstallGlobal ==
    /\ ~installed
    /\ installed' = TRUE
    /\ wake' = (wake \/ \E j \in Jobs : status[j] = "queued")
    /\ UNCHANGED <<table, limit, inUse, registry, thread, background, disp, ops>>

\* The process dies and starts again: migrate turns running into queued, memory
\* is fresh, settings (the limits) persist.
Restart ==
    /\ installed /\ ops < MaxOps
    /\ ops' = ops + 1
    /\ status' = [j \in Jobs |-> IF status[j] = "running" THEN "queued" ELSE status[j]]
    /\ inUse' = [k \in Kinds |-> 0]
    /\ registry' = {}
    /\ thread' = [t \in Threads |-> NoThread]
    /\ resumers' = [j \in Jobs |-> 0]
    /\ deleters' = {}
    /\ wake' = FALSE
    /\ disp' = Idle
    /\ installed' = FALSE
    /\ UNCHANGED <<priority, retries, limit>>

Init ==
    /\ status \in [Jobs -> InitialStatuses]
    /\ priority \in [Jobs -> InitialPriorities]
    /\ retries = [j \in Jobs |-> 0]
    /\ limit \in [Kinds -> UNION {1..MaxLimit[k] : k \in Kinds}]
    /\ \A k \in Kinds : limit[k] <= MaxLimit[k]
    /\ inUse = [k \in Kinds |-> 0]
    /\ registry = {}
    /\ thread = [t \in Threads |-> NoThread]
    /\ resumers = [j \in Jobs |-> 0]
    /\ deleters = {}
    /\ wake = FALSE
    /\ disp = Idle
    /\ installed = FALSE
    /\ ops = 0

DispatcherStep ==
    \/ RecvWake \/ Reconcile \/ AcquireSlot \/ NoSlot
    \/ ClaimNext \/ ClaimNothing \/ (\E t \in Threads : Launch(t)) \/ LaunchPanics

WorkerStep(t) ==
    \/ WorkerStart(t) \/ WorkerFinish(t) \/ WorkerSeesStop(t) \/ WorkerError(t)
    \/ WorkerReadsStatus(t) \/ WorkerFail(t) \/ AdvanceBatch(t)
    \/ WorkerUnlist(t) \/ WorkerRelease(t) \/ WorkerWake(t)

ResumerStep(j) == ResumerStarts(j) \/ ResumerGivesUp(j)

CommandStep ==
    \/ \E j \in Jobs : \/ Enqueue(j) \/ PauseJob(j) \/ ResumeJob(j) \/ StopJob(j)
                       \/ DeleteJob(j)
                       \/ \E p \in Priorities : SetPriority(j, p)
    \/ ClearFinished
    \/ \E k \in Kinds : \E n \in 1..MaxLimit[k] : UpdateConcurrency(k, n)

Next ==
    \/ DispatcherStep \/ ClaimError
    \/ \E t \in Threads : WorkerStep(t)
    \/ \E j \in Jobs : ResumerStep(j) \/ DeleterStep(j)
    \/ CommandStep
    \/ InstallGlobal \/ Restart

Spec == Init /\ [][Next]_vars

\* The runtime keeps polling the dispatcher task, the OS keeps scheduling the
\* threads, and every transfer ends at some point: it completes, sees the stop
\* or fails.  Nothing is assumed of the user, of crashes or of claim errors.
Fairness ==
    /\ WF_vars(DispatcherStep)
    /\ WF_vars(InstallGlobal)
    /\ \A t \in Threads : WF_vars(WorkerStep(t))
    /\ \A j \in Jobs : WF_vars(ResumerStep(j))

FairSpec == Spec /\ Fairness

(***************************************************************************)
(* Properties.                                                             *)
(***************************************************************************)
TypeOK ==
    /\ status \in [Jobs -> Statuses]
    /\ priority \in [Jobs -> Priorities]
    /\ retries \in [Jobs -> Nat]
    /\ limit \in [Kinds -> Nat]
    /\ inUse \in [Kinds -> Nat]
    /\ registry \subseteq Jobs
    /\ thread \in [Threads -> [pc : ThreadPCs, job : Jobs \cup {NoJob}]]
    /\ \A t \in Threads : thread[t].pc = "none" <=> thread[t].job = NoJob
    /\ resumers \in [Jobs -> Nat]
    /\ deleters \subseteq Jobs
    /\ wake \in BOOLEAN
    /\ disp \in [pc : DispPCs, kind : Kinds, job : Jobs \cup {NoJob}, started : BOOLEAN]
    /\ disp.pc = "launch" => disp.job \in Jobs /\ KindOf(disp.job) = disp.kind
    /\ installed \in BOOLEAN
    /\ ops \in Nat

\* The worker threads that hold a permit of kind k.
Holders(k) == {t \in Threads : /\ thread[t].pc \in HoldingPCs
                               /\ KindOf(thread[t].job) = k}

DispatcherHolds(k) == IF disp.kind = k /\ disp.pc \in {"claim", "launch"} THEN 1 ELSE 0

\* A slot counter always equals the permits that exist: no exit path of a drain
\* or of a worker leaks a permit (the kind would starve for the rest of the
\* process) or drops one twice (the saturating subtraction would hide it).
PermitAccounting ==
    \A k \in Kinds : inUse[k] = Cardinality(Holders(k)) + DispatcherHolds(k)

\* The registry names exactly the jobs of the threads that have not left it.
RegistryTruthful ==
    registry = {thread[t].job : t \in {u \in Threads : thread[u].pc \in RegisteredPCs}}

\* Two threads never work for the same job, whatever is paused, resumed,
\* cancelled, deleted or cleared while a worker is still winding down.
OneWorkerPerJob ==
    \A t, u \in Threads :
        /\ thread[t].pc \in RegisteredPCs
        /\ thread[u].pc \in RegisteredPCs
        /\ thread[t].job = thread[u].job
        => t = u

\* What the claim read in the registry still holds at the launch, although the
\* task awaited the blocking pool in between: a claimed job is never refused.
LaunchFindsJobIdle == disp.pc = "launch" => disp.job \notin registry

\* Active jobs stay in the candidate list (they are 'running'), yet they never
\* fill the LIMIT of the query and hide an idle job from a free slot.
WindowHidesNothing ==
    disp.pc = "claim" =>
        (Candidates(disp.kind) \ registry # {} => Claimable(disp.kind) # {})

\* A queued job does not stay queued for ever: a lost wake, a failed claim, a
\* full gate, a lower priority or a crash only delay it.
QueuedIsServed == \A j \in Jobs : status[j] = "queued" ~> status[j] # "queued"

\* A row marked running with no worker behind it (claimed before a crash, or set
\* by a resume thread) is picked up again or leaves that state.
RunningIsServed ==
    \A j \in Jobs : (status[j] = "running" /\ j \notin registry)
                        ~> (status[j] # "running" \/ j \in registry)
=============================================================================
