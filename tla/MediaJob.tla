------------------------------ MODULE MediaJob ------------------------------
(***************************************************************************)
(* One media job: the worker thread that runs yt-dlp and FFmpeg as child   *)
(* processes, its attempts and recoveries, the steps from the finished     *)
(* file in the work directory to the completed row, and the commands,      *)
(* resume, cleanup and deletion threads that interleave with it            *)
(* (media/download/worker.rs, media/mod.rs, downloads/commands.rs,         *)
(* downloads/storage.rs, lib.rs).                                          *)
(*                                                                         *)
(* Files are counted, not read.  The registry of pids and the registry of  *)
(* external processes are filled and emptied around the same processes:    *)
(* one set, extern, stands for both as far as killing goes.  A process     *)
(* that outlives a crash of the program is not followed.                   *)
(***************************************************************************)
EXTENDS Integers, FiniteSets

CONSTANTS
    Workers,   \* identities for worker threads
    Attempts,  \* invocations of yt-dlp one worker may make
    MaxOps,    \* bound: commands + crashes + database failures + exits per behaviour,
    QuitCost   \* bound: an exit is counted as so many of them

ASSUME AttemptsAssumption == Attempts \in Nat \ {0}
ASSUME OpsAssumption      == MaxOps \in Nat /\ QuitCost \in Nat \ {0}

VARIABLES
    status,    \* jobs.status; "gone" = row deleted
    item,      \* playlist_items.status of this job
    error,     \* media_jobs.error is not null
    known,     \* media_jobs.output_path: a finished file, 0 for none
    work,      \* what the work directory holds: "partial", "file"
    dest,      \* finished files of this job: "name" is 1, "name (2)" is 2 ...
    registry,  \* the job is in active_media_pids
    extern,    \* workers whose child process is registered
    child,     \* per worker: its child process
    orphan,    \* a child process runs on without its worker
    dispatcher,\* "idle", or "claimed" between claim and launch
    pc,        \* per worker: program counter,
    tries,     \* attempts left,
    seen,      \* status its watch loop stopped at,
    final,     \* the name it took at the destination
    cmd,       \* the command handler in progress
    resumers,  \* resume_media_worker_when_idle threads
    cleaner,   \* cleanup_managed_paths_when_idle thread
    deleter,   \* schedule_job_deletion_after_idle thread
    overridden,\* history: a stop or a deletion was overwritten by a thread
    torn,      \* history: a crash or a database failure between two statements
    quit,      \* "off", or how far the exit of the application has come
    kept,      \* history: the job was live when the user quit, and was left alone since
    ops        \* budget spent

row     == <<status, item, error, known>>
files   == <<work, dest>>
local   == <<tries, seen, final>>
threads == <<cmd, resumers, cleaner, deleter>>
exit    == <<quit, kept>>
vars == <<row, files, registry, extern, child, orphan, dispatcher, pc, local, threads,
          overridden, torn, exit, ops>>

Statuses == {"queued", "running", "paused", "cancelled", "completed", "failed",
             "deleting", "gone"}
NoRow == status = "gone"
ProcessPCs == {"spawned", "watch", "exited", "convert"}
BusyPCs == ProcessPCs \cup {"spawn", "refresh", "post", "place", "rename", "moved", "sweep",
                            "commit"}
WorkerPCs == BusyPCs \cup {"none", "start", "backoff", "record", "item", "itemStopped",
                           "error", "read", "fail", "failItem", "unlist"}

\* UPDATE playlist_items ... WHERE job_id: no row, no item.
Item(s) == item' = IF NoRow THEN item ELSE s
\* A thread that is not a command moves the row out of a decision of the user.
Overriding == overridden' = (overridden \/ (status \in {"cancelled", "deleting"}
                                             /\ status' \notin {"cancelled", "deleting", "gone"}))

(***************************************************************************)
(* Dispatcher: claim and launch, as in module Dispatcher but for one job.  *)
(***************************************************************************)
\* Mutant: only queued rows are claimed.
ClaimQueuedOnly ==
    /\ dispatcher = "idle" /\ ~registry
    /\ status = "queued"
    /\ status' = "running"
    /\ item' = IF item \in {"queued", "running"} THEN "running" ELSE item
    /\ dispatcher' = "claimed"
    /\ UNCHANGED <<error, known, files, registry, extern, child, orphan, pc, local, threads,
                   overridden, torn, exit, ops>>

Claim ==
    /\ dispatcher = "idle" /\ ~registry
    /\ status \in {"queued", "running"}
    /\ status' = "running"
    /\ item' = IF item \in {"queued", "running"} THEN "running" ELSE item
    /\ dispatcher' = "claimed"
    /\ UNCHANGED <<error, known, files, registry, extern, child, orphan, pc, local, threads,
                   overridden, torn, exit, ops>>

\* run_media_worker_with_completion_options: the job is listed or the launch refused.
Launch(w) ==
    /\ dispatcher = "claimed" /\ pc[w] = "none"
    /\ dispatcher' = "idle"
    /\ IF registry THEN UNCHANGED <<registry, pc, tries>>
       ELSE /\ registry' = TRUE
            /\ pc' = [pc EXCEPT ![w] = "start"]
            /\ tries' = [tries EXCEPT ![w] = Attempts]
    /\ UNCHANGED <<row, files, extern, child, orphan, seen, final, threads, overridden,
                   torn, exit, ops>>

(***************************************************************************)
(* Worker thread.                                                          *)
(***************************************************************************)
Goto(w, target) == pc' = [pc EXCEPT ![w] = target]
ElsewhereBut == UNCHANGED <<dispatcher, threads, torn, exit, ops>>
Elsewhere == UNCHANGED registry /\ ElsewhereBut
KeepProcess == UNCHANGED <<extern, child, orphan>>
Child(w, state) == child' = [child EXCEPT ![w] = state]
Running == status = "running"      \* ensure_media_job_running

\* The row is marked running unless the user stopped it before the thread got here; a
\* finished file of an attempt that failed before is not trusted again.
WorkerStart(w) ==
    /\ pc[w] = "start"
    /\ IF NoRow \/ status \in {"paused", "cancelled", "completed"}
       THEN /\ Goto(w, IF NoRow THEN "error" ELSE "unlist")
            /\ UNCHANGED <<row, work, overridden>>
       ELSE /\ status' = IF status = "queued" THEN "running" ELSE status
            /\ item' = IF item \in {"queued", "running"} THEN "running" ELSE item
            /\ work' = IF error THEN work \ {"file"} ELSE work
            /\ error' = FALSE
            /\ Goto(w, "spawn")
            /\ UNCHANGED <<known, overridden>>
    /\ UNCHANGED <<dest, local>> /\ KeepProcess /\ Elsewhere

\* Mutant: attempts without end.
SpawnUnchecked(w) ==
    /\ pc[w] = "spawn"
    /\ tries' = [tries EXCEPT ![w] = @ - 1]
    /\ Child(w, "running") /\ Goto(w, "spawned")
    /\ UNCHANGED <<row, files, extern, orphan, seen, final, overridden>> /\ Elsewhere

\* The next attempt, or none is left; the process may fail to start.
WorkerSpawn(w) ==
    /\ pc[w] = "spawn"
    /\ IF tries[w] = 0
       THEN Goto(w, "error") /\ UNCHANGED <<child, tries>>
       ELSE /\ tries' = [tries EXCEPT ![w] = @ - 1]
            /\ \/ Child(w, "running") /\ Goto(w, "spawned")
               \/ UNCHANGED <<child, pc>>
    /\ UNCHANGED <<row, files, extern, orphan, seen, final, overridden>> /\ Elsewhere

\* register_external_process and the pid in active_media_pids, where an exit may have
\* removed the job.
WorkerRegister(w) ==
    /\ pc[w] = "spawned"
    /\ extern' = extern \cup {w} /\ registry' = TRUE
    /\ Goto(w, "watch")
    /\ UNCHANGED <<row, files, child, orphan, local, overridden>> /\ ElsewhereBut

\* Mutant: a paused worker leaves without killing its process.
WatchLeavesProcess(w) ==
    /\ pc[w] = "watch"
    /\ CASE NoRow \/ status \in {"paused", "cancelled"} ->
              /\ extern' = extern \ {w} /\ Goto(w, "unlist") /\ UNCHANGED child
         [] OTHER ->
              /\ child[w] \in {"good", "bad"}
              /\ Goto(w, "exited") /\ UNCHANGED <<extern, child>>
    /\ UNCHANGED <<row, files, local, overridden, orphan>> /\ Elsewhere

\* One turn of the watch loop.  Paused and cancelled kill the process; "deleting" does
\* not.  When the row is gone the query fails and the thread leaves its process behind.
WorkerWatch(w) ==
    /\ pc[w] = "watch"
    /\ CASE NoRow ->
              /\ extern' = extern \ {w}
              /\ orphan' = (orphan \/ child[w] = "running")
              /\ Child(w, "none") /\ Goto(w, "error") /\ UNCHANGED seen
         [] status \in {"paused", "cancelled"} ->
              /\ extern' = extern \ {w}
              /\ seen' = [seen EXCEPT ![w] = status]
              /\ Child(w, "none") /\ Goto(w, "itemStopped") /\ UNCHANGED orphan
         [] OTHER ->
              /\ child[w] \in {"good", "bad"}
              /\ Goto(w, "exited") /\ UNCHANGED <<extern, orphan, child, seen>>
    /\ UNCHANGED <<row, files, tries, final, overridden>> /\ Elsewhere

\* The item gets the status that was read before the process was killed.
WorkerItemStopped(w) ==
    /\ pc[w] = "itemStopped"
    /\ Item(seen[w])
    /\ seen' = [seen EXCEPT ![w] = "queued"]
    /\ Goto(w, "unlist")
    /\ UNCHANGED <<status, error, known, files, tries, final, overridden>> /\ KeepProcess /\ Elsewhere

\* After the exit the process is unregistered.  A failed exit reads the status again:
\* a stop ends the thread, otherwise one of the recoveries goes on with another attempt
\* (profile, cookies, format, HLS, legacy source), waits (429), renews the link (403),
\* or gives up (captcha).
WorkerExited(w) ==
    /\ pc[w] = "exited"
    /\ extern' = extern \ {w}
    /\ Child(w, "none")
    /\ CASE child[w] = "good" -> Goto(w, IF "file" \in work THEN "post" ELSE "spawn")
         [] child[w] = "bad" /\ status \in {"paused", "cancelled"} -> Goto(w, "unlist")
         [] OTHER -> \/ \E next \in {"spawn", "backoff", "error"} : Goto(w, next)
                     \/ "partial" \in work /\ Goto(w, "refresh")
    /\ UNCHANGED <<row, files, orphan, local, overridden>> /\ Elsewhere

\* cooperative_media_sleep.
WorkerBackoff(w) ==
    /\ pc[w] = "backoff"
    /\ Goto(w, IF NoRow \/ status \in {"paused", "cancelled"} THEN "unlist" ELSE "spawn")
    /\ UNCHANGED <<row, files, local, overridden>> /\ KeepProcess /\ Elsewhere

\* refresh_media_info: a cancelled or failed renewal only changes the message.
WorkerRefresh(w) ==
    /\ pc[w] = "refresh"
    /\ Goto(w, "spawn")
    /\ UNCHANGED <<row, files, local, overridden>> /\ KeepProcess /\ Elsewhere

\* The processing stages run FFmpeg and ffprobe as registered processes; every stage
\* begins and ends with ensure_media_job_running.
WorkerPost(w) ==
    /\ pc[w] = "post"
    /\ IF Running /\ "file" \in work
       THEN Child(w, "running") /\ extern' = extern \cup {w} /\ Goto(w, "convert")
       ELSE Goto(w, "error") /\ UNCHANGED <<child, extern>>
    /\ UNCHANGED <<row, files, orphan, local, overridden>> /\ Elsewhere

WorkerConvert(w) ==
    /\ pc[w] = "convert" /\ child[w] \in {"good", "bad"}
    /\ extern' = extern \ {w}
    /\ Child(w, "none")
    /\ Goto(w, IF child[w] = "good" /\ Running THEN "place" ELSE "error")
    /\ UNCHANGED <<row, files, orphan, local, overridden>> /\ Elsewhere

\* unique_destination: the first name that is free.
FreeName(n) == n \notin dest /\ \A m \in 1 .. n - 1 : m \in dest

WorkerPlace(w) ==
    /\ pc[w] = "place"
    /\ Goto(w, IF Running THEN "rename" ELSE "error")
    /\ \E n \in 1 .. Cardinality(dest) + 1 :
          FreeName(n) /\ final' = [final EXCEPT ![w] = n]
    /\ UNCHANGED <<row, files, tries, seen, overridden>> /\ KeepProcess /\ Elsewhere

\* Mutant: a rename that failed is not noticed.
RenameUnchecked(w) ==
    /\ pc[w] = "rename"
    /\ \/ work' = work \ {"file"} /\ dest' = dest \cup {final[w]}
       \/ UNCHANGED files
    /\ Goto(w, "moved")
    /\ UNCHANGED <<row, local, overridden>> /\ KeepProcess /\ Elsewhere

WorkerRename(w) ==
    /\ pc[w] = "rename"
    /\ \/ /\ "file" \in work
          /\ work' = work \ {"file"} /\ dest' = dest \cup {final[w]}
          /\ Goto(w, "moved")
       \/ UNCHANGED files /\ Goto(w, "error")
    /\ UNCHANGED <<row, local, overridden>> /\ KeepProcess /\ Elsewhere

\* A stop that came during the rename takes the file away again.
WorkerMoved(w) ==
    /\ pc[w] = "moved"
    /\ IF Running THEN Goto(w, "sweep") /\ UNCHANGED dest
                  ELSE Goto(w, "error") /\ dest' = dest \ {final[w]}
    /\ UNCHANGED <<row, work, local, overridden>> /\ KeepProcess /\ Elsewhere

WorkerSweep(w) ==
    /\ pc[w] = "sweep"
    /\ work' = {}
    /\ Goto(w, "commit")
    /\ UNCHANGED <<row, dest, local, overridden>> /\ KeepProcess /\ Elsewhere

\* Mutant: the completion is not guarded by the status.
CommitUnguarded(w) ==
    /\ pc[w] = "commit"
    /\ IF NoRow THEN dest' = dest \ {final[w]} /\ Goto(w, "error") /\ UNCHANGED status
       ELSE status' = "completed" /\ Goto(w, "record") /\ UNCHANGED dest
    /\ Overriding
    /\ UNCHANGED <<item, error, known, work, local>> /\ KeepProcess /\ Elsewhere

WorkerCommit(w) ==
    /\ pc[w] = "commit"
    /\ IF Running
       THEN status' = "completed" /\ Goto(w, "record") /\ UNCHANGED dest
       ELSE dest' = dest \ {final[w]} /\ Goto(w, "error") /\ UNCHANGED status
    /\ UNCHANGED <<item, error, known, work, local, overridden>> /\ KeepProcess /\ Elsewhere

\* Mutant: the playlist item is forgotten.
RecordOnly(w) ==
    /\ pc[w] = "record"
    /\ known' = IF status = "completed" THEN final[w] ELSE known
    /\ error' = (error /\ status # "completed")
    /\ Goto(w, "unlist")
    /\ UNCHANGED <<status, item, files, local, overridden>> /\ KeepProcess /\ Elsewhere

\* Two more statements, each guarded by the completed row.
WorkerRecord(w) ==
    /\ pc[w] = "record"
    /\ known' = IF status = "completed" THEN final[w] ELSE known
    /\ error' = (error /\ status # "completed")
    /\ Goto(w, "item")
    /\ UNCHANGED <<status, item, files, local, overridden>> /\ KeepProcess /\ Elsewhere

WorkerItem(w) ==
    /\ pc[w] = "item"
    /\ item' = IF status = "completed" THEN "completed" ELSE item
    /\ Goto(w, "unlist")
    /\ UNCHANGED <<status, error, known, files, local, overridden>> /\ KeepProcess /\ Elsewhere

\* A statement of the completion fails in the database.
WorkerDatabaseFails(w) ==
    /\ pc[w] \in {"commit", "record", "item"} /\ ops < MaxOps
    /\ ops' = ops + 1 /\ torn' = TRUE
    /\ Goto(w, "error")
    /\ UNCHANGED <<row, files, registry, dispatcher, threads, local, overridden, exit>>
    /\ KeepProcess

\* Mutant: a worker that the exit took the process from reports a failure.
ErrorForgetsExit(w) ==
    /\ pc[w] = "error"
    /\ Goto(w, IF status \in {"paused", "cancelled", "completed"} THEN "unlist" ELSE "fail")
    /\ UNCHANGED <<row, files, local, overridden>> /\ KeepProcess /\ Elsewhere

\* The worker function returned an error: nothing is written of it while the application
\* exits.  Else the status is read (a missing row reads as failed) and fail_media_job
\* writes the row without looking again.
WorkerError(w) ==
    /\ pc[w] = "error"
    /\ Goto(w, IF quit # "off" \/ status \in {"paused", "cancelled", "completed"} THEN "unlist" ELSE "fail")
    /\ UNCHANGED <<row, files, local, overridden>> /\ KeepProcess /\ Elsewhere

FailRow ==
    /\ status' = IF NoRow THEN status ELSE "failed"
    /\ error' = (error \/ ~NoRow)

WorkerFail(w) ==
    /\ pc[w] = "fail"
    /\ FailRow /\ Overriding
    /\ Goto(w, "failItem")
    /\ UNCHANGED <<item, known, files, local>> /\ KeepProcess /\ Elsewhere

WorkerFailItem(w) ==
    /\ pc[w] = "failItem"
    /\ Item("failed")
    /\ Goto(w, "unlist")
    /\ UNCHANGED <<status, error, known, files, local, overridden>> /\ KeepProcess /\ Elsewhere

\* Mutant: the entry in the registry outlives the thread.
UnlistForgets(w) ==
    /\ pc[w] = "unlist"
    /\ Goto(w, "none") /\ tries' = [tries EXCEPT ![w] = 0]
    /\ final' = [final EXCEPT ![w] = 0]
    /\ UNCHANGED <<row, files, seen, registry, dispatcher, threads, overridden, torn, exit, ops>>
    /\ KeepProcess

\* The thread ends: ActiveMediaGuard, then the completion that wakes the dispatcher.
WorkerUnlist(w) ==
    /\ pc[w] = "unlist"
    /\ registry' = FALSE
    /\ Goto(w, "none") /\ tries' = [tries EXCEPT ![w] = 0]
    /\ final' = [final EXCEPT ![w] = 0]
    /\ UNCHANGED <<row, files, seen, dispatcher, threads, overridden, torn, exit, ops>>
    /\ KeepProcess

\* The exit has emptied the registry under workers that go on until the program ends.
Leaving == quit \in {"killed", "row", "item"}

(***************************************************************************)
(* Child processes: yt-dlp leaves partials and at the end a file, though   *)
(* not in the last moments of an exit.                                     *)
(***************************************************************************)
ChildWrites(w) ==
    /\ child[w] = "running" /\ pc[w] # "convert"
    /\ work' = work \cup {"partial"}
    /\ UNCHANGED <<row, dest, registry, extern, child, orphan, dispatcher, pc, local,
                   threads, overridden, torn, exit, ops>>

ChildExits(w) ==
    /\ child[w] = "running"
    /\ \/ Child(w, "bad") /\ UNCHANGED work
       \/ /\ ~Leaving /\ Child(w, "good")
          /\ \/ work' = IF pc[w] = "convert" THEN work ELSE {"file"}
             \/ UNCHANGED work
    /\ UNCHANGED <<row, dest, registry, extern, orphan, dispatcher, pc, local, threads,
                   overridden, torn, exit, ops>>

\* terminate_external_processes and the kill by pid: a registered process dies.
Kill == child' = [w \in Workers |->
                    IF w \in extern /\ child[w] = "running" THEN "bad" ELSE child[w]]

(***************************************************************************)
(* Commands, one at a time, for a row the page shows.                      *)
(***************************************************************************)
NoCommand == [pc |-> "idle", partial |-> FALSE, storage |-> FALSE, known |-> 0]

Click(shown, first, partial, storage) ==
    /\ cmd.pc = "idle" /\ ops < MaxOps
    /\ status \in shown
    /\ cmd' = [NoCommand EXCEPT !.pc = first, !.partial = partial, !.storage = storage]
    /\ ops' = ops + 1 /\ kept' = FALSE
    /\ UNCHANGED <<row, files, registry, extern, child, orphan, dispatcher, pc, local,
                   resumers, cleaner, deleter, overridden, torn, quit>>

ClickPause  == Click({"queued", "running"}, "pause", FALSE, FALSE)
ClickResume == Click({"paused", "failed"}, "resume", FALSE, FALSE)
ClickStop   == \E p \in BOOLEAN :
                 Click({"queued", "running", "paused", "failed"}, "stopRead", p, FALSE)
ClickDelete == \E s \in BOOLEAN :
                 Click(Statuses \ {"deleting", "gone"}, "deleteRead", FALSE, s)
ClickClear  == Click(Statuses \ {"deleting", "gone"}, "clear", FALSE, FALSE)

JobNeverActive == FALSE     \* mutant: nobody asks the registries

\* job_is_active, runtime_job_is_active.
JobActive == registry \/ extern # {}

Done == cmd' = NoCommand
Next1(target) == cmd' = [cmd EXCEPT !.pc = target]
CommandKeeps == UNCHANGED <<error, known, registry, extern, orphan, dispatcher, pc, local,
                            overridden, torn, exit, ops>>
NoKill == UNCHANGED child

\* set_job_status "paused": the row, its item unless completed, then the processes.
PauseWrite ==
    /\ cmd.pc = "pause"
    /\ status' = IF NoRow THEN status ELSE "paused"
    /\ item' = IF NoRow \/ item = "completed" THEN item ELSE "paused"
    /\ Next1("kill")
    /\ CommandKeeps /\ NoKill /\ UNCHANGED <<files, resumers, cleaner, deleter>>

\* Mutant: pausing also takes the job off the registry.
KillUnlists ==
    /\ cmd.pc = "kill"
    /\ Kill /\ Done
    /\ registry' = FALSE
    /\ UNCHANGED <<row, files, extern, orphan, dispatcher, pc, local, overridden, torn, exit,
                   ops, resumers, cleaner, deleter>>

CommandKills ==
    /\ cmd.pc \in {"kill", "stopKill", "deleteKill"}
    /\ Kill
    /\ IF cmd.pc = "stopKill" THEN Next1("stopWait")
       ELSE IF cmd.pc = "deleteKill" THEN Next1("deleteMark") ELSE Done
    /\ CommandKeeps /\ UNCHANGED <<status, item, files, resumers, cleaner, deleter>>

\* set_job_status "running": queued at once, and a thread that waits for the old worker.
ResumeWrite ==
    /\ cmd.pc = "resume"
    /\ IF NoRow \/ status \in {"completed", "cancelled"}
       THEN UNCHANGED <<status, resumers>>
       ELSE /\ status' = "queued"
            /\ resumers' = [resumers EXCEPT !.waiting = @ + 1]
    /\ Done
    /\ CommandKeeps /\ NoKill /\ UNCHANGED <<item, files, cleaner, deleter>>

\* stop_job_internal: a completed job is refused, then the row is written without
\* looking again.  Also the first half of the deletion of an active job.
StopRead ==
    /\ cmd.pc \in {"stopRead", "deleteStopRead"}
    /\ IF NoRow \/ status = "completed" THEN Done
       ELSE Next1(IF cmd.pc = "stopRead" THEN "stopWrite" ELSE "deleteStopWrite")
    /\ CommandKeeps /\ NoKill /\ UNCHANGED <<status, item, files, resumers, cleaner, deleter>>

StopWrite ==
    /\ cmd.pc \in {"stopWrite", "deleteStopWrite"}
    /\ status' = IF NoRow THEN status ELSE "cancelled"
    /\ item' = IF NoRow \/ item = "completed" THEN item ELSE "cancelled"
    /\ Next1(IF cmd.pc = "stopWrite" THEN "stopKill" ELSE "deleteKill")
    /\ CommandKeeps /\ NoKill /\ UNCHANGED <<files, resumers, cleaner, deleter>>

\* The stop waits up to 15 s for the processes, then hands the partial to a thread.
StopWait ==
    /\ cmd.pc = "stopWait"
    /\ cleaner' = IF cmd.partial THEN "wait" ELSE cleaner
    /\ Done
    /\ CommandKeeps /\ NoKill /\ UNCHANGED <<status, item, files, resumers, deleter>>

\* delete_download_job: an active job is stopped and becomes a tombstone ...
DeleteRead ==
    /\ cmd.pc = "deleteRead"
    /\ cmd' = IF NoRow THEN NoCommand
              ELSE [cmd EXCEPT !.known = known,
                      !.pc = IF (JobActive \/ status \in {"running", "queued", "paused"})
                                /\ status # "completed"
                             THEN "deleteStopRead" ELSE "deleteStorage"]
    /\ CommandKeeps /\ NoKill /\ UNCHANGED <<status, item, files, resumers, cleaner, deleter>>

DeleteMark ==
    /\ cmd.pc = "deleteMark"
    /\ status' = IF status = "cancelled" THEN "deleting" ELSE status
    /\ deleter' = [pc |-> "wait", storage |-> cmd.storage, known |-> cmd.known]
    /\ Done
    /\ CommandKeeps /\ NoKill /\ UNCHANGED <<item, files, resumers, cleaner>>

\* ... an inactive one loses its files, then its row.
Remove(path) == work' = {} /\ dest' = dest \ {path}

DeleteStorage ==
    /\ cmd.pc = "deleteStorage"
    /\ IF cmd.storage THEN Remove(cmd.known) ELSE UNCHANGED files
    /\ Next1("deleteRow")
    /\ CommandKeeps /\ NoKill /\ UNCHANGED <<status, item, resumers, cleaner, deleter>>

DeleteRow ==
    /\ cmd.pc = "deleteRow"
    /\ status' = "gone"
    /\ Done
    /\ CommandKeeps /\ NoKill /\ UNCHANGED <<item, files, resumers, cleaner, deleter>>

ClearFinished ==
    /\ cmd.pc = "clear"
    /\ status' = IF status \in {"completed", "cancelled", "failed"} THEN "gone" ELSE status
    /\ Done
    /\ CommandKeeps /\ NoKill /\ UNCHANGED <<item, files, resumers, cleaner, deleter>>

(***************************************************************************)
(* Detached threads.                                                       *)
(***************************************************************************)
ThreadKeeps == UNCHANGED <<known, registry, extern, child, orphan, dispatcher, pc, local,
                           cmd, torn, exit, ops>>

\* resume_media_worker_when_idle, for up to seven seconds: once the old worker is gone
\* the row becomes running whatever it was, short of completed or cancelled, ...
ResumerStarts ==
    /\ resumers.waiting > 0 /\ ~registry
    /\ status' = IF NoRow \/ status \in {"completed", "cancelled"} THEN status ELSE "running"
    /\ resumers' = [waiting |-> resumers.waiting - 1, writing |-> resumers.writing + 1]
    /\ Overriding
    /\ ThreadKeeps /\ UNCHANGED <<item, error, files, cleaner, deleter>>

\* ... and its item as well; the launch itself is left to the dispatcher.
ResumerItem ==
    /\ resumers.writing > 0
    /\ item' = IF NoRow \/ item \in {"completed", "cancelled"} THEN item ELSE "running"
    /\ resumers' = [resumers EXCEPT !.writing = @ - 1]
    /\ ThreadKeeps /\ UNCHANGED <<status, error, files, cleaner, deleter, overridden>>

\* ... or it fails the job, without a look at its status.
ResumerGivesUp ==
    /\ resumers.waiting > 0 /\ registry
    /\ FailRow /\ Item("failed") /\ Overriding
    /\ resumers' = [resumers EXCEPT !.waiting = @ - 1]
    /\ ThreadKeeps /\ UNCHANGED <<files, cleaner, deleter>>

CleanerWaits ==
    /\ cleaner = "wait"
    /\ cleaner' = IF JobActive THEN "off" ELSE "remove"
    /\ ThreadKeeps /\ UNCHANGED <<status, item, error, files, resumers, deleter, overridden>>

CleanerRemoves ==
    /\ cleaner = "remove"
    /\ Remove(0) /\ cleaner' = "off"
    /\ ThreadKeeps /\ UNCHANGED <<status, item, error, resumers, deleter, overridden>>

DeleterOff == [pc |-> "off", storage |-> FALSE, known |-> 0]

DeleterWaits ==
    /\ deleter.pc = "wait"
    /\ deleter' = IF JobActive THEN DeleterOff ELSE [deleter EXCEPT !.pc = "remove"]
    /\ ThreadKeeps /\ UNCHANGED <<status, item, error, files, resumers, cleaner, overridden>>

DeleterRemoves ==
    /\ deleter.pc = "remove"
    /\ IF deleter.storage THEN Remove(deleter.known) ELSE UNCHANGED files
    /\ deleter' = [deleter EXCEPT !.pc = "purge"]
    /\ ThreadKeeps /\ UNCHANGED <<status, item, error, resumers, cleaner, overridden>>

DeleterPurges ==
    /\ deleter.pc = "purge"
    /\ status' = IF status = "deleting" THEN "gone" ELSE status
    /\ deleter' = DeleterOff
    /\ ThreadKeeps /\ UNCHANGED <<item, error, files, resumers, cleaner, overridden>>

(***************************************************************************)
(* The application is quit (prepare_full_exit), or dies, and starts again. *)
(***************************************************************************)
QuitKeeps == UNCHANGED <<error, known, files, orphan, dispatcher, pc, local, threads,
                         overridden, torn>>

\* EXIT_REQUESTED; only the first request goes on.
QuitAsked ==
    /\ quit = "off" /\ ops + QuitCost <= MaxOps /\ ops' = ops + QuitCost
    /\ quit' = "asked"
    /\ kept' = /\ status \in {"queued", "running"}
               /\ cmd.pc = "idle" /\ resumers.waiting = 0
               /\ \A w \in Workers : pc[w] # "fail"
    /\ QuitKeeps /\ UNCHANGED <<status, item, registry, extern, child>>

\* The processes of both registries are killed and the registry is emptied.  Nothing keeps
\* a worker from starting another process, nor the dispatcher from starting another worker.
QuitKills ==
    /\ quit = "asked" /\ quit' = "killed"
    /\ Kill /\ registry' = FALSE
    /\ QuitKeeps /\ UNCHANGED <<status, item, extern, kept, ops>>

AfterRestart(s) == IF s = "running" THEN "queued" ELSE s

\* The rows, then the items: two statements of one batch.
QuitRequeuesRow ==
    /\ quit = "killed" /\ quit' = "row"
    /\ status' = AfterRestart(status)
    /\ QuitKeeps /\ UNCHANGED <<item, registry, extern, child, kept, ops>>

QuitRequeuesItem ==
    /\ quit = "row" /\ quit' = "item"
    /\ item' = AfterRestart(item)
    /\ QuitKeeps /\ UNCHANGED <<status, registry, extern, child, kept, ops>>

Restart ==
    /\ torn' = TRUE
    /\ status' = AfterRestart(status) /\ item' = AfterRestart(item)
    /\ registry' = FALSE /\ extern' = {} /\ dispatcher' = "idle"
    /\ child' = [w \in Workers |-> "none"] /\ pc' = [w \in Workers |-> "none"]
    /\ tries' = [w \in Workers |-> 0] /\ seen' = [w \in Workers |-> "queued"]
    /\ final' = [w \in Workers |-> 0]
    /\ cmd' = NoCommand /\ resumers' = [waiting |-> 0, writing |-> 0]
    /\ cleaner' = "off" /\ deleter' = DeleterOff
    /\ quit' = "off" /\ kept' = FALSE
    /\ UNCHANGED <<error, known, files, orphan, overridden>>

QuitLeaves == quit = "item" /\ Restart /\ UNCHANGED ops

Crash == ops < MaxOps /\ ops' = ops + 1 /\ Restart

Init ==
    /\ status = "queued" /\ item = "queued" /\ error = FALSE /\ known = 0
    /\ work = {} /\ dest = {}
    /\ registry = FALSE /\ extern = {} /\ orphan = FALSE /\ dispatcher = "idle"
    /\ child = [w \in Workers |-> "none"] /\ pc = [w \in Workers |-> "none"]
    /\ tries = [w \in Workers |-> 0] /\ seen = [w \in Workers |-> "queued"]
    /\ final = [w \in Workers |-> 0]
    /\ cmd = NoCommand /\ resumers = [waiting |-> 0, writing |-> 0]
    /\ cleaner = "off" /\ deleter = DeleterOff
    /\ overridden = FALSE /\ torn = FALSE /\ quit = "off" /\ kept = FALSE /\ ops = 0

WorkerStep(w) ==
    \/ WorkerStart(w) \/ WorkerSpawn(w) \/ WorkerRegister(w) \/ WorkerWatch(w)
    \/ WorkerItemStopped(w) \/ WorkerExited(w) \/ WorkerBackoff(w) \/ WorkerRefresh(w)
    \/ WorkerPost(w) \/ WorkerConvert(w) \/ WorkerPlace(w) \/ WorkerRename(w)
    \/ WorkerMoved(w) \/ WorkerSweep(w) \/ WorkerCommit(w) \/ WorkerRecord(w)
    \/ WorkerItem(w) \/ WorkerError(w) \/ WorkerFail(w) \/ WorkerFailItem(w)
    \/ WorkerUnlist(w)

DispatcherStep == Claim \/ \E w \in Workers : Launch(w)
ChildStep(w) == ChildWrites(w) \/ ChildExits(w)
CommandStep ==
    \/ PauseWrite \/ CommandKills \/ ResumeWrite \/ StopRead \/ StopWrite \/ StopWait
    \/ DeleteRead \/ DeleteMark \/ DeleteStorage \/ DeleteRow \/ ClearFinished
Clicks == ClickPause \/ ClickResume \/ ClickStop \/ ClickDelete \/ ClickClear
ResumerStep == ResumerStarts \/ ResumerItem \/ ResumerGivesUp
CleanerStep == CleanerWaits \/ CleanerRemoves
QuitStep ==
    QuitKills \/ QuitRequeuesRow \/ QuitRequeuesItem \/ QuitLeaves
DeleterStep == DeleterWaits \/ DeleterRemoves \/ DeleterPurges

Next ==
    \/ DispatcherStep
    \/ \E w \in Workers : WorkerStep(w) \/ WorkerDatabaseFails(w) \/ ChildStep(w)
    \/ Clicks \/ CommandStep \/ ResumerStep \/ CleanerStep \/ DeleterStep
    \/ QuitAsked \/ QuitStep \/ Crash

Spec == Init /\ [][Next]_vars

\* Threads that can run do run, child processes come to an end, the dispatcher keeps
\* polling.  Nothing is assumed of the user, of crashes or of database failures.
Fairness ==
    /\ WF_vars(DispatcherStep)
    /\ \A w \in Workers : WF_vars(WorkerStep(w)) /\ WF_vars(ChildExits(w))
    /\ WF_vars(CommandStep) /\ WF_vars(ResumerStep)
    /\ WF_vars(CleanerStep) /\ WF_vars(DeleterStep) /\ WF_vars(QuitStep)

FairSpec == Spec /\ Fairness

(***************************************************************************)
(* Properties.                                                             *)
(***************************************************************************)
CommandPCs == {"idle", "pause", "kill", "resume", "stopRead", "stopWrite", "stopKill",
               "stopWait", "deleteRead", "deleteStopRead", "deleteStopWrite", "deleteKill",
               "deleteMark", "deleteStorage", "deleteRow", "clear"}
Commands == [pc : CommandPCs, partial : BOOLEAN, storage : BOOLEAN, known : Nat]

TypeOK ==
    /\ status \in Statuses /\ item \in Statuses
    /\ error \in BOOLEAN /\ known \in Nat
    /\ work \subseteq {"partial", "file"} /\ dest \subseteq Nat \ {0}
    /\ registry \in BOOLEAN /\ extern \subseteq Workers
    /\ child \in [Workers -> {"none", "running", "good", "bad"}]
    /\ orphan \in BOOLEAN /\ overridden \in BOOLEAN /\ torn \in BOOLEAN
    /\ dispatcher \in {"idle", "claimed"}
    /\ pc \in [Workers -> WorkerPCs]
    /\ tries \in [Workers -> 0 .. Attempts]
    /\ seen \in [Workers -> {"queued", "paused", "cancelled"}]
    /\ final \in [Workers -> Nat]
    /\ cmd \in Commands
    /\ resumers \in [waiting : Nat, writing : Nat]
    /\ cleaner \in {"off", "wait", "remove"}
    /\ deleter \in [pc : {"off", "wait", "remove", "purge"}, storage : BOOLEAN, known : Nat]
    /\ quit \in {"off", "asked", "killed", "row", "item"} /\ kept \in BOOLEAN
    /\ ops \in Nat

\* One worker at a time has the work directory, from launch to unlisting, although a
\* resume launches while the paused worker is still waiting for its process.
OneWorker == Leaving \/ \A v, w \in Workers : pc[v] # "none" /\ pc[w] # "none" => v = w

\* A child process runs only under a worker that watches it: the one way to leave a
\* process behind is that its row is deleted while it runs.
ProcessHasWorker ==
    /\ orphan => NoRow
    /\ \A w \in Workers : child[w] = "running" =>
        /\ pc[w] \in ProcessPCs
        /\ registry \/ Leaving

\* As long as no thread has overwritten a stop, the cleanup and deletion threads remove
\* files under a worker only if it works for a row that is being deleted.  (It may: the
\* launch that follows a claim does not look for tombstones.)
LiveWorkKeepsFiles ==
    cleaner = "remove" \/ deleter.pc = "remove" =>
        \/ overridden \/ Leaving \/ status \in {"deleting", "gone"}
        \/ \A w \in Workers : pc[w] \notin BusyPCs

\* A row becomes completed only over a finished file at the destination, and while it is
\* completed there is one, until a deletion takes it, row after file (or, in the last moments
\* of an exit, the second worker that the emptied registry has let in).
CompletedHasFile ==
    [][status' = "completed" =>
          \/ dest' # {} \/ cmd.pc \in {"deleteStorage", "deleteRow"} \/ overridden
          \/ status = "completed" /\ (dest = {} \/ Leaving)]_vars

\* A job that the user paused, cancelled or deleted is never reported as completed by
\* the worker that was finishing it.
StoppedNeverCompletes ==
    [][(status \in {"paused", "cancelled", "deleting"}) => status' # "completed"]_vars

\* A job that was waiting or running when the user quit is not failed by the exit, although
\* its process is killed before its row is put back into the queue: "lista para continuar".
\* Its worker, its successors and the dispatcher, which runs to the last, leave it queued,
\* running or complete, and the restart goes on with it.
ExitIsNotAFailure == kept => status \in {"queued", "running", "completed"}

Quiet == ~Leaving /\ ~registry /\ cmd.pc = "idle" /\ resumers.waiting + resumers.writing = 0
\* When all is quiet, a completed job has a completed item: any other would hold up its
\* playlist or be downloaded again.  Only a crash or a database failure between the
\* three statements of the completion can leave it so.
CompletedItem == Quiet /\ status = "completed" => torn \/ item = "completed"

\* The states of a media job are sound: types, one worker, no process without its worker, no
\* files taken from live work, and an item that tells what became of the job.
MediaJobSafe ==
    /\ TypeOK /\ OneWorker /\ ProcessHasWorker /\ LiveWorkKeepsFiles /\ CompletedItem
    /\ ExitIsNotAFailure

\* The end of a media job is earned: there is a file, and the user had not stopped it.
CompletionIsEarned == CompletedHasFile /\ StoppedNeverCompletes

\* A paused or cancelled job goes quiet: its processes die and its worker leaves.
StoppedGoesQuiet ==
    status \in {"paused", "cancelled"} ~> (~registry \/ status \notin {"paused", "cancelled"})

\* A download that was started comes to an end, through any recovery and any crash.
DownloadEnds == status \in {"queued", "running"} ~> status \notin {"queued", "running"}

\* All work on a media job comes to an end, by itself or because it is stopped.
WorkEnds == StoppedGoesQuiet /\ DownloadEnds
=============================================================================
