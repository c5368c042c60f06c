----------------------------- MODULE TorrentJob -----------------------------
(***************************************************************************)
(* One torrent job and everybody who moves it: the worker thread with its  *)
(* aria2c process, the commands, the resume, cleanup and deletion threads  *)
(* and the scheduler thread with its table of pauses, resumes and          *)
(* cancellations (torrents/mod.rs, lib.rs, downloads/commands.rs,          *)
(* downloads/storage.rs).  Torrents do not pass through the dispatcher:    *)
(* whoever wants one to run starts its worker.                             *)
(*                                                                         *)
(* An aria2c process that outlives its worker or a crash of the program is *)
(* not followed: it only shows in orphan.                                  *)
(***************************************************************************)
EXTENDS Integers, Sequences, FiniteSets

CONSTANTS
    Schedules, \* rows of download_schedules that may be created
    Days,      \* bound: the clock runs from 1 to Days
    MaxOps     \* bound: commands, crashes and failed statements per behaviour

ASSUME DaysAssumption      == Days \in Nat \ {0}
ASSUME SchedulesAssumption == IsFiniteSet(Schedules)

VARIABLES
    status,    \* jobs.status; "gone" = row deleted
    data,      \* destination directory: "none", "partial" or "whole"
    registry,  \* active_media_pids: "none", "listed" (pid 0) or "pid"
    child,     \* aria2c: "none", "running", "good" or "bad" (exited)
    orphan,    \* aria2c was left running, its row deleted ("rowless") or kept ("unwatched")
    pc,        \* worker: program counter
    cmd,       \* the command in progress: statement, cleanup, storage
    resumers,  \* resume_torrent_worker_when_idle threads
    cleaner,   \* cleanup_managed_paths_when_idle thread
    deleter,   \* schedule_job_deletion_after_idle thread: pc, storage
    now,       \* the day
    plan,      \* download_schedules
    due,       \* schedules the scheduler has read and not yet done with
    turn,      \* scheduler: step within the schedule at the head of due
    ran,       \* history: executions of a schedule for the time its row has
    refused,   \* history: a launch was refused over the old worker
    overridden,\* history: a stop or completion was written over, or launched in spite of
    crashed,   \* history
    ops        \* budget spent

job       == <<status, data>>
process   == <<registry, child, orphan>>
threads   == <<cmd, resumers, cleaner, deleter>>
scheduler == <<now, plan, due, turn, ran>>
history   == <<refused, overridden, crashed>>
vars == <<job, process, pc, threads, scheduler, history, ops>>

Statuses == {"queued", "running", "paused", "cancelled", "completed", "failed",
             "deleting", "gone"}
NoRow == status = "gone"
Ended == {"completed", "cancelled"}
\* A worker, a resume thread, the scheduler or a late pause writes over a stop or a completion,
\* or a worker is launched in spite of it.
Overriding ==
    overridden' = \/ overridden
                  \/ /\ status \in {"paused", "cancelled", "completed", "deleting"}
                     /\ \/ status' \notin {status, "gone"}
                        \/ registry = "none" /\ registry' = "listed"

\* A row that is not there, yet or any more: ids are not used twice.
Row(a) == [action |-> a, daily |-> FALSE, enabled |-> FALSE, runAt |-> 1]
Exists(s) == plan[s].action \notin {"unused", "gone"}

(***************************************************************************)
(* Worker.                                                                 *)
(***************************************************************************)
\* run_torrent_worker: refused while the job is listed.
LaunchEffect ==
    IF registry = "none"
    THEN registry' = "listed" /\ pc' = "start" /\ UNCHANGED refused
    ELSE UNCHANGED <<registry, pc>> /\ refused' = TRUE

Goto(target) == pc' = target
WorkerKeeps == UNCHANGED <<threads, scheduler, refused, crashed, ops>>

WorkerStart ==
    /\ pc = "start"
    /\ IF NoRow THEN Goto("error") /\ UNCHANGED status
       ELSE /\ status' = IF status = "queued" THEN "running" ELSE status
            /\ Goto("spawn")
    /\ WorkerKeeps /\ UNCHANGED <<data, process, overridden>>

WorkerSpawn ==
    /\ pc = "spawn"
    /\ \/ child' = "running" /\ Goto("register")
       \/ UNCHANGED child /\ Goto("error")
    /\ WorkerKeeps /\ UNCHANGED <<job, registry, orphan, overridden>>

WorkerRegister ==
    /\ pc = "register"
    /\ registry' = "pid" /\ Goto("watch")
    /\ WorkerKeeps /\ UNCHANGED <<job, child, orphan, overridden>>

\* Mutant: a worker that is told to stop leaves aria2c alone.
WatchLeavesProcess ==
    /\ pc = "watch"
    /\ Goto(IF NoRow THEN "error" ELSE IF status \in {"paused", "cancelled"} THEN "unlist" ELSE "poll")
    /\ WorkerKeeps /\ UNCHANGED <<job, process, overridden>>

\* The status is read.  Paused and cancelled kill aria2c and end the worker; "deleting"
\* does not; without a row the query fails and the worker leaves its process behind.
WorkerWatch ==
    /\ pc = "watch"
    /\ CASE NoRow ->
              /\ orphan' = IF child = "running" THEN "rowless" ELSE orphan
              /\ child' = "none" /\ Goto("error")
         [] status \in {"paused", "cancelled"} ->
              child' = "none" /\ Goto("unlist") /\ UNCHANGED orphan
         [] OTHER -> Goto("poll") /\ UNCHANGED <<child, orphan>>
    /\ WorkerKeeps /\ UNCHANGED <<job, registry, overridden>>

\* Mutant: the exit status of aria2c is not looked at.
PollIgnoresExit ==
    /\ pc = "poll"
    /\ Goto(IF child = "running" THEN "watch" ELSE "complete")
    /\ child' = IF child = "running" THEN child ELSE "none"
    /\ WorkerKeeps /\ UNCHANGED <<job, registry, orphan, overridden>>

\* try_wait, and another turn when aria2c still runs.
WorkerPoll ==
    /\ pc = "poll"
    /\ Goto(CASE child = "good" -> "complete" [] child = "bad" -> "error" [] OTHER -> "watch")
    /\ child' = IF child = "running" THEN child ELSE "none"
    /\ WorkerKeeps /\ UNCHANGED <<job, registry, orphan, overridden>>

\* A statement fails (a locked database, a full disk): the worker ends with the error and
\* leaves aria2c as it is.
WorkerBreaks ==
    /\ pc \in {"start", "watch", "poll", "complete"} /\ ~NoRow
    /\ ops < MaxOps /\ ops' = ops + 1
    /\ orphan' = IF child = "running" THEN "unwatched" ELSE orphan
    /\ child' = "none" /\ Goto("error")
    /\ UNCHANGED <<job, registry, threads, scheduler, history>>

\* The row becomes completed whatever it was.
WorkerComplete ==
    /\ pc = "complete"
    /\ status' = IF NoRow THEN status ELSE "completed"
    /\ Goto("unlist")
    /\ WorkerKeeps /\ UNCHANGED <<data, process>>
    /\ Overriding

WorkerError ==
    /\ pc = "error"
    /\ Goto(IF status \in {"paused", "cancelled", "completed"} THEN "unlist" ELSE "fail")
    /\ WorkerKeeps /\ UNCHANGED <<job, process, overridden>>

\* fail_torrent_job, without another look at the row.
Fail == status' = (IF NoRow THEN status ELSE "failed") /\ Overriding

WorkerFail ==
    /\ pc = "fail"
    /\ WorkerKeeps /\ UNCHANGED <<data, process>>
    /\ Fail /\ Goto("unlist")

WorkerUnlist ==
    /\ pc = "unlist"
    /\ registry' = "none" /\ Goto("none")
    /\ WorkerKeeps /\ UNCHANGED <<job, child, orphan, overridden>>

WorkerStep ==
    \/ WorkerStart \/ WorkerSpawn \/ WorkerRegister \/ WorkerWatch \/ WorkerPoll
    \/ WorkerBreaks \/ WorkerComplete \/ WorkerError \/ WorkerFail \/ WorkerUnlist

(***************************************************************************)
(* aria2c: continues what is there, verifies it, and exits with success    *)
(* only when it is whole (--continue, --check-integrity, --seed-time=0).   *)
(***************************************************************************)
Aria2Writes ==
    /\ child = "running" /\ data = "none"
    /\ data' = "partial"
    /\ UNCHANGED <<status, process, pc, threads, scheduler, history, ops>>

Aria2Exits ==
    /\ child = "running"
    /\ \/ child' = "bad" /\ UNCHANGED data
       \/ child' = "good" /\ data' = "whole"
    /\ UNCHANGED <<status, registry, orphan, pc, threads, scheduler, history, ops>>

\* kill_process_tree of the pid that is listed.
Kill == child' = IF registry = "pid" /\ child = "running" THEN "bad" ELSE child

(***************************************************************************)
(* Commands, one at a time.                                                *)
(***************************************************************************)
NoCommand == [pc |-> "idle", cleanup |-> FALSE, storage |-> FALSE]
Click(shown, first, cleanup, storage) ==
    /\ cmd.pc = "idle" /\ ops < MaxOps /\ ops' = ops + 1
    /\ status \in shown
    /\ cmd' = [pc |-> first, cleanup |-> cleanup, storage |-> storage]
    /\ UNCHANGED <<job, process, pc, resumers, cleaner, deleter, scheduler, history>>

ClickPause  == Click({"queued", "running"}, "pause", FALSE, FALSE)
ClickResume == Click({"paused", "failed"}, "resume", FALSE, FALSE)
ClickStop   == \E c \in BOOLEAN :
                 Click({"queued", "running", "paused", "failed"}, "stopRead", c, FALSE)
ClickDelete == \E s \in BOOLEAN : Click(Statuses \ {"deleting", "gone"}, "delete", TRUE, s)

Then(target) == cmd' = [cmd EXCEPT !.pc = target]
Done == cmd' = NoCommand
CommandKeeps == UNCHANGED <<registry, orphan, pc, now, due, turn, ran, history, ops>>
Write(s) == status' = IF NoRow THEN status ELSE s

PauseWrite ==
    /\ cmd.pc = "pause"
    /\ Write("paused") /\ Then("kill")
    /\ UNCHANGED <<data, process, pc, resumers, cleaner, deleter, scheduler, refused, crashed, ops>>
    /\ Overriding

CommandKills ==
    /\ cmd.pc \in {"kill", "deleteKill"}
    /\ Kill
    /\ IF cmd.pc = "kill" THEN Done ELSE Then("deleteMark")
    /\ CommandKeeps /\ UNCHANGED <<job, resumers, cleaner, deleter, plan>>

\* Mutant: the status is not looked at before the resume.
ResumeUnread ==
    /\ cmd.pc = "resume"
    /\ Then("resumeWrite")
    /\ CommandKeeps /\ UNCHANGED <<job, child, resumers, cleaner, deleter, plan>>

\* What has ended is refused; the status is read for it, and not again for the rest.
ResumeRead ==
    /\ cmd.pc = "resume"
    /\ IF NoRow \/ status \in Ended THEN Done ELSE Then("resumeWrite")
    /\ CommandKeeps /\ UNCHANGED <<job, child, resumers, cleaner, deleter, plan>>

\* Mutant: the resume writes over an end that came after its look at the row.
ResumeAlways ==
    /\ cmd.pc = "resumeWrite"
    /\ Write("queued") /\ resumers' = resumers + 1 /\ Done
    /\ CommandKeeps /\ UNCHANGED <<data, child, cleaner, deleter, plan>>

\* Mutant: the row is queued, and nobody starts a worker for it.
ResumeStartsNothing ==
    /\ cmd.pc = "resumeWrite"
    /\ Write(IF status \in Ended THEN status ELSE "queued") /\ Done
    /\ CommandKeeps /\ UNCHANGED <<data, child, resumers, cleaner, deleter, plan>>

\* The row is queued unless it has ended meanwhile, and the thread is started in any case.
ResumeWrite ==
    /\ cmd.pc = "resumeWrite"
    /\ Write(IF status \in Ended THEN status ELSE "queued")
    /\ resumers' = resumers + 1 /\ Done
    /\ CommandKeeps /\ UNCHANGED <<data, child, cleaner, deleter, plan>>

\* stop_job_internal: the status is read, then written without another look, and every
\* schedule of the job is switched off.
StopRead ==
    /\ cmd.pc \in {"stopRead", "deleteStopRead"}
    /\ IF NoRow \/ status = "completed" THEN Done
       ELSE Then(IF cmd.pc = "stopRead" THEN "stopWrite" ELSE "deleteStopWrite")
    /\ CommandKeeps /\ UNCHANGED <<job, child, resumers, cleaner, deleter, plan>>

Disabled == [s \in Schedules |-> [plan[s] EXCEPT !.enabled = FALSE]]

StopWrite ==
    /\ cmd.pc \in {"stopWrite", "deleteStopWrite"}
    /\ Write("cancelled") /\ plan' = Disabled
    /\ Then(IF cmd.pc = "stopWrite" THEN "stopKill" ELSE "deleteKill")
    /\ CommandKeeps /\ UNCHANGED <<data, child, resumers, cleaner, deleter>>

StopKills ==
    /\ cmd.pc = "stopKill"
    /\ Kill
    /\ cleaner' = IF cmd.cleanup THEN "wait" ELSE cleaner
    /\ Done
    /\ CommandKeeps /\ UNCHANGED <<job, resumers, deleter, plan>>

\* delete_download_job: an active job is stopped and marked; a thread removes it later.
DeleteRead ==
    /\ cmd.pc = "delete"
    /\ CASE NoRow -> Done
         [] ~NoRow /\ (registry # "none" \/ status \in {"queued", "running", "paused"})
              /\ status # "completed" -> Then("deleteStopRead")
         [] OTHER -> Then("deleteFiles")
    /\ CommandKeeps /\ UNCHANGED <<job, child, resumers, cleaner, deleter, plan>>

DeleteMark ==
    /\ cmd.pc = "deleteMark"
    /\ status' = IF status = "cancelled" THEN "deleting" ELSE status
    /\ deleter' = [pc |-> "wait", storage |-> cmd.storage]
    /\ Done
    /\ CommandKeeps /\ UNCHANGED <<data, child, resumers, cleaner, plan>>

DeleteFiles ==
    /\ cmd.pc = "deleteFiles"
    /\ data' = IF cmd.storage THEN "none" ELSE data
    /\ Then("deleteRow")
    /\ CommandKeeps /\ UNCHANGED <<status, child, resumers, cleaner, deleter, plan>>

\* The schedules of a job go with its row.
DeleteRow ==
    /\ cmd.pc = "deleteRow"
    /\ status' = "gone" /\ plan' = [s \in Schedules |-> Row("gone")]
    /\ Done
    /\ CommandKeeps /\ UNCHANGED <<data, child, resumers, cleaner, deleter>>

CommandStep ==
    \/ PauseWrite \/ CommandKills \/ ResumeRead \/ ResumeWrite \/ StopRead \/ StopWrite \/ StopKills
    \/ DeleteRead \/ DeleteMark \/ DeleteFiles \/ DeleteRow

(***************************************************************************)
(* Detached threads.                                                       *)
(***************************************************************************)
ThreadKeeps == UNCHANGED <<child, orphan, cmd, scheduler, crashed, ops>>

ResumerStarts ==
    /\ resumers > 0 /\ registry = "none"
    /\ resumers' = resumers - 1
    /\ status' = IF NoRow \/ status \in Ended THEN status ELSE "queued"
    /\ LaunchEffect
    /\ Overriding
    /\ ThreadKeeps /\ UNCHANGED <<data, cleaner, deleter>>

\* Mutant: a thread that has started a worker gives up as well.
ResumerGivesUpLater ==
    /\ registry # "none"
    /\ resumers' = resumers - 1
    /\ ThreadKeeps /\ UNCHANGED <<data, registry, pc, cleaner, deleter, refused>>
    /\ Fail

ResumerGivesUp ==
    /\ resumers > 0 /\ registry # "none"
    /\ resumers' = resumers - 1
    /\ ThreadKeeps /\ UNCHANGED <<data, registry, pc, cleaner, deleter, refused>>
    /\ Fail

\* Mutant: the cleanup does not wait for the worker.
CleanerHurries ==
    /\ cleaner = "wait" /\ cleaner' = "remove"
    /\ ThreadKeeps /\ UNCHANGED <<job, registry, pc, resumers, deleter, refused, overridden>>

CleanerWaits ==
    /\ cleaner = "wait"
    /\ cleaner' = IF registry # "none" THEN "off" ELSE "remove"
    /\ ThreadKeeps /\ UNCHANGED <<job, registry, pc, resumers, deleter, refused, overridden>>

CleanerRemoves ==
    /\ cleaner = "remove" /\ cleaner' = "off"
    /\ data' = "none"
    /\ ThreadKeeps /\ UNCHANGED <<status, registry, pc, resumers, deleter, refused, overridden>>

DeleterOff == [pc |-> "off", storage |-> FALSE]
DeleterWaits ==
    /\ deleter.pc = "wait"
    /\ deleter' = IF registry # "none" THEN DeleterOff ELSE [deleter EXCEPT !.pc = "remove"]
    /\ ThreadKeeps /\ UNCHANGED <<job, registry, pc, resumers, cleaner, refused, overridden>>

DeleterRemoves ==
    /\ deleter.pc = "remove"
    /\ data' = IF deleter.storage THEN "none" ELSE data
    /\ deleter' = [deleter EXCEPT !.pc = "purge"]
    /\ ThreadKeeps /\ UNCHANGED <<status, registry, pc, resumers, cleaner, refused, overridden>>

DeleterPurges ==
    /\ deleter.pc = "purge"
    /\ status' = IF status = "deleting" THEN "gone" ELSE status
    /\ plan' = IF status = "deleting" THEN [s \in Schedules |-> Row("gone")] ELSE plan
    /\ deleter' = DeleterOff
    /\ UNCHANGED <<child, orphan, cmd, now, due, turn, ran, crashed, ops>>
    /\ UNCHANGED <<data, registry, pc, resumers, cleaner, refused, overridden>>

ThreadStep ==
    \/ ResumerStarts \/ ResumerGivesUp \/ CleanerWaits \/ CleanerRemoves
    \/ DeleterWaits \/ DeleterRemoves \/ DeleterPurges

(***************************************************************************)
(* Scheduler: every ten seconds it reads what is due, and for one schedule *)
(* after the other carries out the action and then updates the row.        *)
(***************************************************************************)

\* create_download_schedule and delete_download_schedule.
ClickSchedule ==
    /\ cmd.pc = "idle" /\ ~NoRow /\ ops < MaxOps /\ ops' = ops + 1
    /\ \E s \in Schedules, a \in {"resume", "pause", "cancel"}, daily \in BOOLEAN :
         /\ plan[s].action = "unused"
         /\ plan' = [plan EXCEPT ![s] = [action |-> a, daily |-> daily, enabled |-> TRUE,
                                        runAt |-> now]]
    /\ UNCHANGED <<job, process, pc, threads, now, due, turn, ran, history>>

ClickUnschedule ==
    /\ cmd.pc = "idle" /\ ops < MaxOps /\ ops' = ops + 1
    /\ \E s \in Schedules : /\ Exists(s)
                            /\ plan' = [plan EXCEPT ![s] = Row("gone")]
    /\ UNCHANGED <<job, process, pc, threads, now, due, turn, ran, history>>

NextDay ==
    /\ now < Days /\ now' = now + 1
    /\ UNCHANGED <<job, process, pc, threads, plan, due, turn, ran, history, ops>>

Due == {s \in Schedules : plan[s].enabled /\ plan[s].runAt <= now}

\* The action is read with the schedule, in the order of the times.
SchedulerReads ==
    /\ due = <<>> /\ Due # {}
    /\ \E order \in [1 .. Cardinality(Due) -> Due] :
         /\ {order[k] : k \in DOMAIN order} = Due
         /\ \A j, k \in DOMAIN order : j < k => plan[order[j]].runAt <= plan[order[k]].runAt
         /\ due' = [k \in DOMAIN order |-> [id |-> order[k], action |-> plan[order[k]].action,
                                           daily |-> plan[order[k]].daily]]
    /\ turn' = "act"
    /\ UNCHANGED <<job, process, pc, threads, now, plan, ran, history, ops>>

Current == due[1]
Action(a) == due # <<>> /\ turn = "act" /\ Current.action = a
Turn(t) == turn' = t
Count1 == ran' = [ran EXCEPT ![Current.id] = @ + 1]
SchedulerKeeps == UNCHANGED <<cmd, resumers, deleter, now, due, crashed, ops>>

\* A job that is completed, cancelled or gone is an error; any other is queued and its
\* worker started.
ScheduledResume ==
    /\ Action("resume") /\ Count1
    /\ SchedulerKeeps /\ UNCHANGED <<data, process, pc, cleaner, plan, refused>>
    /\ IF NoRow \/ status \in Ended
       THEN Turn("failed") /\ UNCHANGED <<status, overridden>>
       ELSE Turn("launch") /\ status' = "queued" /\ Overriding

ScheduledLaunch ==
    /\ turn = "launch"
    /\ LaunchEffect /\ Turn("done")
    /\ UNCHANGED status /\ Overriding
    /\ SchedulerKeeps /\ UNCHANGED <<data, child, orphan, cleaner, plan, ran>>

ScheduledPause ==
    /\ Action("pause") /\ Count1
    /\ status' = IF status \in {"queued", "running"} THEN "paused" ELSE status
    /\ Turn("kill")
    /\ SchedulerKeeps /\ UNCHANGED <<data, process, pc, cleaner, plan, refused, overridden>>

\* The row of a completed job is left alone, what follows is not.
ScheduledCancel ==
    /\ Action("cancel") /\ Count1
    /\ status' = IF status \in {"completed", "gone"} THEN status ELSE "cancelled"
    /\ plan' = IF NoRow THEN plan ELSE Disabled
    /\ Turn("kill")
    /\ SchedulerKeeps /\ UNCHANGED <<data, process, pc, cleaner, refused, overridden>>

ScheduledKill ==
    /\ turn = "kill"
    /\ Kill
    /\ cleaner' = IF Current.action = "cancel" /\ ~NoRow THEN "wait" ELSE cleaner
    /\ Turn("done")
    /\ SchedulerKeeps /\ UNCHANGED <<job, registry, orphan, pc, plan, ran, refused, overridden>>

\* Mutant: a schedule that is not repeated stays enabled.
RowKeepsOneShot ==
    /\ turn \in {"done", "failed"}
    /\ LET s == Current.id IN
         /\ plan' = IF ~Exists(s) THEN plan ELSE [plan EXCEPT ![s].runAt = @]
         /\ ran' = [ran EXCEPT ![s] = IF Current.daily THEN 0 ELSE @]
    /\ due' = Tail(due) /\ Turn("act")
    /\ UNCHANGED <<job, process, pc, threads, now, history, ops>>

\* A daily schedule that succeeded moves by one day, any other is switched off.
SchedulerUpdatesRow ==
    /\ turn \in {"done", "failed"}
    /\ LET s == Current.id
           again == Current.daily /\ turn = "done"
       IN  /\ plan' = CASE ~Exists(s) -> plan
                        [] Exists(s) /\ again -> [plan EXCEPT ![s].runAt = @ + 1]
                        [] OTHER -> [plan EXCEPT ![s].enabled = FALSE]
           /\ ran' = [ran EXCEPT ![s] = IF again THEN 0 ELSE @]
    /\ due' = Tail(due) /\ Turn("act")
    /\ UNCHANGED <<job, process, pc, threads, now, history, ops>>

SchedulerStep ==
    \/ SchedulerReads \/ ScheduledResume \/ ScheduledLaunch \/ ScheduledPause
    \/ ScheduledCancel \/ ScheduledKill \/ SchedulerUpdatesRow

(***************************************************************************)
(* Queueing, and the restart: a running row is queued again and the worker *)
(* of a queued one is started.                                             *)
(***************************************************************************)
Crash ==
    /\ ops < MaxOps /\ ops' = ops + 1 /\ crashed' = TRUE
    /\ status' = IF status = "running" THEN "queued" ELSE status
    /\ IF status \in {"queued", "running"}
       THEN registry' = "listed" /\ pc' = "start"
       ELSE registry' = "none" /\ pc' = "none"
    /\ child' = "none"
    /\ cmd' = NoCommand /\ resumers' = 0 /\ cleaner' = "off" /\ deleter' = DeleterOff
    /\ due' = <<>> /\ turn' = "act"
    /\ UNCHANGED <<data, orphan, now, plan, ran, refused, overridden>>

Init ==
    /\ status = "queued" /\ data = "none"
    /\ registry = "listed" /\ pc = "start" /\ child = "none" /\ orphan = "none"
    /\ cmd = NoCommand /\ resumers = 0 /\ cleaner = "off" /\ deleter = DeleterOff
    /\ now = 1 /\ plan = [s \in Schedules |-> Row("unused")] /\ due = <<>> /\ turn = "act"
    /\ ran = [s \in Schedules |-> 0]
    /\ refused = FALSE /\ overridden = FALSE /\ crashed = FALSE /\ ops = 0

Aria2 == Aria2Writes \/ Aria2Exits
Clicks ==
    ClickPause \/ ClickResume \/ ClickStop \/ ClickDelete \/ ClickSchedule \/ ClickUnschedule

Next ==
    \/ WorkerStep \/ Aria2 \/ Clicks \/ CommandStep \/ ThreadStep \/ SchedulerStep
    \/ NextDay \/ Crash

Spec == Init /\ [][Next]_vars

\* Threads run, aria2c ends one day, time passes.  Nothing is assumed of the user.
Fairness ==
    /\ WF_vars(WorkerStep) /\ WF_vars(Aria2Exits) /\ WF_vars(CommandStep)
    /\ WF_vars(ThreadStep) /\ WF_vars(SchedulerStep) /\ WF_vars(NextDay)
FairSpec == Spec /\ Fairness

(***************************************************************************)
(* Properties.                                                             *)
(***************************************************************************)
CommandPCs == {"idle", "pause", "kill", "resume", "resumeWrite", "stopRead", "stopWrite",
               "stopKill", "delete", "deleteStopRead", "deleteStopWrite", "deleteKill", "deleteMark", "deleteFiles",
               "deleteRow"}
Commands == [pc : CommandPCs, cleanup : BOOLEAN, storage : BOOLEAN]
ScheduleActions == {"resume", "pause", "cancel"}
Rows   == [action : ScheduleActions \cup {"unused", "gone"}, daily : BOOLEAN, enabled : BOOLEAN,
           runAt : Nat]
Orders == [id : Schedules, action : ScheduleActions, daily : BOOLEAN]

TypeOK ==
    /\ status \in Statuses /\ data \in {"none", "partial", "whole"}
    /\ registry \in {"none", "listed", "pid"} /\ orphan \in {"none", "rowless", "unwatched"}
    /\ child \in {"none", "running", "good", "bad"}
    /\ pc \in {"none", "start", "spawn", "register", "watch", "poll", "complete", "error",
               "fail", "unlist"}
    /\ cmd \in Commands
    /\ resumers \in Nat /\ cleaner \in {"off", "wait", "remove"}
    /\ deleter \in [pc : {"off", "wait", "remove", "purge"}, storage : BOOLEAN]
    /\ now \in 1 .. Days
    /\ plan \in [Schedules -> Rows] /\ due \in Seq(Orders)
    /\ turn \in {"act", "launch", "kill", "done", "failed"}
    /\ ran \in [Schedules -> Nat]
    /\ refused \in BOOLEAN /\ overridden \in BOOLEAN /\ crashed \in BOOLEAN /\ ops \in Nat

\* aria2c runs under a worker that is listed and watches it: one is left behind only when its
\* row is deleted while it runs, or by a worker that fails with a statement of its watch.
ProcessHasWorker ==
    /\ child = "running" => registry # "none" /\ pc \in {"register", "watch", "poll"}
    /\ orphan = "rowless" => NoRow

\* The cleanup and the deletion thread remove no files that an aria2c with a worker is
\* writing, as long as no thread has written over a stop.
WriterKeepsFiles ==
    [][CleanerRemoves \/ DeleterRemoves => child # "running" \/ overridden \/ NoRow]_vars

\* The orders to start that were accepted and have not reached run_torrent_worker.
OnTheWay ==
    resumers + (IF cmd.pc = "resumeWrite" THEN 1 ELSE 0) + (IF turn = "launch" THEN 1 ELSE 0)
Launched == registry = "none" /\ registry' = "listed"

\* A completed or cancelled torrent does not become queued or running, by no command, thread,
\* schedule or restart, and no order to start it is accepted.  A worker is launched for it
\* only by an order that was accepted before the end, and once for each of these: the resume
\* thread and the scheduler launch without another look at the row.
EndedStaysEnded ==
    [][(status \in Ended) =>
         /\ status' \notin {"queued", "running"}
         /\ OnTheWay' <= OnTheWay
         /\ Launched => OnTheWay' < OnTheWay]_vars

\* A job becomes completed only when aria2c has left a whole download,
\* unless the user is deleting its files or a thread has written over a stop.
CompletedIsWhole ==
    [][status' = "completed" =>
         status = "completed" \/ data = "whole" \/ cmd.storage \/ overridden']_vars

\* The action of a schedule is carried out once for every time it has: twice only if the
\* program dies between the action and the update of the row.
ScheduleRunsOnce == ~crashed => \A s \in Schedules : ran[s] <= 1

\* A stopped torrent loses the aria2c that its worker watches.
StoppedDies ==
    status \in {"paused", "cancelled"} ~> (child = "none" \/ status \notin {"paused", "cancelled"})

\* A queued torrent is started, unless its launch was refused because the worker that had
\* just been told to stop was still listed: then it stays queued until the next restart.
QueuedIsStarted == status = "queued" ~> status # "queued" \/ refused

\* Every schedule that falls due is dealt with, the missed days of a daily one as well.
ScheduleIsServed ==
    \A s \in Schedules :
        plan[s].enabled /\ plan[s].runAt <= now ~> ~plan[s].enabled \/ plan[s].runAt > now

\* The states of a torrent job are sound: types, no aria2c without its worker, and no action
\* of a schedule carried out twice.
TorrentSafe == TypeOK /\ ProcessHasWorker /\ ScheduleRunsOnce

\* What has been decided about a torrent, and the files it is being written to, stay.
DecisionsStand == WriterKeepsFiles /\ EndedStaysEnded /\ CompletedIsWhole

\* Stops, starts and schedules are carried out.
OrdersAreServed == StoppedDies /\ QueuedIsStarted /\ ScheduleIsServed
=============================================================================
