------------------------------ MODULE Playlist ------------------------------
(***************************************************************************)
(* A playlist batch and its items.  Every item has a job, and the same     *)
(* fact is kept in three columns (jobs.status, playlist_items.status and   *)
(* playlist_batches.status) that workers, the dispatcher, the resume       *)
(* threads and the commands write in statements of their own, each over    *)
(* its own connection (media/mod.rs, media/playlist.rs, dispatcher.rs,     *)
(* media/download/worker.rs).                                              *)
(*                                                                         *)
(* A worker is seen only through those columns (MediaJob has the rest).    *)
(***************************************************************************)
EXTENDS Integers, FiniteSets, FiniteSetsExt

CONSTANTS
    Count,     \* items of the playlist; their positions are 1 .. Count
    Slots,     \* slots of the media dispatcher
    MaxOps     \* bound: commands + crashes per behaviour

ASSUME CountAssumption == Count \in Nat \ {0}
ASSUME SlotsAssumption == Slots \in Nat \ {0}

Items == 1 .. Count

VARIABLES
    job,       \* jobs.status per item
    item,      \* playlist_items.status
    batch,     \* playlist_batches.status; "gone" = deleted
    retried,   \* playlist_items.automatic_retries
    temporary, \* the last error of the item is retryable and likely temporary
    claimed,   \* the item between claim and launch, 0 if there is none
    pc,        \* per item: its worker, "none" when it has none
    retrying,  \* per worker: failed items its advance has chosen to retry
    resumers,  \* per item: resume threads that wait for its worker
    cmd,       \* the command in progress: statement, and the item it is for
    torn,      \* history: a crash, a resume that gave up, or statements of two writers mixed
    ops        \* budget spent

columns == <<job, item, batch, retried>>
steps == <<columns, temporary, claimed, pc, retrying, resumers, cmd, ops>>
vars == <<steps, torn>>

JobStatuses == {"queued", "running", "paused", "cancelled", "completed", "failed"}
BatchStatuses == {"queued", "running", "paused", "completed", "completed_with_errors", "gone"}
Over == {"completed", "cancelled", "failed"}
Active == {i \in Items : pc[i] # "none"}           \* active_media_pids
Items_(s) == {i \in Items : item[i] = s}
Set(f, S, v) == [i \in Items |-> IF i \in S THEN v ELSE f[i]]
\* UPDATE ... WHERE: deleted rows stay deleted.
Job(f)  == job' = IF batch = "gone" THEN job ELSE f
Item(f) == item' = IF batch = "gone" THEN item ELSE f

(***************************************************************************)
(* Dispatcher.                                                             *)
(***************************************************************************)
\* candidate_ids: of a playlist only the first job that is queued or running counts.
Head == LET pending == {i \in Items : job[i] \in {"queued", "running"}}
        IN  IF pending = {} THEN {} ELSE {Min(pending)}

\* Mutant: a row that is running without a worker is left alone.
ClaimQueuedOnly ==
    /\ batch # "gone" /\ claimed = 0 /\ Cardinality(Active) < Slots
    /\ \E i \in Head \ Active :
         /\ job[i] = "queued"
         /\ job' = [job EXCEPT ![i] = "running"]
         /\ item' = IF item[i] = "queued" THEN [item EXCEPT ![i] = "running"] ELSE item
         /\ claimed' = i
    /\ batch' = "running"
    /\ UNCHANGED <<retried, temporary, pc, retrying, resumers, cmd, ops>>

\* claim_next_job: row, item and batch in one transaction.
Claim ==
    /\ batch # "gone" /\ claimed = 0 /\ Cardinality(Active) < Slots
    /\ \E i \in Head \ Active :
         /\ job' = [job EXCEPT ![i] = "running"]
         /\ item' = IF item[i] = "queued" THEN [item EXCEPT ![i] = "running"] ELSE item
         /\ claimed' = i
    /\ batch' = "running"
    /\ UNCHANGED <<retried, temporary, pc, retrying, resumers, cmd, ops>>

Launch ==
    /\ claimed # 0
    /\ pc' = [pc EXCEPT ![claimed] = "start"]
    /\ claimed' = 0
    /\ UNCHANGED <<columns, temporary, retrying, resumers, cmd, ops>>

(***************************************************************************)
(* Worker of item i.                                                       *)
(***************************************************************************)
Goto(i, target) == pc' = [pc EXCEPT ![i] = target]
Elsewhere == UNCHANGED <<claimed, resumers, cmd, ops>>
Stopped == {"paused", "cancelled"}

WorkerStart(i) ==
    /\ pc[i] = "start"
    /\ IF job[i] \in Stopped \cup {"completed"}
       THEN Goto(i, "after") /\ UNCHANGED <<job, item>>
       ELSE /\ Job(IF job[i] = "queued" THEN [job EXCEPT ![i] = "running"] ELSE job)
            /\ Item(IF item[i] = "queued" THEN [item EXCEPT ![i] = "running"] ELSE item)
            /\ Goto(i, "work")
    /\ UNCHANGED <<batch, retried, temporary, retrying>> /\ Elsewhere

\* update_media_progress and the processing stages repair the item of a running job.
WorkerProgress(i) ==
    /\ pc[i] = "work" /\ job[i] = "running"
    /\ item[i] \notin {"running", "cancelled", "completed"}
    /\ item' = [item EXCEPT ![i] = "running"]
    /\ UNCHANGED <<job, batch, retried, temporary, pc, retrying>> /\ Elsewhere

WorkerStopped(i) ==
    /\ pc[i] = "work" /\ job[i] \in Stopped
    /\ Goto(i, IF job[i] = "paused" THEN "itemPaused" ELSE "itemCancelled")
    /\ UNCHANGED <<columns, temporary, retrying>> /\ Elsewhere

WorkerItemStopped(i) ==
    /\ pc[i] \in {"itemPaused", "itemCancelled"}
    /\ Item([item EXCEPT ![i] = IF pc[i] = "itemPaused" THEN "paused" ELSE "cancelled"])
    /\ Goto(i, "after")
    /\ UNCHANGED <<job, batch, retried, temporary, retrying>> /\ Elsewhere

WorkerCommit(i) ==
    /\ pc[i] = "work"
    /\ IF job[i] = "running"
       THEN job' = [job EXCEPT ![i] = "completed"] /\ Goto(i, "item")
       ELSE UNCHANGED job /\ Goto(i, "error")
    /\ UNCHANGED <<item, batch, retried, temporary, retrying>> /\ Elsewhere

WorkerItem(i) ==
    /\ pc[i] = "item"
    /\ item' = IF job[i] = "completed" THEN [item EXCEPT ![i] = "completed"] ELSE item
    /\ Goto(i, "after")
    /\ UNCHANGED <<job, batch, retried, temporary, retrying>> /\ Elsewhere

WorkerError(i) ==
    /\ pc[i] \in {"work", "error"}
    /\ Goto(i, IF job[i] \in Stopped \cup {"completed"} THEN "after" ELSE "fail")
    /\ UNCHANGED <<columns, temporary, retrying>> /\ Elsewhere

\* fail_media_job: row and item, without a look at either.
WorkerFail(i) ==
    /\ pc[i] = "fail"
    /\ Job([job EXCEPT ![i] = "failed"])
    /\ \E t \in BOOLEAN : temporary' = [temporary EXCEPT ![i] = t]
    /\ Goto(i, "failItem")
    /\ UNCHANGED <<item, batch, retried, retrying>> /\ Elsewhere

\* Mutant: a failed job keeps its item as it was.
FailRowOnly(i) ==
    /\ pc[i] = "failItem"
    /\ Goto(i, "after")
    /\ UNCHANGED <<columns, temporary, retrying>> /\ Elsewhere

WorkerFailItem(i) ==
    /\ pc[i] = "failItem"
    /\ Item([item EXCEPT ![i] = "failed"])
    /\ Goto(i, "after")
    /\ UNCHANGED <<job, batch, retried, temporary, retrying>> /\ Elsewhere

\* Mutant: only a completed job moves its playlist on.
AfterCompleted(i) ==
    /\ pc[i] = "after"
    /\ Goto(i, IF job[i] = "completed" THEN "advance" ELSE "unlist")
    /\ UNCHANGED <<columns, temporary, retrying>> /\ Elsewhere

\* The worker moves its playlist on when its job is over.
WorkerAfter(i) ==
    /\ pc[i] = "after"
    /\ Goto(i, IF job[i] \in Over THEN "advance" ELSE "unlist")
    /\ UNCHANGED <<columns, temporary, retrying>> /\ Elsewhere

\* Mutant: every failure is retried, as often as it fails.
RetryableAlways == Items_("failed")

Retryable == {i \in Items_("failed") : retried[i] < 1 /\ temporary[i]}

\* Mutant: a paused playlist is moved on all the same.
HeldUnlessPaused == batch = "gone" \/ Items_("queued") # {} \/ Items_("running") # {}
\* Mutant: items that are being downloaded are not counted.
HeldByQueued == batch \in {"paused", "gone"} \/ Items_("queued") # {}

Held == batch \in {"paused", "gone"} \/ Items_("queued") # {} \/ Items_("running") # {}

\* advance_playlist_batch reads the batch and counts its items, then writes.  When it
\* finds something to start it wakes the dispatcher, which is on its way anyway.
AdvanceRead(i) ==
    /\ pc[i] = "advance"
    /\ retrying' = [retrying EXCEPT ![i] = IF Held THEN {} ELSE Retryable]
    /\ Goto(i, CASE Held -> "unlist"
                 [] ~Held /\ Retryable # {} -> "retryJobs"
                 [] OTHER -> "finish")
    /\ UNCHANGED <<columns, temporary>> /\ Elsewhere

\* One failed item after the other, row before item.
AdvanceRetryJobs(i) ==
    /\ pc[i] = "retryJobs" /\ retrying[i] # {}
    /\ Job([job EXCEPT ![Min(retrying[i])] = "queued"])
    /\ Goto(i, "retryItems")
    /\ UNCHANGED <<item, batch, retried, temporary, retrying>> /\ Elsewhere

AdvanceRetryItems(i) ==
    /\ pc[i] = "retryItems"
    /\ LET j == Min(retrying[i]) IN
         /\ Item([item EXCEPT ![j] = "queued"])
         /\ retried' = IF batch = "gone" THEN retried ELSE [retried EXCEPT ![j] = @ + 1]
         /\ temporary' = [temporary EXCEPT ![j] = FALSE]
         /\ retrying' = [retrying EXCEPT ![i] = @ \ {j}]
    /\ Goto(i, "retryJobs")
    /\ UNCHANGED <<job, batch>> /\ Elsewhere

AdvanceRetryBatch(i) ==
    /\ pc[i] = "retryJobs" /\ retrying[i] = {}
    /\ batch' = IF batch = "gone" THEN batch ELSE "queued"
    /\ Goto(i, "unlist")
    /\ UNCHANGED <<job, item, retried, temporary, retrying>> /\ Elsewhere

AdvanceFinish(i) ==
    /\ pc[i] = "finish"
    /\ batch' = CASE batch = "gone" -> batch
                  [] batch # "gone" /\ Items_("failed") # {} -> "completed_with_errors"
                  [] OTHER -> "completed"
    /\ Goto(i, "unlist")
    /\ UNCHANGED <<job, item, retried, temporary, retrying>> /\ Elsewhere

WorkerUnlist(i) ==
    /\ pc[i] = "unlist"
    /\ Goto(i, "none")
    /\ UNCHANGED <<columns, temporary, retrying>> /\ Elsewhere

(***************************************************************************)
(* resume_media_worker_when_idle of item i.                                *)
(***************************************************************************)
ResumerStarts(i) ==
    /\ resumers[i] > 0 /\ i \notin Active
    /\ resumers' = [resumers EXCEPT ![i] = @ - 1]
    /\ Job(IF job[i] \in {"completed", "cancelled"} THEN job
           ELSE [job EXCEPT ![i] = "running"])
    /\ Item(IF item[i] \in {"completed", "cancelled"} THEN item
            ELSE [item EXCEPT ![i] = "running"])
    /\ UNCHANGED <<batch, retried, temporary, claimed, pc, retrying, cmd, ops>>

\* After ten seconds it gives up and fails the job; nobody advances the playlist.
ResumerGivesUp(i) ==
    /\ resumers[i] > 0 /\ i \in Active
    /\ resumers' = [resumers EXCEPT ![i] = @ - 1]
    /\ Job([job EXCEPT ![i] = "failed"])
    /\ Item([item EXCEPT ![i] = "failed"])
    /\ temporary' = [temporary EXCEPT ![i] = TRUE]
    /\ UNCHANGED <<batch, retried, claimed, pc, retrying, cmd, ops>>

(***************************************************************************)
(* Commands, one at a time; each is a sequence of statements over the      *)
(* shared connection, none of them in a transaction.                       *)
(***************************************************************************)
NoCommand == [pc |-> "idle", i |-> 0, open |-> {}]

Unfinished == {i \in Items : job[i] \in {"running", "queued", "paused"}}
Click(first, i) ==
    /\ cmd.pc = "idle" /\ batch # "gone"
    /\ cmd' = [pc |-> first, i |-> i, open |-> IF first = "delete" THEN Unfinished ELSE {}]
    /\ UNCHANGED <<columns, temporary, claimed, pc, retrying, resumers>>
Budget == ops < MaxOps /\ ops' = ops + 1

Open == {i \in Items : item[i] \in {"running", "paused", "queued"}}
\* The job the resume is about: running before paused before queued, then by position.
FirstOpen == LET kind == CASE Items_("running") # {} -> "running"
                           [] Items_("running") = {} /\ Items_("paused") # {} -> "paused"
                           [] OTHER -> "queued"
             IN  Min(Items_(kind))

ClickPauseBatch  == Open # {} /\ Click("pauseBatch", 0) /\ Budget
\* Not counted: what was paused can be resumed.
ClickResumeBatch ==
    batch = "paused" /\ Open # {} /\ Click("resumeBatch", FirstOpen) /\ UNCHANGED ops
ClickRetryFailed == Items_("failed") # {} /\ Click("retryJobs", 0) /\ Budget
ClickAlternative == \E i \in Items_("failed") : Click("otherJob", i) /\ Budget
ClickPause  == \E i \in Items : job[i] \in {"queued", "running"} /\ Click("pause", i) /\ Budget
ClickResume == \E i \in Items : job[i] \in {"paused", "failed"} /\ Click("resume", i) /\ Budget
ClickCancel ==
    \E i \in Items : job[i] \notin {"completed", "cancelled"} /\ Click("cancel", i) /\ Budget
ClickDelete == Click("delete", 1) /\ Budget

Then(target) == cmd' = [cmd EXCEPT !.pc = target]
Done == cmd' = NoCommand
CommandKeeps == UNCHANGED <<retried, temporary, claimed, pc, retrying, ops>>

\* set_playlist_batch_paused(true): batch, jobs, items.
PauseBatch ==
    /\ cmd.pc = "pauseBatch"
    /\ batch' = "paused" /\ Then("pauseJobs")
    /\ UNCHANGED <<job, item, resumers>> /\ CommandKeeps
PauseJobs ==
    /\ cmd.pc = "pauseJobs"
    /\ job' = Set(job, {i \in Items : job[i] \notin Over}, "paused") /\ Then("pauseItems")
    /\ UNCHANGED <<batch, item, resumers>> /\ CommandKeeps
PauseItems ==
    /\ cmd.pc = "pauseItems"
    /\ item' = Set(item, {i \in Items : item[i] \notin Over}, "paused") /\ Done
    /\ UNCHANGED <<batch, job, resumers>> /\ CommandKeeps

\* set_playlist_batch_paused(false): batch, jobs, items and one resume thread.
ResumeBatch ==
    /\ cmd.pc = "resumeBatch"
    /\ batch' = "running" /\ Then("resumeJobs")
    /\ UNCHANGED <<job, item, resumers>> /\ CommandKeeps
ResumeJobs ==
    /\ cmd.pc = "resumeJobs"
    /\ job' = Set(job, {i \in Items : job[i] = "paused"}, "queued") /\ Then("resumeItems")
    /\ UNCHANGED <<batch, item, resumers>> /\ CommandKeeps
ResumeItems ==
    /\ cmd.pc = "resumeItems"
    /\ item' = Set(item, Items_("paused"), "queued")
    /\ resumers' = [resumers EXCEPT ![cmd.i] = @ + 1]
    /\ Done
    /\ UNCHANGED <<batch, job>> /\ CommandKeeps

\* retry_failed_playlist_items chooses the jobs by the status of their items.
RetryJobs ==
    /\ cmd.pc = "retryJobs"
    /\ job' = Set(job, Items_("failed"), "queued") /\ Then("retryItems")
    /\ UNCHANGED <<batch, item, resumers>> /\ CommandKeeps
RetryItems ==
    /\ cmd.pc = "retryItems"
    /\ item' = Set(item, Items_("failed"), "queued") /\ Then("retryBatch")
    /\ UNCHANGED <<batch, job, resumers>> /\ CommandKeeps
RetryBatch ==
    /\ cmd.pc = "retryBatch"
    /\ batch' = "queued" /\ Done
    /\ UNCHANGED <<job, item, resumers>> /\ CommandKeeps

\* replace_playlist_item_with_alternative.
OtherJob ==
    /\ cmd.pc = "otherJob"
    /\ job' = [job EXCEPT ![cmd.i] = "queued"] /\ Then("otherItem")
    /\ UNCHANGED <<batch, item, resumers>> /\ CommandKeeps
OtherItem ==
    /\ cmd.pc = "otherItem"
    /\ item' = [item EXCEPT ![cmd.i] = "queued"] /\ Then("retryBatch")
    /\ UNCHANGED <<batch, job, resumers>> /\ CommandKeeps

\* set_job_status and stop_job_internal for one item: row, then item unless completed.
PauseOne ==
    /\ cmd.pc \in {"pause", "cancel"}
    /\ IF cmd.pc = "cancel" /\ job[cmd.i] = "completed"
       THEN UNCHANGED job /\ Done
       ELSE /\ job' = [job EXCEPT ![cmd.i] = IF cmd.pc = "pause" THEN "paused" ELSE "cancelled"]
            /\ Then(IF cmd.pc = "pause" THEN "pauseItem" ELSE "cancelItem")
    /\ UNCHANGED <<batch, item, resumers>> /\ CommandKeeps
PauseOneItem ==
    /\ cmd.pc \in {"pauseItem", "cancelItem"}
    /\ item' = IF item[cmd.i] = "completed" THEN item
               ELSE [item EXCEPT ![cmd.i] = IF cmd.pc = "pauseItem" THEN "paused" ELSE "cancelled"]
    /\ Done
    /\ UNCHANGED <<batch, job, resumers>> /\ CommandKeeps
ResumeOne ==
    /\ cmd.pc = "resume"
    /\ IF job[cmd.i] \in {"completed", "cancelled"}
       THEN UNCHANGED <<job, resumers>>
       ELSE /\ job' = [job EXCEPT ![cmd.i] = "queued"]
            /\ resumers' = [resumers EXCEPT ![cmd.i] = @ + 1]
    /\ Done
    /\ UNCHANGED <<batch, item>> /\ CommandKeeps

\* delete_playlist_batch stops the jobs that are active or were unfinished when it read
\* them, waits up to ten seconds for each, and then removes batch and jobs in one
\* transaction.  A job that has completed meanwhile, or does not go idle, ends it early.
DeleteStop ==
    /\ cmd.pc = "delete"
    /\ LET i == cmd.i IN
         \/ i > Count /\ Then("deleteRows") /\ UNCHANGED <<job, item>>
         \/ /\ i <= Count /\ i \notin Active \cup cmd.open
            /\ cmd' = [cmd EXCEPT !.i = @ + 1] /\ UNCHANGED <<job, item>>
         \/ /\ i <= Count /\ i \in Active \cup cmd.open /\ job[i] = "completed"
            /\ Done /\ UNCHANGED <<job, item>>
         \/ /\ i <= Count /\ i \in Active \cup cmd.open /\ job[i] # "completed"
            /\ job' = [job EXCEPT ![i] = "cancelled"]
            /\ item' = IF item[i] = "completed" THEN item ELSE [item EXCEPT ![i] = "cancelled"]
            /\ Then("deleteWait")
    /\ UNCHANGED <<batch, resumers>> /\ CommandKeeps
DeleteWait ==
    /\ cmd.pc = "deleteWait"
    /\ IF cmd.i \in Active THEN Done ELSE cmd' = [cmd EXCEPT !.pc = "delete", !.i = @ + 1]
    /\ UNCHANGED <<batch, job, item, resumers>> /\ CommandKeeps
DeleteRows ==
    /\ cmd.pc = "deleteRows"
    /\ batch' = "gone"
    /\ job' = Set(job, Items, "cancelled") /\ item' = Set(item, Items, "cancelled")
    /\ resumers' = [i \in Items |-> 0]
    /\ Done
    /\ CommandKeeps

(***************************************************************************)
(* Restart: running rows of all three tables become queued.                *)
(***************************************************************************)
\* Mutant: with a status no other statement knows.
RequeuedAsPending(s) == IF s = "running" THEN "pending" ELSE s

Requeued(s) == IF s = "running" THEN "queued" ELSE s

Crash ==
    /\ ops < MaxOps /\ ops' = ops + 1
    /\ job' = [i \in Items |-> Requeued(job[i])]
    /\ item' = [i \in Items |-> Requeued(item[i])]
    /\ batch' = Requeued(batch)
    /\ claimed' = 0 /\ pc' = [i \in Items |-> "none"]
    /\ retrying' = [i \in Items |-> {}] /\ resumers' = [i \in Items |-> 0]
    /\ cmd' = NoCommand
    /\ UNCHANGED <<retried, temporary>>

\* queue_playlist_selection: one transaction.
Init ==
    /\ job = [i \in Items |-> "queued"] /\ item = [i \in Items |-> "queued"]
    /\ batch = "queued"
    /\ retried = [i \in Items |-> 0] /\ temporary = [i \in Items |-> FALSE]
    /\ claimed = 0 /\ pc = [i \in Items |-> "none"]
    /\ retrying = [i \in Items |-> {}] /\ resumers = [i \in Items |-> 0]
    /\ cmd = NoCommand /\ ops = 0 /\ torn = FALSE

Advance(i) ==
    \/ AdvanceRead(i) \/ AdvanceRetryJobs(i) \/ AdvanceRetryItems(i)
    \/ AdvanceRetryBatch(i) \/ AdvanceFinish(i)
WorkerStep(i) ==
    \/ WorkerStart(i) \/ WorkerProgress(i) \/ WorkerStopped(i) \/ WorkerItemStopped(i)
    \/ WorkerCommit(i) \/ WorkerItem(i) \/ WorkerError(i) \/ WorkerFail(i)
    \/ WorkerFailItem(i) \/ WorkerAfter(i) \/ Advance(i) \/ WorkerUnlist(i)
Dispatch == Claim \/ Launch
CommandStep ==
    \/ PauseBatch \/ PauseJobs \/ PauseItems \/ ResumeBatch \/ ResumeJobs \/ ResumeItems
    \/ RetryJobs \/ RetryItems \/ RetryBatch \/ OtherJob \/ OtherItem
    \/ PauseOne \/ PauseOneItem \/ ResumeOne \/ DeleteStop \/ DeleteWait \/ DeleteRows
Clicks ==
    \/ ClickPauseBatch \/ ClickResumeBatch \/ ClickRetryFailed \/ ClickAlternative
    \/ ClickPause \/ ClickResume \/ ClickCancel \/ ClickDelete

\* Those who have read or written a column of an item, or of the whole playlist (0: the
\* command), and not yet written the rest.
ItemWriters == {i \in Items : pc[i] \in {"itemPaused", "itemCancelled", "item", "error", "fail",
                                         "failItem"}}
ListWriters == {i \in Items : pc[i] \in {"retryJobs", "retryItems", "finish"}}
                 \cup (IF cmd.pc = "idle" THEN {} ELSE {0})
\* A step of `self` writes what another writer has read or written and is not done with.
Tears(self) ==
    torn' = \/ torn
            \/ columns' # columns /\ ListWriters \ self # {}
            \/ \E i \in ItemWriters \ self : job'[i] # job[i] \/ item'[i] # item[i]

Next ==
    \/ Dispatch /\ Tears({})
    \/ \E i \in Items : WorkerStep(i) /\ Tears({i})
    \/ \E i \in Items : ResumerStarts(i) /\ Tears({})
    \/ \E i \in Items : ResumerGivesUp(i) /\ torn' = TRUE
    \/ (CommandStep \/ Clicks) /\ Tears({0})
    \/ Crash /\ torn' = TRUE

Spec == Init /\ [][Next]_vars

Fairness ==
    /\ WF_steps(Dispatch) /\ WF_steps(CommandStep)
    /\ \A i \in Items : WF_steps(WorkerStep(i)) /\ WF_steps(ResumerStarts(i) \/ ResumerGivesUp(i))
FairSpec == Spec /\ Fairness

(***************************************************************************)
(* Properties.                                                             *)
(***************************************************************************)
Finished == {"completed", "completed_with_errors"}
Waiting == {"queued", "running"}
Calm == claimed = 0 /\ Active = {} /\ cmd.pc = "idle" /\ \A i \in Items : resumers[i] = 0

TypeOK ==
    /\ job \in [Items -> JobStatuses] /\ item \in [Items -> JobStatuses]
    /\ batch \in BatchStatuses
    /\ retried \in [Items -> Nat] /\ temporary \in [Items -> BOOLEAN]
    /\ claimed \in 0 .. Count
    /\ pc \in [Items -> {"none", "start", "work", "itemPaused", "itemCancelled", "item", "error",
                         "fail", "failItem", "after", "advance", "retryJobs", "retryItems",
                         "finish", "unlist"}]
    /\ retrying \in [Items -> SUBSET Items] /\ resumers \in [Items -> Nat]
    /\ cmd \in [pc : {"idle", "pauseBatch", "pauseJobs", "pauseItems", "resumeBatch",
                      "resumeJobs", "resumeItems", "retryJobs", "retryItems", "retryBatch",
                      "otherJob", "otherItem", "pause", "pauseItem", "cancel", "cancelItem",
                      "resume", "delete", "deleteWait", "deleteRows"},
                i : 0 .. Count + 1, open : SUBSET Items]
    /\ torn \in BOOLEAN /\ ops \in Nat

\* An item that fails is retried once by itself.  (Two workers that advance the playlist
\* at the same time can both choose it: then it is counted, and can be run, twice.)
RetriedOnce == ~torn => \A i \in Items : retried[i] <= 1

\* When all is calm, the row and the item tell the same end: what the playlist counts is
\* what happened to the jobs.
ColumnsAgree ==
    Calm /\ ~torn =>
        \A i \in Items : job[i] \in Over \/ item[i] \in Over => job[i] = item[i]

\* The states of a playlist are sound: types, one retry of each item, and two columns that
\* tell the same end.
PlaylistSafe == TypeOK /\ RetriedOnce /\ ColumnsAgree

\* A worker that ends leaves a paused playlist paused: only a command, or the claim of an
\* item that was resumed on its own, moves it.
PausedStays ==
    [][batch = "paused" /\ batch' # "paused" => torn' \/ cmd.pc # "idle" \/ claimed' # 0]_vars

\* A playlist is reported as finished when no job of it is waiting or being downloaded;
\* one that was resumed on its own a moment ago is not seen.
FinishedHasNoneWaiting ==
    [][batch' \in Finished /\ batch' # batch =>
           torn' \/ \A i \in Items : job[i] \notin Waiting \/ resumers[i] > 0]_vars

\* The status of a playlist moves with its items and with the user, not behind their back.
BatchIsTruthful == PausedStays /\ FinishedHasNoneWaiting

\* No queued item waits for ever behind the item that is at the head of the playlist.
ItemServed == \A i \in Items : job[i] = "queued" ~> job[i] # "queued"

\* A playlist comes to its end through failures, retries, pauses and resumes, unless an
\* item stays paused or is cancelled: nobody advances a playlist after the cancellation
\* of an item that has no worker.
EndsUnlessStopped ==
    batch \in Waiting ~>
        batch \notin Waiting \/ torn \/ \E i \in Items : job[i] \in Stopped

\* Each item gets its turn, and the playlist its end.
PlaylistGoesOn == ItemServed /\ EndsUnlessStopped
=============================================================================
