------------------------------ MODULE Progress ------------------------------
(***************************************************************************)
(* The live progress engine: the adapters that turn what the workers        *)
(* observe into snapshots (progress/adapter.rs, http.rs, aria2.rs,          *)
(* playlist.rs) and the coordinator that owns the published state, its      *)
(* persistence and its recovery (coordinator.rs).                          *)
(*                                                                         *)
(* A worker reports by calls.  One call is several critical sections: the   *)
(* adapter store is updated under its lock, the snapshots are read under    *)
(* the lock again, and each of them is handed to the coordinator under the  *)
(* coordinator's lock; every other thread may run between two of them.      *)
(* Thread 0 is the webview's command thread, which acts on the playlist.    *)
(***************************************************************************)
EXTENDS ProgressModel

CONSTANTS
    Jobs,          \* job numbers
    Batch,         \* the number of the playlist the media jobs belong to
    Scenarios,     \* what runs: the worker of each job (idle for none) and the bounds below
    Streams,       \* the streams of each media job; one stream is one unit of bytes
    Size,          \* the bytes of a download that is not a media job
    None           \* no snapshot, no adapter, no record

\* The bounds of a scenario: launches again, crashes, flushes of the persistence
\* thread, transactions of it that fail, commands on the playlist.
Bounds == {"launches", "crashes", "flushes", "failures", "commands"}

VARIABLES
    kind,          \* the worker of each job
    adapter,       \* ShadowStoreV2: the adapter of each job
    items,         \* PlaylistShadowStore: the items of the playlist
    pc,            \* where the worker of each job is
    outcome,       \* the last call of a worker that ended
    row,           \* the jobs whose row is committed as completed
    at, hand,      \* each thread inside a call: its next critical section, its snapshots
    cJobs, cLists, \* CoordinatorState.jobs and .playlists, by number
    pendP, pendB,  \* pending_persistence and pending_batches
    taken,         \* what flush_persistence drained and has not committed
    disk,          \* progress_v2_jobs and progress_v2_batches
    launched,      \* the jobs launched again since the start of the application
    left           \* what is left of each bound

store == <<adapter, items>>
threads == <<at, hand>>
live == <<cJobs, cLists>>
pending == <<pendP, pendB>>
bounds == <<launched, left>>

Spend(b) == left[b] > 0 /\ left' = [left EXCEPT ![b] = @ - 1]
vars == <<kind, store, pc, outcome, row, threads, live, pending, taken, disk, bounds>>

Ids == Jobs \cup {Batch}
Threads == Jobs \cup {0}
Members == {j \in Jobs : kind[j] = "media"}
Http == {"sequential", "segmented", "direct"}
Nothing == [i \in Ids |-> None]

----------------------------------------------------------------------------
(* The adapters: what one call makes of an adapter.                        *)

Fresh == [phase |-> "Queued", attempt |-> 0, streams |-> << >>,
          transfer |-> NoTransfer, final |-> FALSE, last |-> None]

Figures(bytes, total) ==
    IF total = Unknown THEN [NoTransfer EXCEPT !.bytes = bytes] ELSE WithTotal(bytes, total, "Exact")

Snapshot(a, transfer, final) ==
    [phase |-> a.phase, attempt |-> a.attempt, transfer |-> transfer, final |-> final]

\* HttpProgressAdapterV2: the figures are rewritten by the headers of every
\* answer, a total that is known exactly is kept.
HttpAfter(a, call, bytes, total) ==
    LET known == IF a.transfer.total # Unknown THEN a.transfer.total ELSE total
    IN  CASE call = "headers" ->
               [a EXCEPT !.phase = Go(@, "Downloading"), !.final = FALSE,
                         !.transfer = Figures(bytes, known)]
          [] call = "stream" ->
               [a EXCEPT !.phase = Go(@, "Downloading"), !.transfer = Figures(bytes, known)]
          [] call = "observe" ->
               IF a.phase \in Terminal THEN a
               ELSE [a EXCEPT !.transfer = Figures(bytes, a.transfer.total)]
          [] call = "completed" ->
               [a EXCEPT !.phase = Go(@, "Completed"), !.final = TRUE,
                         !.transfer = Figures(Size, Size)]
          [] OTHER ->
               [a EXCEPT !.phase = Go(@, CASE call = "preparing"  -> "Preparing"
                                           [] call = "post"       -> "PostProcessing"
                                           [] call = "finalizing" -> "Finalizing"
                                           [] call = "paused"     -> "Paused"
                                           [] call = "cancelling" -> "Cancelling"
                                           [] call = "cancelled"  -> "Cancelled"
                                           [] OTHER               -> "Failed")]

HttpSnapshot(a) ==
    LET s == Snapshot(a, a.transfer, a.final) IN IF ValidSnapshot(s) THEN s ELSE None

\* The snapshot of an adapter that remembers its last valid one.
Remember(a, transfer, final) ==
    LET s == Snapshot(a, transfer, final) IN IF ValidSnapshot(s) THEN [a EXCEPT !.last = s] ELSE a

\* Aria2ProgressAdapterV2 (torrents).
TorrentAfter(a, call, bytes, total) ==
    LET move(path) == [a EXCEPT !.phase = GoThrough(@, path)]
        whole == <<"Preparing", "Downloading", "PostProcessing", "Finalizing">>
        next ==
          CASE call = "begin" /\ a.phase \in {"Failed", "Cancelled"} ->
                 [a EXCEPT !.phase = "Preparing", !.attempt = @ + 1]
            [] call = "begin" -> IF a.phase = "Paused" THEN move(<<"Downloading">>) ELSE move(<<"Preparing">>)
            [] call = "observe" /\ a.phase \in Terminal -> a
            [] call = "observe" ->
                 [move(IF total # Unknown THEN <<"Preparing", "Downloading">> ELSE <<"Preparing">>)
                    EXCEPT !.transfer = Figures(bytes, total)]
            [] call = "finalizing" -> move(whole)
            [] call = "completed"  -> IF a.phase = "Downloading" THEN move(whole \o <<"Completed">>)
                                      ELSE move(<<"Completed">>)
            [] call = "paused"     -> move(<<"Preparing", "Paused">>)
            [] call = "cancelling" -> move(<<"Cancelling">>)
            [] call = "cancelled"  -> move(<<"Cancelling", "Cancelled">>)
            [] OTHER               -> IF a.phase = "Cancelling" THEN move(<<"Cancelled">>) ELSE move(<<"Failed">>)
    IN  Remember(next, next.transfer, call = "completed")

\* YtDlpProgressAdapterV2: a line about stream i, or a mark of the worker.
MediaStreams(a, states, to) ==
    [i \in DOMAIN a.streams |->
       IF a.streams[i].state \in states THEN [a.streams[i] EXCEPT !.state = to] ELSE a.streams[i]]

WithStream(a, i, state, bytes) ==
    [k \in DOMAIN a.streams \cup {i} |->
       IF k = i THEN [state |-> state, transfer |-> WithTotal(bytes, 1, "Exact")] ELSE a.streams[k]]

AllStreamsDone(streams, expected) ==
    /\ Cardinality(DOMAIN streams) >= expected
    /\ \A k \in DOMAIN streams : streams[k].state = "Completed"

\* A line of yt-dlp's output: a stream advances or is finished.
MediaLine(a, call, i, expected) ==
    LET done == WithStream(a, i, "Completed", 1)
        on   == GoThrough(a.phase, <<"Preparing", "Downloading">>)
    IN  CASE a.phase \in Terminal -> a
          [] call = "finished" ->
               [a EXCEPT !.streams = done,
                         !.phase = IF AllStreamsDone(done, expected) THEN Go(@, "PostProcessing") ELSE @]
          [] i \in DOMAIN a.streams /\ a.streams[i].state = "Completed" -> [a EXCEPT !.phase = on]
          [] OTHER -> [a EXCEPT !.phase = on, !.streams = WithStream(a, i, "Downloading", 0)]

\* A mark of the worker.
MediaMark(a, call) ==
    LET move(path) == [a EXCEPT !.phase = GoThrough(@, path)]
    IN  CASE call = "preparing"  -> move(<<"Preparing">>)
          [] call = "post"       -> move(<<"PostProcessing">>)
          [] call = "finalizing" -> move(<<"Finalizing">>)
          [] call = "completed"  -> move(<<"PostProcessing", "Finalizing", "Completed">>)
          [] call = "paused"     ->
               [a EXCEPT !.phase = IF @ = "Downloading" THEN "Paused" ELSE @,
                         !.streams = MediaStreams(a, {"Downloading"}, "Paused")]
          [] a.phase \in Terminal -> a
          [] call = "cancelled"  ->
               [move(<<"Cancelling", "Cancelled">>) EXCEPT
                  !.streams = MediaStreams(a, {"Downloading", "Paused"}, "Cancelled")]
          [] OTHER ->
               [move(<<"Failed">>) EXCEPT !.streams = MediaStreams(a, {"Downloading", "Paused"}, "Failed")]

MediaAfter(a, call, i, expected) ==
    LET next == IF call \in {"observe", "finished"} THEN MediaLine(a, call, i, expected)
                ELSE MediaMark(a, call)
    IN  Remember(next, AggregateStreams(next.streams, expected), call = "completed")

----------------------------------------------------------------------------
(* What the workers call, and where each call leads.                       *)

Stops(cancel) == {<<"paused", "done">>, <<"failed", "done">>, cancel}

\* run_http_worker, the segmented worker and aria2c as a direct engine.
HttpCalls(k, here) ==
    LET cancel == IF k = "segmented" THEN <<"cancelled", "done">> ELSE <<"cancelling", "cancel">>
    IN  CASE here = "new"  -> {<<"begin", "born">>}
          [] here = "born" -> {<<"preparing", "ask">>}
          [] here = "ask"  -> {<<"headers", "open">>} \cup Stops(<<"cancelling", "cancel">>)
          [] here = "open" -> {<<"stream", "run">>}
          [] here = "run"  -> {<<"observe", "run">>, <<"headers", "open">>}
                                \cup (IF k = "direct" THEN {<<"finalizing", "fin">>, <<"failed", "done">>,
                                                            <<"silent", "done">>}
                                      ELSE {<<"post", "post">>} \cup Stops(cancel))
          [] here = "post"   -> {<<"finalizing", "fin">>, <<"failed", "done">>}
          [] here = "fin"    -> {<<"failed", "done">>}
          [] here = "committed" -> {<<"completed", "done">>}
          [] here = "cancel" -> {<<"cancelled", "done">>}
          [] OTHER -> {}

TorrentCalls(here) ==
    CASE here = "new" -> {<<"begin", "run">>}
      [] here = "run" -> {<<"observe", "run">>, <<"finalizing", "fin">>} \cup Stops(<<"cancelling", "cancel">>)
      [] here = "fin" -> {<<"failed", "done">>}
      [] here = "committed" -> {<<"completed", "done">>}
      [] here = "cancel" -> {<<"cancelled", "done">>}
      [] OTHER -> {}

MediaCalls(here) ==
    CASE here = "new"  -> {<<"list", "born">>}
      [] here = "born" -> {<<"begin", "prep">>}
      [] here = "prep" -> {<<"preparing", "run">>}
      [] here = "run"  -> {<<"observe", "run">>, <<"finished", "run">>, <<"post", "post">>,
                           <<"paused", "tail">>, <<"cancelled", "tail">>, <<"failed", "tail">>}
      [] here = "post" -> {<<"finalizing", "fin">>, <<"failed", "tail">>}
      [] here = "fin"  -> {<<"failed", "tail">>}
      [] here = "committed" -> {<<"completed", "tail">>}
      [] OTHER -> {}

\* The calls that report nothing: the adapter is replaced without a publication.
Silent(j, call) == call = "silent" \/ (kind[j] = "media" /\ call = "begin")

Item(state) == [state |-> state, transfer |-> NoTransfer, final |-> FALSE, size |-> 0]

SizeOf(j) == IF kind[j] = "media" THEN Cardinality(Streams[j]) ELSE Size

\* PlaylistShadowStore::update_item, for the snapshot a call returned.
Update(j, s) ==
    IF j \in DOMAIN items /\ s # None
    THEN [items EXCEPT ![j] = [state |-> s.phase, transfer |-> s.transfer, final |-> s.final,
                               size |-> SizeOf(j)]]
    ELSE items

\* The bytes a call may bring: a stream grows, a connection starts over or goes on.
Bytes(j, call) ==
    IF call \in {"headers", "stream"} THEN {0, adapter[j].transfer.bytes}
    ELSE IF call = "observe" THEN adapter[j].transfer.bytes..SizeOf(j)
    ELSE {adapter[j].transfer.bytes}

\* First critical section of a call: the store is updated; the thread that made the
\* call publishes next (the shadow_ functions).
Reports(j, step) ==
    /\ at[j] = "idle"
    /\ pc' = [pc EXCEPT ![j] = step[2]]
    /\ outcome' = IF step[2] \in {"done", "tail"} THEN [outcome EXCEPT ![j] = step[1]] ELSE outcome
    /\ at' = [at EXCEPT ![j] = IF Silent(j, step[1]) THEN "idle" ELSE "read"]
    /\ UNCHANGED <<kind, row, hand, live, pending, taken, disk, bounds>>

HttpCall(j) ==
    /\ kind[j] \in Http
    /\ \E step \in HttpCalls(kind[j], pc[j]) :
         /\ Reports(j, step)
         /\ \/ step[1] = "silent" /\ UNCHANGED adapter
            \/ step[1] = "begin" /\ adapter' = [adapter EXCEPT ![j] = Fresh]
            \/ /\ step[1] \notin {"silent", "begin"}
               /\ \E bytes \in Bytes(j, step[1]), total \in {Unknown, Size} :
                    adapter' = [adapter EXCEPT ![j] = HttpAfter(@, step[1], bytes, total)]
    /\ UNCHANGED items

TorrentCall(j) ==
    /\ kind[j] = "torrent"
    /\ \E step \in TorrentCalls(pc[j]) :
         /\ Reports(j, step)
         /\ \/ /\ step[1] = "begin"
               /\ adapter' = [adapter EXCEPT ![j] =
                                TorrentAfter(IF @ = None THEN Fresh ELSE @, "begin", 0, Unknown)]
            \/ /\ step[1] # "begin"
               /\ \E bytes \in Bytes(j, step[1]), total \in {Unknown, Size} :
                    adapter' = [adapter EXCEPT ![j] = TorrentAfter(@, step[1], bytes, total)]
    /\ UNCHANGED items

\* The playlist of a media job enters the store with the items it does not have yet.
Listed == [m \in Members |-> IF m \in DOMAIN items THEN items[m] ELSE Item("Queued")]

MediaCall(j) ==
    /\ kind[j] = "media"
    /\ \E step \in MediaCalls(pc[j]) :
         /\ Reports(j, step)
         /\ \/ step[1] = "list" /\ items' = Listed /\ UNCHANGED adapter
            \/ step[1] = "begin" /\ adapter' = [adapter EXCEPT ![j] = Fresh] /\ UNCHANGED items
            \/ /\ step[1] \notin {"list", "begin"}
               /\ \E i \in Streams[j] :
                    LET next == MediaAfter(adapter[j], step[1], i, Cardinality(Streams[j]))
                    IN  /\ adapter' = [adapter EXCEPT ![j] = next]
                        /\ items' = Update(j, IF next.last = adapter[j].last THEN None ELSE next.last)

\* Second: publish_job, publish_http, publish_aria2 and publish_playlist read.
Read(t) ==
    /\ at[t] = "read"
    /\ LET list == IF items = << >> THEN None
                   ELSE LET s == PlaylistSnapshot(items) IN IF ValidSnapshot(s) THEN s ELSE None
           job  == IF t = 0 \/ adapter[t] = None THEN None
                   ELSE IF kind[t] \in Http THEN HttpSnapshot(adapter[t]) ELSE adapter[t].last
           wants == t = 0 \/ (kind[t] = "media" /\ (pc[t] = "born" \/ job # None))
       IN  hand' = [hand EXCEPT ![t] =
             [job |-> IF t # 0 /\ pc[t] = "born" /\ kind[t] = "media" THEN None ELSE job,
              list |-> IF wants THEN list ELSE None]]
    /\ at' = [at EXCEPT ![t] = "accept"]
    /\ UNCHANGED <<kind, store, pc, outcome, row, live, pending, taken, disk, bounds>>

\* cohere_live_phase: a queued snapshot with bytes is downloading.
Cohere(s) == IF s.phase = "Queued" /\ s.transfer.bytes > 0 THEN [s EXCEPT !.phase = "Downloading"] ELSE s

\* Third: coordinator::accept.
Accept(t) ==
    /\ at[t] = "accept"
    /\ at' = [at EXCEPT ![t] = IF hand[t].list = None THEN "idle" ELSE "list"]
    /\ hand' = [hand EXCEPT ![t] = IF @.list = None THEN None ELSE [@ EXCEPT !.job = None]]
    /\ IF hand[t].job = None THEN UNCHANGED <<cJobs, pendP>>
       ELSE LET s == Cohere(hand[t].job) IN
            /\ cJobs' = [cJobs EXCEPT ![t] = s]
            /\ pendP' = IF cJobs[t] = s THEN pendP ELSE [pendP EXCEPT ![t] = s]
    /\ UNCHANGED <<kind, store, pc, outcome, row, cLists, pendB, taken, disk, bounds>>

\* Mutant: every aggregate is shown as it comes.
AsItComes(s) == s

\* stabilize_playlist_snapshot: within an attempt the fraction shown never shrinks.
Stabilized(s) ==
    LET before == cLists[Batch] IN
    IF before = None \/ (before # None /\ before.transfer.progress = Unknown) THEN s
    ELSE [s EXCEPT
            !.transfer.progress = IF @ = Unknown THEN before.transfer.progress
                                  ELSE Max({@, before.transfer.progress}),
            !.transfer.pkind = IF s.transfer.progress = Unknown THEN before.transfer.pkind ELSE @]

\* Fourth: coordinator::accept_playlist.
AcceptPlaylist(t) ==
    /\ at[t] = "list"
    /\ at' = [at EXCEPT ![t] = "idle"]
    /\ hand' = [hand EXCEPT ![t] = None]
    /\ LET s == Stabilized(Cohere(hand[t].list)) IN
          /\ cLists' = [cLists EXCEPT ![Batch] = s]
          /\ pendB' = IF cLists[Batch] = s THEN pendB ELSE s
    /\ UNCHANGED <<kind, store, pc, outcome, row, cJobs, pendP, taken, disk, bounds>>

\* The row is committed as completed before the worker reports it.
Commit(j) ==
    /\ pc[j] = "fin" /\ at[j] = "idle"
    /\ row' = row \cup {j}
    /\ pc' = [pc EXCEPT ![j] = "committed"]
    /\ UNCHANGED <<kind, store, outcome, threads, live, pending, taken, disk, bounds>>

\* shadow_remove: the adapter goes, then whatever the coordinator has under the number.
RemoveAdapter(j) ==
    /\ pc[j] = "tail" /\ at[j] = "idle"
    /\ adapter' = [adapter EXCEPT ![j] = None]
    /\ pc' = [pc EXCEPT ![j] = "forget"]
    /\ UNCHANGED <<kind, items, outcome, row, threads, live, pending, taken, disk, bounds>>

Forget(j) ==
    /\ pc[j] = "forget"
    /\ cJobs' = [cJobs EXCEPT ![j] = None]
    /\ cLists' = [cLists EXCEPT ![j] = None]
    /\ pendP' = [pendP EXCEPT ![j] = None]
    /\ pc' = [pc EXCEPT ![j] = "done"]
    /\ UNCHANGED <<kind, store, outcome, row, threads, pendB, taken, disk, bounds>>

\* The dispatcher launches the job again.
Relaunch(j) ==
    /\ pc[j] = "done" /\ at[j] = "idle" /\ j \notin row /\ kind[j] # "idle"
    /\ Spend("launches")
    /\ launched' = launched \cup {j}
    /\ pc' = [pc EXCEPT ![j] = "new"]
    /\ outcome' = [outcome EXCEPT ![j] = "none"]
    /\ UNCHANGED <<kind, store, row, threads, live, pending, taken, disk>>

----------------------------------------------------------------------------
(* Commands on the playlist, from the webview or the end of a worker.      *)

PauseItem(item)  == IF item.state \in Terminal THEN item ELSE [item EXCEPT !.state = "Paused"]
ResumeItem(item) == IF item.state = "Paused" THEN [item EXCEPT !.state = "Queued"] ELSE item
CancelItem(item) == IF item.state = "Completed" THEN item ELSE [item EXCEPT !.state = "Cancelled"]
RetryItem(item)  == IF item.state = "Failed" THEN Item("Queued") ELSE item

Command ==
    /\ at[0] = "idle" /\ items # << >>
    /\ Spend("commands")
    /\ \/ items' = [j \in DOMAIN items |-> PauseItem(items[j])]
       \/ items' = [j \in DOMAIN items |-> ResumeItem(items[j])]
       \/ items' = [j \in DOMAIN items |-> CancelItem(items[j])]
       \/ items' = [j \in DOMAIN items |-> RetryItem(items[j])]
    /\ at' = [at EXCEPT ![0] = "read"]
    /\ UNCHANGED <<kind, adapter, pc, outcome, row, hand, live, pending, taken, disk, launched>>

----------------------------------------------------------------------------
(* The persistence thread, a crash and the recovery.                       *)

NoneTaken == [jobs |-> [j \in Jobs |-> None], list |-> None]
Merge(old, new) == [j \in Jobs |-> IF new[j] # None THEN new[j] ELSE old[j]]

FlushTake ==
    /\ taken = None
    /\ Spend("flushes")
    /\ pendB # None \/ \E j \in Jobs : pendP[j] # None
    /\ taken' = [jobs |-> [j \in Jobs |-> pendP[j]], list |-> pendB]
    /\ pendP' = Nothing
    /\ pendB' = None
    /\ UNCHANGED <<kind, store, pc, outcome, row, threads, live, disk, launched>>

FlushCommit ==
    /\ taken # None
    /\ disk' = [jobs |-> Merge(disk.jobs, taken.jobs),
                list |-> IF taken.list # None THEN taken.list ELSE disk.list]
    /\ taken' = None
    /\ UNCHANGED <<kind, store, pc, outcome, row, threads, live, pending, bounds>>

\* requeue_persistence: the drained records go back over whatever is pending now.
FlushFails ==
    /\ taken # None
    /\ Spend("failures")
    /\ pendP' = [i \in Ids |-> IF i \in Jobs /\ taken.jobs[i] # None THEN taken.jobs[i] ELSE pendP[i]]
    /\ pendB' = IF taken.list # None THEN taken.list ELSE pendB
    /\ taken' = None
    /\ UNCHANGED <<kind, store, pc, outcome, row, threads, live, disk, launched>>

\* Mutant: what was in progress is shown as it was.
RecoveredAsItWas(s) == s

\* recover_snapshot: what was in progress waits again.
Recovered(s) == IF s.phase \in Terminal \cup {"Queued"} THEN s ELSE [s EXCEPT !.phase = "Queued"]

\* The process dies, starts again and runs recover_persisted_state.
Crash ==
    /\ Spend("crashes")
    /\ launched' = {}
    /\ adapter' = [j \in Jobs |-> None]
    /\ items' = << >>
    /\ pc' = [j \in Jobs |-> "done"]
    /\ outcome' = [j \in Jobs |-> "killed"]
    /\ at' = [t \in Threads |-> "idle"]
    /\ hand' = [t \in Threads |-> None]
    /\ cJobs' = [i \in Ids |-> IF i \in Jobs /\ disk.jobs[i] # None THEN Recovered(disk.jobs[i]) ELSE None]
    /\ cLists' = [i \in Ids |-> IF i = Batch /\ disk.list # None THEN Recovered(disk.list) ELSE None]
    /\ pendP' = Nothing
    /\ pendB' = None
    /\ taken' = None
    /\ UNCHANGED <<kind, row, disk>>

----------------------------------------------------------------------------
Init ==
    /\ \E s \in Scenarios : kind = s.kind /\ left = s.left
    /\ adapter = [j \in Jobs |-> None]
    /\ items = << >>
    /\ pc = [j \in Jobs |-> IF kind[j] = "idle" THEN "done" ELSE "new"]
    /\ outcome = [j \in Jobs |-> "none"]
    /\ row = {}
    /\ at = [t \in Threads |-> "idle"]
    /\ hand = [t \in Threads |-> None]
    /\ cJobs = Nothing /\ cLists = Nothing
    /\ pendP = Nothing /\ pendB = None
    /\ taken = None
    /\ disk = NoneTaken
    /\ launched = {}

Next ==
    \/ \E j \in Jobs : HttpCall(j) \/ TorrentCall(j) \/ MediaCall(j)
    \/ \E j \in Jobs : Commit(j) \/ RemoveAdapter(j) \/ Forget(j) \/ Relaunch(j)
    \/ \E t \in Threads : Read(t) \/ Accept(t) \/ AcceptPlaylist(t)
    \/ Command
    \/ FlushTake \/ FlushCommit \/ FlushFails
    \/ Crash

Spec == Init /\ [][Next]_vars

----------------------------------------------------------------------------
SnapshotOk(s) == s = None \/ (s.phase \in Phases /\ ValidSnapshot(s))

\* The published figures are always ones the contract allows, for jobs and for
\* playlists, in memory, on the way to the database and in it.
TypeOK ==
    /\ \A i \in Ids : SnapshotOk(cJobs[i]) /\ SnapshotOk(cLists[i])
    /\ \A j \in Jobs : SnapshotOk(pendP[j]) /\ SnapshotOk(disk.jobs[j])
    /\ SnapshotOk(pendB) /\ SnapshotOk(disk.list)
    /\ at \in [Threads -> {"idle", "read", "accept", "list"}]
    /\ pc \in [Jobs -> {"new", "born", "prep", "ask", "open", "run", "post", "fin", "committed",
                        "cancel", "tail", "forget", "done"}]

\* Whoever asks the coordinator about a job whose worker is not in the middle of a
\* report gets what the adapter last said about it (accept, publish_*).
JobIsCurrent ==
    \A j \in Jobs :
        at[j] = "idle" /\ adapter[j] # None /\ pc[j] \notin {"prep", "forget"} =>
            LET s == IF kind[j] \in Http THEN HttpSnapshot(adapter[j]) ELSE adapter[j].last
            IN  s # None => cJobs[j] = Cohere(s)

\* A worker that ended by its last call has its end on show: the sequential worker and
\* the torrent worker for every end, aria2c as a direct engine and the segmented
\* worker only for the ends their calls make legal.
EndIsShown ==
    \A j \in Jobs :
        /\ pc[j] = "done" /\ at[j] = "idle"
        /\ kind[j] \in {"sequential", "torrent"}
        => /\ outcome[j] = "completed" => cJobs[j].phase = "Completed"
           /\ outcome[j] = "cancelled" => cJobs[j].phase = "Cancelled"
           /\ outcome[j] = "failed"    => cJobs[j].phase = "Failed"
           /\ outcome[j] = "paused"    => cJobs[j].phase = "Paused"

\* Nothing on show, pending or on disk says completed unless the row is: a crash at any
\* point recovers no completion that did not happen (recover_persisted_state).
CompletionIsTrue ==
    \A j \in Jobs :
        \A s \in {cJobs[j], pendP[j], disk.jobs[j]} : s # None /\ s.phase = "Completed" => j \in row

\* Right after a start nothing is on show as running (a step).
StartsQuiet ==
    left'.crashes < left.crashes =>
        \A i \in Ids : \A s \in {cJobs'[i], cLists'[i]} :
            s # None => s.phase \in Terminal \cup {"Queued"}

\* The fraction of a playlist on show never shrinks and never disappears while the
\* application runs, however the publications of its jobs overlap
\* (stabilize_playlist_snapshot).
PlaylistNeverShrinks ==
    left'.crashes = left.crashes /\ cLists[Batch] # None =>
        /\ cLists'[Batch] # None
        /\ cLists'[Batch].transfer.progress >= cLists[Batch].transfer.progress

\* A job on show as ended stays so until a new worker, its removal or a restart.
EndStaysShown ==
    \A j \in Jobs :
        cJobs[j] # None /\ cJobs[j].phase \in Terminal /\ left'.crashes = left.crashes =>
            \/ cJobs'[j] = None
            \/ cJobs'[j].phase = cJobs[j].phase
            \/ j \in launched \/ outcome[j] = "killed"
=============================================================================
