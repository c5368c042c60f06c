# Verification of the CacaTools download manager

TLA+ models of the Rust back end in `src/src-tauri/src` (a Tauri application:
the interface is a web view that calls commands, the state lives in SQLite and
in process memory), model-checked with TLC, with the safety theorems proved by
TLAPS for every value of the constants.

Paths below are relative to `src/src-tauri/src` unless they start with `app-ui`
or `extension`.

## 1. Inventory

### Stores of truth

| store | who writes it | survives a crash |
|---|---|---|
| `jobs`, `download_jobs`, `media_jobs`, `torrent_jobs`, `playlist_items`, `playlist_batches`, `download_schedules` (SQLite, WAL) | everyone: commands, workers, scheduler, cleanup threads | yes; `db/mod.rs:179` turns `running` into `queued` at the next start |
| `active_downloads`, `active_media_pids` (the registries) | worker threads on entry and through guards on exit | no |
| slot gates (`DynamicSlotGate`), wake channel, `GLOBAL_DISPATCHER` | dispatcher, setting command, permits | no |
| `.part` file, its `.lock`, the destination file | HTTP worker, cleanup and deletion threads | yes (the lock is released) |
| progress maps (`progress/coordinator.rs`) | workers | partly (`progress_v2`) |
| tool directories and pointer file (`tools/overlay.rs`) | overlay | yes |
| request and response files (`extension_bridge.rs`) | native host, application | yes |

There is no lock that spans the database and the memory: almost every handler
reads one store, leaves it, and acts on the other. That is where this system is
hard.

### Components

| component | code | state and operations | what makes it correct | model |
|---|---|---|---|---|
| Dispatcher | `dispatcher.rs`, `priority.rs` | async task: wake or 250 ms tick, drain, try each lane, claim, launch; slot gate with a changing limit | one worker per job, permits conserved, every queued job served | `Dispatcher` |
| HTTP job | `downloads/worker.rs`, `downloads/http.rs` | worker thread: register, lease (`ownership_generation`), writer lock, transfer, mark finalizing, rename, commit; recovery after an error | one writer, no update after the user stopped the job, completed means whole file | `HttpJob`, `JobContract` |
| HTTP transfer | `downloads/worker.rs:749-1253` | requests, 200/206/416 replies, validators, reconnections, chunk loop, bandwidth wait | the partial is a prefix of one version of the file | `HttpTransfer` |
| Other HTTP engines | `downloads/aria2.rs`, `segmented.rs`, curl in `worker.rs` | child process or segment threads, partials, joining, final check | complete means whole; received bytes are kept | `HttpEngines` |
| Storage and deletion | `downloads/storage.rs`, `lib.rs:4740` | emergency stop, tombstone, threads that wait for idle and remove files | no file removed under a worker | `HttpJob`, `MediaJob`, `TorrentJob` |
| Commands | `downloads/commands.rs`, `commands/`, `media/queue.rs` | create, pause, resume, stop, delete, clear, priority, limits, retry | a decision of the user is not undone by a thread | the same, `Playlist` |
| Media worker | `media/download/worker.rs`, `media/mod.rs` | yt-dlp and FFmpeg processes, a list of attempts, tags, conversion, checks, move, guarded completion, resume thread | no process without its worker; a stop wins; what is delivered was checked | `MediaJob`, `MediaAttempts`, `MediaFinish` |
| Media progress numbers | `media/download/progress.rs` | plan, sizes, tracker, row | what is called exact is true | `MediaProgress` |
| Playlists | `media/playlist.rs`, `media/mod.rs` | three status columns; promotion of the next item, automatic retry, whole-playlist commands | columns agree, every item gets its turn, a pause stays | `Playlist` |
| Torrents | `torrents/mod.rs` | aria2c process, registry, resume thread, unguarded ends | no process without a worker; no order to start what has ended | `TorrentJob` |
| Scheduler | `lib.rs:5020-5243` | due actions every 10 s, daily or once | each action once for each of its times | `TorrentJob` |
| Bandwidth | `downloads/bandwidth.rs` | limits for all, a job, a playlist; a limiter with one schedule for all readers, replaced when the limit changes | never faster than the limit in force; interruption seen | `Bandwidth`, `HttpTransfer` |
| Progress engine | `progress/*` | adapters, snapshots, playlists folded from items, persistence, recovery | the shown end is the real one and stays | `ProgressModel`, `Progress` |
| Tool overlay | `tools/overlay.rs`, `download.rs`, `ipc.rs` | staging, promotion, health checks, rollback, repair | the pointer names a complete version; the session keeps its tool | `ToolOverlay` |
| Tool catalogue | `tools/catalog.rs` | three cached files, sequence numbers | no rollback | `ToolCatalog` |
| Extension bridge | `extension_bridge.rs`, `extension/` | mailbox of files, application lock, timeouts | a capture is downloaded once, and answered | `ExtensionBridge` |
| Windows | `app/state.rs`, `subwindows.rs` | operations with generations, closed tombstones, processes | a cancelled operation owns no process; the main window is never stuck | `WindowOps` |
| Resolver | `media/resolver.rs`, `extraction.rs` | cache, shared flights, leader and followers | one extraction per link; a cancellation has a cause | `MediaResolver` |
| Search | `media/search.rs` | cache, flights, supersession | one query works; the newest is answered | `MediaSearch` |
| Recovery advice | `media/recovery.rs`, `lib.rs:3420-3660` | rules from message to code, probes | the advice is what was seen | `Recovery` |
| Spotify import | `media/spotify.rs`, `lib.rs` | pages, limit, choice of a source by score | the list's beginning; ready means verified | `SpotifyImport` |
| Spotify session | `spotify_auth.rs` | login window, renewals, logout | the stored session can be renewed | `SpotifySession` |
| Start and exit | `lib.rs:5485`, `app/bootstrap.rs` | instance lock, migration, dispatcher start; the exit kills processes, then requeues rows | dispatcher installed before the first launch; an exit fails no job | `Dispatcher`, `MediaJob`, in part |
| Player, update check, chaos switches, web interface | several | playback, external I/O, test switches, rendering | | not, or only as a source of commands |

### Interaction

The web view sends commands; a command updates rows and wakes the dispatcher.
The dispatcher claims a row (`queued` to `running`, or a `running` row that
nobody works on) and starts a worker thread with a completion closure that owns
the slot permit. The worker enters the registry, works, and leaves: registry
entry first, then permit, then wake (guards drop in reverse order). A pause is
only a row update: the worker sees it at its next look, so a paused job may keep
its worker for a while, and a resume may come before the worker has left. Media
resumes, cleanups and deletions each start a thread that polls the registry.
A finished playlist item promotes the next one. Torrents do not pass through the
dispatcher: the command, the resume thread, the scheduler or the restart starts
their worker. Analyses, previews and searches are requests of windows that share
work in flight, with processes that belong to the window's operation.

The hard behaviours are therefore the interleavings of these threads, statements
split over several transactions, crashes between them, a server whose file
changes, and loops that must end. `PROJECT.json` lists them under `hazards`
with their lines.

## 2. Plan

| order | module | about | abstract specification or theorem | state |
|---|---|---|---|---|
| 1 | `Dispatcher` | slots, claims, registry, commands | permits, one worker per job | checked, proved |
| 2 | `JobContract` | what a download promises, whatever carries it out | the abstract specification of `HttpJob` | done |
| 3 | `HttpJob` | one row and its files, step by step | single writer, safe removal, user wins, completed has file; implements `JobContract` | checked, proved |
| 4 | `HttpTransfer` | the bytes | prefix of one version | checked, proved |
| 5 | `MediaJob`, `Playlist` | processes, three status columns, batch | one worker, no process without one, live work keeps its files, completion is earned; columns agree, the batch tells the truth | checked, proved |
| 6 | `TorrentJob` with the scheduler | unguarded writes, timed actions | the row of what ended stays, a late launch is an old order, writer keeps files, a schedule runs once | checked, proved |
| 7 | `MediaAttempts`, `MediaFinish`, `MediaProgress` | inside the media worker | bounded list, delivered is checked | checked, the first two proved |
| 8 | `ToolOverlay`, `ToolCatalog` | promotion and recovery of a tool, its catalogue | whole pointer, no rollback | checked, proved |
| 9 | `ProgressModel`, `Progress` | phases, snapshots, persistence | the shown end is true and stays | checked |
| 10 | `WindowOps`, `MediaResolver`, `MediaSearch` | generations, shared flights | cancelled owns nothing, one extraction, cancelled with cause | checked, proved |
| 11 | `ExtensionBridge`, `HttpEngines`, `SpotifySession`, `SpotifyImport`, `Recovery` | mailbox, engines, session, list, advice | one transfer, bytes kept | checked, `SpotifySession` proved |
| 12 | `Bandwidth` | limits and pacing | no byte before its turn; the loop keeps the limit in force | checked, proved |
| 13 | proofs of 9 and the rest of 11 | | `ShownIsTrue`; `OneTransfer`; `ChoicesSafe` | open: only checked |

`HttpJob` details what `Dispatcher` abstracts of a worker, and `HttpTransfer`
details the transfer loop of `HttpJob`; `MediaJob` details the media worker of
`Playlist`, `MediaAttempts` its attempts and `MediaFinish` what follows them.
`JobContract` is what `HttpJob` implements; a media job does not, since
`fail_media_job` and the resume thread overwrite decisions of the user (section 6).
`MediaResolver` is composed with `WindowOps`, whose operations its requests
belong to; `Progress` builds on the pure functions of `ProgressModel`.

## 3. Modules and code

### Dispatcher

`status`, `priority`, `retries` are columns; `limit`, `inUse` the two gates;
`registry` the union of the two maps; `thread` the worker threads; `resumers`
and `deleters` the polling threads; `wake` the channel (several wakes are one);
`disp` the task's program counter; `installed` the global.

Steps of the task: `RecvWake` or `Reconcile` (the tick), `AcquireSlot` or
`NoSlot`, `ClaimNext`, `ClaimNothing` or `ClaimError`, `Launch` or
`LaunchPanics`, for each lane in turn until a round starts nothing. The claim is
one step (one SQLite transaction with the registry locks taken inside it); the
launch is another one, because the task awaits in between. `Candidates`,
`Before` and `InWindow` are the query with its ORDER BY and LIMIT, `Claimable`
what the registry leaves of it.

A worker is abstracted to what the others can see: registration, its first look
at the row, one of the ways it ends (finish, stop seen, error, and for an error
the re-reading of the status and the later failure write), the promotion of the
next playlist item, and the three steps of leaving. `WorkerFinish` etc. map to
the media worker, whose entry and exit are the ones with the least guards.
The status of an item of a playlist stands for both its columns
(`jobs.status`, `playlist_items.status`); `Playlist` separates them.

### JobContract

Three variables: the user's wish with its outcome (`wanted`, `held`, `dropped`;
`done`, `failed`; `gone`), whether the whole file is at its destination, and the
owner of the job. Begin only a wanted job nobody owns; deliver only as its owner
and never over a file; finish only a wanted job with its whole file; fail only a
wanted one; remove files only of a job that is over and unowned. What the code
does not promise is left open: a command may overwrite a completion (`Hold`,
`Drop`), and a job may fail beside its file.

### HttpJob

One row, one destination, worker identities that come and go. Each statement
that touches the database, and each file operation others can observe, is a step of
its own: `WorkerStart` (lease), `WorkerLock`, `WorkerOpen`, `WorkerLoop`,
`WorkerWrite`, `WorkerMark`, `WorkerCheck`, `WorkerRename`, `WorkerOwned`,
`WorkerCommit`, and the error path `WorkerError`, `WorkerRecover`,
`WorkerRecommit`, `WorkerReadStatus`, `WorkerFail`, `WorkerUnlist`. Stops and
deletions are split where the code reads and then writes. `cleaner` and
`deleter` are the two polling threads, `Crash` the end of the process with the
migration of the next start.

`Click...` are what the interface lets a user do: one command at a time for a
row, chosen from the status on screen (`app-ui/download-manager/actions.js`),
while the handler's own writes are unguarded as in the code, so that a row may
have changed between the click and the write. The browser extension's panel
does not have these conditions; commands from there and the scheduler's are not
in this module. The branches for a stale lease (`StaleErr`) are in the model and
never reached: registry and launch already exclude a second worker. They are second line of defence.

`Contract` instantiates `JobContract`: `Wish` reads the status, `whole` is a
destination of `Size` chunks, and `Owners` are the workers with a lease.
`WorkerStart` is `Begin`, the rename `Deliver`, a commit (also that of the
recovery) `Finish`, `WorkerFail` `Fail`; the commands write the wish; deletions
are `Remove` and `Forget`; everything else is a stutter or `Leave`.

### HttpTransfer

A file is a sequence of chunks that remember their version and position, so that
a splice, a hole or a truncation is visible. The server (external) replaces its file by the next of
`Sizes` at any time, answers 200, 206 or 416, and is honest about lengths and
offsets. Claim, lease and commit are one step here (`HttpJob` has them split);
an absent partial counts as an empty one; `Fail` may complete a job whose
destination has the right length (`complete_verified_http_job`).

The flags are conditions of the outside world: `Validators` (the server sends a
strong ETag or Last-Modified), `Ranges`, `IfRange` (for each version, whether its server may obey or
ignore that header), and `Throttled` (the job may have a bandwidth limit; how long it waits is `Bandwidth`). Without validators two
versions of the same size cannot be told apart by any client, so the runs have `Validators = TRUE`.

### HttpEngines

The engines kept beside the one above (`downloads/aria2.rs`, `segmented.rs`, curl in
`worker.rs`), which nothing but tests calls in this release. The engine is chosen in `Init` and
each has its own `start`, loop and end: aria2's process and control file, curl's
temporary file and its restarts, the two segment threads with their part files, joining
and retries. A file is the sequence of the versions its bytes came from, 0 for a page of HTML.

### Bandwidth

`general` and `own` are the stored limits (`settings`, `download_speed_limits`), which the three commands
change, a playlist's row by row without a transaction (`writing`). `Policy` is
`read_job_bandwidth_policy` with its fallbacks. `limiter` is a `BandwidthLimiter`: its rate, the
start of its clock and `next_available_nanos`; a reader reserves (`Read`), waits, and keeps its bytes
(`Keep`) or is interrupted. The transfer loop asks for the limit before every read (`Turn`) and a second
time for the new limiter (`Replace`); segment threads keep the limiter they started with. The clock is read
just before the schedule is locked: one step. Bytes are numbered in the order in which they were paid for; `cap` counts those
kept since the limit in force last changed.

### MediaJob

One row (`status`, `item`, `error`, `known`), what the work directory and the
destination hold, the two registries (one variable, `registry`, for the job, and
`extern` for its processes), the dispatcher's claim, and the worker as one step
per statement or system call: registration, start and registration of the child
process, the watch loop and its kill, the failed exit that reads the status again, the
finalizer up to the guarded `UPDATE ... WHERE status='running'` (`worker.rs:1740`), and
`fail_media_job`. Pause, stop and deletion write the row, then kill; `ResumerStep`
is `resume_media_worker_when_idle`. `overridden` records that a thread wrote over a
stop, `torn` that a crash or a database failure fell between two statements. How many attempts
a worker makes is its constant; which, is `MediaAttempts`.

`quit` is `prepare_full_exit`, statement by statement: the flag, the processes of both registries and
the registry itself, the row, the item, the end of the process. Everything else goes on meanwhile, so a
worker whose process was killed comes to its error (`WorkerError` sees the flag), another may start
a process nobody kills, and the dispatcher may claim the job again. `kept` says that the job was live, and
left alone, when the exit began. In the moments between the kill and the end no child ends well
(an abstraction: it has milliseconds). The next start is that of a crash.

`MediaAttempts` is the list of yt-dlp invocations while it is walked: what `Ladder` starts
with for a host, what each class of failure inserts, appends or gives up, the metadata files with
signed addresses and who removes them. `MediaFinish` follows a success: which file of the
work directory is `chosen`, Spotify's tags, the MP4 conversion, the two checks, the
final copy and the completion, over what an earlier run may have left (`work`); a file is its
container, streams, length and damage. `MediaProgress` is the tracker: the plan line, what
each stream reports, and the statement that writes the numbers into a row whose status
was read before.

### Playlist

`job`, `item` and `batch` are the three columns, each written by a step of its own
wherever the code has a statement of its own; `retried` and `temporary` are what
`playlist_items` keeps for the automatic retry. A worker is only its writes: start, the end of the
item, and `advance_playlist_batch` in as many steps as it has statements. `torn` becomes true when
statements of two writers mix (`Tears`), on a crash, and when a resume thread gives up: `RetriedOnce`
and `ColumnsAgree` are promised only until then.

### TorrentJob

Torrents do not pass the dispatcher. The worker (register with pid 0, spawn, register
the pid, watch, end) has no guard on its final writes, and a statement that fails on the way
(`WorkerBreaks`) ends it and leaves aria2c to itself. A resume is the look at the row (`ResumeRead`), the guarded
write with the start of a thread (`ResumeWrite`), and the thread; `resumers` wait for the old
worker, and `ResumerStarts` launches whatever the row says; a launch is refused while a worker is listed (`refused`).
`OnTheWay` counts the orders to start that were accepted and not yet carried out. An aria2c that nobody follows any more
only shows in `orphan`, with its row deleted (`rowless`) or kept (`unwatched`). The scheduler reads the due
rows once per turn (`due`) and then, row by row, acts, launches or kills, and marks the row done
or moves it to the next day; `ran` counts its executions for one time. `now` is a day.

### ToolOverlay and ToolCatalog

`ToolOverlay`: a version directory passes through `Contents` (directory, temporary
executable, executable, temporary manifest, full), and the pointer through its
backup and temporary file, with a crash possible between any two. `upd` is the updater under
the lease; `res` a resolution, which repairs the store first and needs no lease; `session` the
path resolved at start. `ToolCatalog`: the three cached files, each replaced by rename with a
`.previous`, and a check that reads, fetches and writes them.

### ProgressModel and Progress

`ProgressModel` holds the pure functions: which phase may follow which, what makes a snapshot
valid, newer or final, how a playlist is folded from its items. `Progress` has the adapters
of five ways to download, the calls of their workers cut where the code releases a lock (`at`,
`hand`), the coordinator with its acceptance rules, the persistence thread with
drained and requeued records (`pendP`, `pendB`, `taken`), the tables (`disk`) and recovery.

### WindowOps, MediaResolver, MediaSearch

`WindowOps`: `registry` and `ops` are the operations by generation, with their flags and
processes; `draining` separates setting the flag from taking the processes; `queue` is the UI
thread's. `MediaResolver` extends it: requests of a window look at the cache, join or lead a
flight, run one process per profile under the window's operation, publish, and leave. A
window that is closed cancels its operation at any step. `MediaSearch` is the search
with supersession: a query cancels the flights of other queries.

### ExtensionBridge

Every browser message is a host process, which writes a request file, probes or starts the
application, waits for a response file and gives up after its time; the application takes the lock
(or hands its request over and ends), lists, drains and answers from the timer of the web
view. `copy` is the browser's own download, paused while it asks. `made` and `live` are the jobs;
`unserved`, `kept` and `pinged` the histories that name the exceptions.

### SpotifyImport, SpotifySession, Recovery

`SpotifyImport`: pages until a limit, while the list may be edited; then candidates, their scores,
the choice and the job. `SpotifySession`: the login window, its loopback port, code
exchange, and renewals by several analyses over the stored row, against a service that rotates
its renewal tokens. `Recovery`: the ordered rules from message to code, at most two probes, and
the advice; a message is the set of the marks the rules look for.

### MCParts and MCServices

These two modules check the smaller parts. A behaviour is that of one part, chosen in `Init`
(`part`) and never changed; the variables `x1` to `x16` are the state of that part, handed to it by
`INSTANCE ... WITH`, so that no part meets the state of another and the state space is the sum, not
the product. `MCParts` is for what must never happen; `MCServices`, which extends it, for what must
happen, under fairness (`FairServices`; `ServicesSpec` is the same without). The bounds of a part are constants with values
in the .cfg where a theorem is about that part or two runs differ in them, and otherwise stand beside its instance. Each property is a
conjunction "in this part, that property", whose conjuncts are stated in the part's own module.

## 4. Runs

| run | asks | result |
|---|---|---|
| `dispatch_http` | three HTTP jobs, up to two slots, all commands, restarts, claim errors: `PermitAccounting`, `OneWorkerPerJob`, `WindowHidesNothing` | holds |
| `dispatch_playlist` | two items of a playlist, two media slots, resume threads, late setup: `RegistryTruthful`, `LaunchFindsJobIdle` | holds |
| `dispatch_live` | `QueuedIsServed`, `RunningIsServed` under fairness | holds |
| `http_job` | `KeepsContract`, `LeaseIsExclusive`, `OneWriter`, `FilesRemovedOnlyWhenIdle`, and under fairness `WorkEnds` | holds |
| `transfer_resume` | `NoSplice`, `PartialKnowsItsVersion`, `CompletedIsWholeOrShrunk`; the file is replaced three times, once by a smaller one, and the server may ignore If-Range | holds |
| `transfer_throttle` | a completed file is whole, with a bandwidth limit | violated |
| `media_job` | `MediaJobSafe` (one worker, no process without it, live work keeps its files, the item tells the end, an exit is not a failure), `CompletionIsEarned`, and under fairness `WorkEnds` | holds |
| `playlist` | `PlaylistSafe` (one retry, columns agree), `BatchIsTruthful`, and under fairness `PlaylistGoesOn` | holds |
| `torrent` | `TorrentSafe`, `DecisionsStand` (files, the ended row, no launch but by an order from before the end, whole completions), and under fairness `OrdersAreServed`, with commands, failed statements and a schedule | holds |
| `parts` | `ToolsSafe`, `LadderSafe`, `ShownIsTrue`, `ShownIsKept`, `FinishSafe`, `PreparationSafe`, `ChoicesSafe` (import and advice), `LimitSafe` | holds |
| `services` | `OneTransfer`, `SearchSafe`, `SessionRenewable`, `EnginesKeep`, and under fairness `EverythingEnds` | holds |
| `attempts_announced` | an announced attempt follows | violated |

`MCDispatcher`, `MCHttpJob`, `MCHttpTransfer`, `MCMediaJob`, `MCPlaylist` and `MCTorrentJob` instantiate their
components' modules: they name the model values and define the sets and functions the `.cfg` files assign.

Each property of a passing run has a mutant in `PROJECT.json`, a conjunction usually one for each
conjunct: a definition changed as a plausible bug would change it, under which the run fails. The
mutated operators stand before their originals.

### What the violated runs show

* **Bandwidth limit** (`downloads/worker.rs:1139`): a pause the limiter sees and a
  quick resume before the loop reads the status drop one chunk; the missing
  length is fetched after the end, and the length check passes.
* **Announced attempt** (`media/download/worker.rs:1445`): a locked cookie store on the last attempt
  of the list (a generic host has one) announces "retrying without cookies" and fails the job.

### Bounds

`MaxOps` bounds what the environment does (commands, crashes, failures) in one
behaviour, and is the only bound on behaviours besides the sizes of the sets.

* `dispatch_*`: three jobs are the fewest for which two run and one waits, with
  `Window = 2` so that LIMIT is reached (64 in the code, with limits of at most 8
  and 4: the assumption `MaxLimit <= Window` is what matters and the proofs use no
  more); two operations suffice for pause and resume of one job while others run.
* `http_job`: two chunks separate an empty, a partial and a whole file; two
  identities let a second worker exist if anything let it; six operations reach
  pause, resume, stop, delete, crash and resume again.
* `transfer_*`: versions of equal, larger and smaller size; `MaxRetries = 1` (4 in the code) reaches
  the limit; the worker's own steps are unbounded.
* `media_job`: two worker identities for the same reason, and three operations: pause, resume and
  one more, or a stop between two failures. The exit takes the whole budget (`QuitCost = 3`), so it is taken from every
  state of an undisturbed download but not after commands. One attempt each: a second is a loop back to the same state.
* `playlist`: two items on two slots are the fewest for two advances at once. One command
  or crash, besides a resume of the whole whenever it is paused, which costs nothing (otherwise a
  paused playlist would simply stay so and no liveness could be asked).
* `torrent`: one schedule, once-only or daily, over two days: it falls due, is missed once, and
  meets two operations.
* `parts`, `services`: in the .cfg or beside each instance. The scale follows the limit of the code that is to be
  reached: four kept songs in pages of three (500 in 100), two renewals and three waits as in the code,
  three catalogue numbers, three requests for the resolver and search (leader, follower, newcomer), two
  processes of the application and two captures of one address, a file of four chunks in two segments,
  rates of two and five bytes in a second of four instants, so that durations are exact and rounded.

Symmetry (interchangeable threads) is used only in runs without liveness. Deadlock is
checked for the dispatcher, whose tick always remains, and switched off where
the system may rest: a stopped or finished job with no command left, a part whose work is done, and
`dispatch_playlist` after the panic.

### Fairness

Weak fairness for the dispatcher task (the runtime polls it; the tick is a
timer), for every thread by itself (the operating system schedules it, a read from the
network ends by data, end or the idle timeout), for handlers in progress and for
the polling threads. Child processes come to an end, by themselves or because the watch kills them: a yt-dlp or
aria2c that never ends would hold its job in the code as well. The day of the scheduler passes. In `services` it is
`WF_vars(StepOf(i))` for each host, application, request, analysis and worker. Nothing is assumed of
the user, of crashes or of failures: they may or may not happen, within the bound.

## 5. Proofs

`DispatcherProof`, `HttpJobProof`, `HttpTransferProof`, `BandwidthProof`, `MediaJobProof`, `PlaylistProof`,
`TorrentJobProof` and `PartsProof` hold for all jobs, batches, slots, workers, items, file sizes, sequences of versions,
rates, schedules, searches, analyses, attempts and bounds, under the assumptions named in the modules. TLC checked `MediaInv`, `PlaylistInv` and
`TorrentInv` first, on larger instances than those of the runs (four operations and an exit that costs two; two operations;
two schedules and three operations: some twenty million states each).

**Dispatcher.** `TypeCorrect` first: it includes that a launch has a job of its
lane and that a thread without a job is not running. `Exclusive` is the inductive
core: `RegistryTruthful`, `OneWorkerPerJob` and `LaunchFindsJobIdle` need each
other, since a launch adds a thread for its job, which is safe only if the
registry was exact and the job not in it. Resumption, deletion and retry never touch the registry, which is why
no other step can disturb it. `PermitAccounting` relates a counter to the
cardinality of the threads that hold a permit: each step moves at most one
thread in or out of that set, and the lemmas on finite sets do the arithmetic.
`WindowIsWide` (`WindowHidesNothing`): the ordered query sees no more than `Window` rows, and those of jobs at work stay among
them. While the task claims it holds a permit, and each job at work has a thread that holds another one, so that they are
fewer than the greatest limit, which the window is no smaller than (`WorkFitsTheWindow`, from `PermitAccounting`). It remains
that among the idle candidates one is preceded by jobs at work only (`FirstIdle`): `Before` is a strict order
(`OrderIsStrict`), so that the sets of earlier candidates shrink, which the strict subsets of a finite set do not do for ever.

**HttpJob.** `HttpInv` joins the type, `Ownership` (registry, lease and lock
belong to the same worker), `OverIsQuiet` (no worker is past its
registration in a completed job) and `Removal` (what the cleanup threads and the
deletion saw is still true). `OneWriter` alone is not inductive: that a second worker
cannot take the lock follows from there being no second registered worker, which
follows from the claim looking at the registry. `UserWins` follows from the
guards of the commit and of the failure write, and from the invariant for the
lease. `CompletedFileExists` needs the invariant that a worker that commits has
renamed a whole file, and that nobody removes files meanwhile.

**Refinement.** `HttpJobProof` also proves `Spec => KeepsContract` from `HttpInv` and
one more invariant, `Counted` (a worker in finalization has counted as many chunks
as the file has, so that a rename whose length check succeeds delivers a whole
file). `WorkerEffect` sorts the steps of a worker by what they do to the row, the
destination and its own lease; by exclusivity that worker is the only possible
owner (`OwnerIs`), and each of the five cases is one action of the contract or a
stutter. That removals happen only unowned is `FilesRemovedOnlyWhenIdle`; that
they happen only to a job that is over is `CommandFits` and `ThreadsFit`; that a
resume never revives a tombstone is `CommandFits`.

**HttpTransfer.** `NeverMixed` assumes validators, `OnePrefix` also that no bandwidth
limit is set, as the runs do; versions, sizes, retries, ranges and the treatment of
If-Range are arbitrary. The invariant `Same` says what each part of the worker may
rely on: the counter is the length of the partial; until the reply has been looked
at, the row is the one that was read; at `persist` and `create` the partial is empty
or of the version of the reply, and the reply goes on where it ends; while a body
is received, row, response and `known` agree, and while it reconnects `known` is still the row.
`RowNamesVersion` alone is not inductive: the row is overwritten before the partial is
replaced (`persist`, then `create`), which is safe at a crash in between only
because a partial that is kept was compared with the row first. `InOrder` adds the
positions: where a response stands relative to the counter at each program point.
`CompletedWholeOrShrunk` (`CompletedIsWholeOrShrunk`) adds `CompletionInv`: a response is of a version that has been published
(`InTime`), a 416 says its version's length (`RefusalKnows`), the length that the end of the loop compares with is the
one of the row's version (`LengthIsOf`), and what is at the destination is the whole of a version or the beginning that a smaller
one gave the length of (`DestFits`). The exception is not a convenience of the proof: it is the 416 of a server that ignores
If-Range, and `Shrunk` says exactly when.

**Bandwidth.** `AlwaysPaced` (a byte is kept no earlier than its place at the limiter's rate) and
`LoopKeepsToTheLimit` (`CapHolds`), for all rates, grants, readers and commands. `Paced` speaks of kept
bytes and is not inductive: `Schedule` says the same of everything that was paid for, at the end of the
schedule, and of each waiting reader at the instant it waits for; a read keeps it because its duration is rounded up
(`DurationPays`) and starts where the schedule ends (`AfterThem`). `CapHolds` needs `Adopts`: at each point of the
loop, either the limiter has the rate in force and what it was paid for since fits the time up to the schedule's end and
one grant, or nothing was kept since the change and one read at most is under way. The
assumptions on the constants are `Bounds`, which `MCParts` assumes of its instances (`LimitAssumption`) and TLC evaluates.

**MediaJob.** `MediaInv`, for any number of worker identities, attempts, commands, crashes, failures and exits.
Without an exit, `OneWorker` follows as for the dispatcher: a worker is listed from launch to unlisting (`Listed`), and a claim is
taken with none about (`ClaimIsFree`). The exit empties the registry under the worker, so `Listed` ends there
(`Leaving`) and a second worker may be launched; what still holds, and what the destination depends on, is that one
worker at most has its download behind it (`OneLate`), since no child ends well after the kill. `MediaJobSafe` needs besides
that a child lives only under a worker that watches it (`ChildIsWatched`), that whoever is about to remove files works for a
row that is withdrawn (`CommandKnows`, `CleanersKnow`), that beside a completed row a worker is
only recording (`CompletedRests`), and for the exit that a job left alone has nothing under way that could fail it
(`KeptIsAlone`). `CompletionIsEarned` rests on `FileIsThere`: between its rename and its commit a worker's file stays at
the destination, which no one else renames away because of `OneLate`. The steps of a worker are sorted once by
what they do (`WorkerMoves`, `WorkerRespects`, `WorkerLeads`), and each part of the invariant uses these.

**Playlist.** `PlaylistInv`, for any number of items, slots, commands and crashes. Row and item are written by two statements, so
that `ColumnsAgree` in a calm state needs to say who owes what in every other one: `Told` says of each item that its
columns agree or that its worker, the resume thread, the command or the automatic retry owes it a statement (`WorkerOwes`,
`ResumerOwes`, `CommandOwes`, `RetryOwes`), and `ItemKnows`, `CmdKnows` and `ListKnows` say that
what each of these has read or written is still so. That is all promised until statements of two writers mix (`torn`), as
the property is. `BatchTellsTruth` (`BatchIsTruthful`) follows for each step that writes the status of the playlist: the
advance of a worker that has counted no waiting item, while `ListKnows` says that what it counted still holds.

**TorrentJob.** `TorrentInv`, for any finite set of schedules (`SchedulesAssumption`: they are rows of a table) and any number of
days, commands and failed statements. `JobInv` is about the job: aria2c has a worker that watches it (`Watched`), who removes files does so for a row that is over
with no worker listed (`CleanersKnow`), and after a good end the download is whole (`GoodIsWhole`).
`ScheduleInv` is about the scheduler and needs to say more than `ScheduleRunsOnce`: that the turn read no row twice
(`ReadOnce`: a list as long as the finite set it runs through names nothing twice), and that a schedule which has run and is still enabled is
the one in hand, between its action and the update of its row. That is promised until a crash (`crashed`); the
rest except where a thread has written over a decision (`overridden`). `EndedStaysEnded` has no exception but the one it
states (`EndedIsFinal`): both ways to accept an order, `ResumeRead` and `ScheduledResume`, look at the row, and
a launch uses up one order that was accepted; a restart, which forgets the orders, launches nothing for a row that has ended.

**The smaller parts.** `PartsProof` is about the instances in `MCParts` and `MCServices`, for any value of the constants that
these declare; TLC checked the inductive invariant of each of them but the last on the instances of the runs first.

* `SearchIsSafe` (`SearchSafe`), for any queries and any number of requests. `SearchInv` says that what runs uncancelled is held
  in the state and led by its request (`FlightsAreHeld`), and that who works on a cancelled flight is superseded
  (`CancelledIsSuperseded`), which joining a flight must not break. A step is sorted by the request that takes it
  (`SearchStepIsOwn`), and what a newcomer does to the requests it supersedes is `SupersedeMarks`.
* `SessionIsRenewable` (`SessionRenewable`), for any set of analyses and any number of logins. As long as no answer was lost, the stored session has the
  newest token of its grant, or exactly one analysis holds it and is still to write it, and then no renewal under way was started
  with it (`NewestIsHeld`); for that one needs that every token stored or held was given out (`TokensAreSent`).
* `FinishIsSafe` (`FinishSafe`), for any set of modes and number of stops. `OutputIsKept` is the heart: while
  the worker converts and tags, the file that yt-dlp delivered stays in the work directory until another one that was
  checked takes its place, so that a stop or a crash at any point leaves something to go on from;
  `ChosenIsRight` says of the chosen file which of the checks it has passed, and `DestIsOwn` that nothing but that reached the destination.
* `LadderIsSafe` (`LadderSafe`), for any hosts with any number of extraction profiles and any number of renewals. The bound on a list that grows
  while it is walked needs an account of what each insertion is paid with (`LadderIsPaid`): another format, the Safari profile and the
  last resort once each, a renewed attempt by its renewal, and an attempt repeated without its file by that file, which is gone by then.
  `FilesAreOwn` says that a file belongs to one attempt of the list; `LadderGrows` keeps both under an insertion anywhere in
  the part of the list that is still to come, so that inserting and appending are two uses of one lemma.
* `ToolsAreSafe` (`ToolsSafe`), for any set of versions, updates and crashes and any sequence of published catalogues.
  For the store the pointer and its backup are always whole, not only when they are read (`NamedAreWhole`), since what is being
  installed is in neither (`NewIsUnnamed`). `PreviousIsKnown` follows the version before through the renames, from the pointer
  into the backup and back, with a resolution repairing between any two of them; a resolution that found the pointer missing and
  renames late can hit a new one only in the one step where the backup is still there (`LateRepair`). `SessionIsHeld` says of
  the session's tool which of these it is.
  For the catalogue `WitnessIsLeft` says that after one interruption the cache or the record of the highest number still knows what
  was accepted, which needs that before the interruption every file not yet written has the number accepted last and every file
  already written the new one (`Undisturbed`).
* `PreparationIsSafe` (`PreparationSafe`), for any preparation windows, any finite set of requests and any number of profiles
  (`PreparationAssumption`: the player is none of the preparation windows). `WindowsOK` is about the windows: an operation that
  is cancelled has no process or is about to be drained, and a preparation window has had an operation
  (`WindowsHaveOperations`), so that opening another one really cancels it. `ResolverOK` is about the requests. The flight found
  under a key is led by a request for that key that is still at work, and nobody else works on that key (`FlightsAreLed`), which
  gives `OneExtraction`. A flight counts exactly those who still want it and is cancelled only when there is none
  (`ConsumersAreCounted`): so whoever waits cannot be cancelled by another's leaving, and the leader, who is one of them,
  stops for its own window only (`LeaderIsConsumer`, `CausesAreOwn`). Of the windows the requests need to know only that a cancellation
  is never taken back (`OperationsKept`); a step is one of the windows, of a request without a flight (`RequestAsks`), of a
  leader at work (`LeaderWorks`), or one that changes a flight (`FlightOpens`, `FlightChanges`, `FlightIsRemoved`).
* `LimitIsSafe` (`LimitSafe`) carries the theorems of `Bandwidth` over to the two instances that `parts` runs, a transfer loop and two
  segments, whose rates and bounds `MCParts` fixes: `LimitIsBandwidth` and `SegmentsIsBandwidth` show that they are instances of the
  module those theorems are about, so `PacedInv` and `LoopInv` are their invariants too. The statement for all rates is `AlwaysPaced`
  and `LoopKeepsToTheLimit`.

Conventions: a leaf that needs arithmetic and one that needs Boolean-valued
variables are separate steps, because no back end does both. Nested
multi-path `EXCEPT` on the same index is avoided in modules with proofs: the SMT
encoding of this prover version is not reliable on it; updates of one
record are written as a whole record. Where an updated field refers to its former value inside such a record, the
record is named instead of written `@`, which this version reads as the field's.

Of the runs' properties these are proved: all those of `dispatch_http`, `dispatch_playlist` and `transfer_resume`,
the safety of `http_job`, `media_job`, `playlist` and `torrent`, `LadderSafe`, `FinishSafe`, `ToolsSafe`, `PreparationSafe` and `LimitSafe` of `parts`, and `SearchSafe` and
`SessionRenewable` of `services`.
`CompletedHasFile` and `WorkerNeverOverridesUser` are proved and not
run: `KeepsContract` implies them on the instance.

Only model-checked: liveness (`QueuedIsServed`, `RunningIsServed`, `WorkEnds`, `PlaylistGoesOn`,
`OrdersAreServed`, `EverythingEnds`), which rests on fairness and ENABLED, out of the prover's reach;
and of `parts` and `services` the invariants `ChoicesSafe`, `ShownIsTrue` and
`OneTransfer` with the action properties `ShownIsKept` and `EnginesKeep`.

## 6. Not modelled

* **Pure functions**: parsing of yt-dlp's and aria2's output, of catalogues and manifests, path
  resolution and the managed-root check, text similarity, the encryption of the stored session.
* **I/O without state**: the update check, logging, playback, rendering, the CREATE statements; the
  geometry of windows and its debounce.
* **Test instrumentation**: `chaos.rs`; what it injects are actions of the models.
* **Progress engine**: merging and emission of deltas, speed and remaining time, FFmpeg's phases, the
  comparison of engine versions, eviction at the limits.
* **Extension bridge**: the messages that wait for the user (analyse, queue), the state file, the
  registry entries of the browsers, the second lock of the published host.
* **Exit**: `MediaJob` has it step by step; for HTTP jobs and torrents, whose workers look at the same flag
  (`downloads/worker.rs:201`, `torrents/mod.rs:613`), the models have the abrupt end. The handshake with the windows is not modelled.
* **Code without callers**: `spotdl_*`, `spotify_public_*`, `run_spotdl_worker_inner`,
  `finalize_media_file`, the rollback of a tool on request.

SQL statements are taken as atomic and durable (WAL, one connection per handler); `busy` errors
appear as failed claims and failed statements only. The session options of a media job, taken from a map at its
first launch (`dispatcher.rs:147`), are not in a model: a relaunch has none.

### Disagreements met while modelling

Each was met as a counterexample or while reading for a model. The two that have runs of their
own are in section 4; the properties of the other runs state the exceptions these make.

Downloads:

* `start` spawns the dispatcher loop before `setup` calls `install_global`; if the setup thread is held
  up for longer than the loop needs to claim, the launch panics and the task is gone
  (`dispatcher.rs:236`, `LaunchPanics`, reached in `dispatch_playlist`).
* A 416 whose total is exactly the partial's length completes the job with the beginning of the old
  version (`worker.rs:838`; the row then says "Completada y verificada", 727): the exception in `CompletedIsWholeOrShrunk`.
* A crash between rename and commit, a restart and an error in the new attempt report the whole,
  verified file as failed, because there is a new partial (`http.rs:684`; the comment at 441-444 promises otherwise).
* The deletion thread waits 30 s, and `deleting` is not a status the transfer loop stops for; after that, or
  after a crash, nobody removes the row, which the list hides (`storage.rs:530`; 513-514).
* An emergency stop checks for a completed row and updates it in two statements
  (`storage.rs:607-620`): a commit in between ends as cancelled.
* A pause that lands after the commit turns a completed row into a paused one, whose resume fails on
  the existing file. `finalization_state` is never read by a claim (`http.rs:658` suggests it is).

Media and playlists:

* `fail_media_job` and the resume thread write over tombstones and stops (`media/mod.rs:169`,
  `worker.rs:595`; `downloads/commands.rs:699-702` relies on the tombstone): `overridden`.
* Playlists are "sequential" (`media/mod.rs:258-260`, `playlist.rs:173`), but with two slots, pausing item 1
  promotes item 2, and resuming item 1 runs both.
* Cancelling the last waiting item leaves the batch running; two advances at once retry an item
  twice; a resume that gives up, and a crash after the commit, advance nothing; a pause of the whole can
  be set back to running by a worker that had read the batch; an advance does not see an item that
  was resumed on its own. Hence `torn` and the exceptions of `EndsUnlessStopped`.
* The work directory is removed before the guarded completion (`worker.rs:1726`, 1740), and a failed copy
  leaves half a file under the final name (1714-1721). A cover that cannot be fetched fails a Spotify job.
* A metadata file stays when the watch ends by `?` (`worker.rs:1253`); renewed metadata becomes the last
  attempt, not the next (1545).
* A stream declared as combined never gets an exact size (`progress.rs:70-72`, 105; `media/mod.rs:949`).

* The exit empties the registry before it requeues the rows (`app/bootstrap.rs:167-186`), while the dispatcher and the
  workers go on: the job may be claimed a second time, and a worker may start a process after the kill, although
  `scripts/validation/phase24_1_window_lifecycle.mjs` has the exit end external processes. That no job fails by it,
  which the same script says, holds (`ExitIsNotAFailure`).
* The transfer loop "adopts the new cap" (`downloads/worker.rs:998-1000`), but it reads the limit twice in a turn: changed in
  between and changed back, the old answer is remembered with the other limiter, until the limit changes
  again: `crossed`.

Torrents and the scheduler:

* The completion does not require `running` (`torrents/mod.rs:532`, 340). A launch that is refused because
  the old worker is still listed leaves the row queued until the next start: `refused`.
* "A completed or cancelled task cannot be resumed" (`downloads/commands.rs:516`), and neither the resume thread
  nor the scheduler writes such a row; but both then launch without another look (`torrents/mod.rs:646-653`,
  `lib.rs:5066-5092`), and the command starts the thread even if its own guarded write found the row ended meanwhile
  (519-551). Pause, resume, the old worker completes and leaves: the thread starts a worker and aria2c for a completed
  torrent, or for one cancelled since. The worker of a cancelled one kills it at its first look; that of
  a completed one lets it verify the files, and an error of aria2c leaves the row completed. `EndedStaysEnded` admits
  this launch, once for each order accepted before the end, and no other.
* A statement that fails in the watch (`torrents/mod.rs:469-474`, 577-584), like a failed `try_wait` (524), ends the worker by `?` with aria2c
  still running: the row becomes failed, the registry entry goes, and a later resume starts a second aria2c
  over the same files (`orphan = "unwatched"`). What is said of aria2c is said of the one its worker follows.
* A scheduled cancellation of a completed torrent deletes its files (`lib.rs:5176-5196`), which the storage
  code is careful not to take for partial ones (the test at 8102), and a scheduled resume un-marks a row that is being deleted (`lib.rs:5066`).
* A daily action is carried out once for every missed day, one turn after the other.

Around them:

* Tools: a broken activation can be seen for a moment (`overlay.rs:599` says not); resolutions repair without
  the lease (303-306); a version directory left behind blocks its version; a session keeps the
  path it resolved at start. The list of production keys is empty.
* Progress: playlists and jobs share one number space, so that a job with the number of a playlist
  shrinks it (`coordinator.rs:316`, 792); the instance keeps the numbers apart.
* Resolver: a request that joined a flight inherits the leader's cancellation (`resolver.rs:178-198`), although
  closing one window "must never cancel another window" (`app/state.rs:51-52`) and one consumer that leaves must
  keep the others (the test at `resolver.rs:1373`).
* Bridge: the host bundled in the application reports an error when it cannot start the application after it
  has written the request (`extension_bridge.rs:886-899`), so the browser resumes its copy, and a later start
  downloads the request as well (`extension/service-worker.js:416` guards against just that). The published
  host is the one the instance has.
* Windows: the page of a preparation window asks to be shown when it has loaded (`app-ui/subwindow.js:1071`,
  `subwindows.rs:675`); if another has been opened meanwhile, both are in front, and the first belongs to an operation that is closed.
* Spotify: an authorization refused without a description gets the page of a success (`spotify_auth.rs:404-414`).
  A renewal in flight undoes a logout (`spotify_auth.rs:482`; the test at 522), and two renewals
  may leave the older token. A page that straddles the limit loses songs, because unavailable items
  count (`lib.rs:2749`): `Straddled`.
* Advice: a 503 and "format not available" contain the words of `source_unavailable` and get its diagnosis
  first (`lib.rs:3490`); a stored message with two marks is diagnosed by the first alone (`recovery.rs:98-101`).
