------------------------------- MODULE MCParts -------------------------------
(***************************************************************************)
(* Instances for TLC of the smaller parts, for what they must never do:    *)
(* the import of a Spotify list, the update of the tools (the store and    *)
(* the catalogue), the attempts of a media worker, the numbers it writes   *)
(* and the engine that shows them, the end of a media download, the advice *)
(* after a failure, the preparation windows with the media resolver, and   *)
(* the speed limit of a download, of its loop and of several segments.     *)
(* They are checked apart: a behaviour is one of a single part, and the    *)
(* variables x1 to x16 are the state of that part, 0 where it needs fewer. *)
(***************************************************************************)
EXTENDS Integers, FiniteSets, Sequences, TLC

CONSTANTS
    NoValue,        \* no snapshot, no adapter, no record
    ToolVersions, MaxUpdates, MaxSequence, MaxCrashes,  \* the tools: see ToolOverlay and ToolCatalog
    Modes, MaxStops,    \* the end of a media download: see MediaFinish
    Hosts, HostProfiles(_), MaxRefreshes, MaxBackoffs,  \* its attempts: see MediaAttempts
    \* the preparation windows and the resolver: see WindowOps and MediaResolver
    Windows, Player, Requests, Budgets, Urls, Embeds, Profiles, CacheLimit
VARIABLES part, x1, x2, x3, x4, x5, x6, x7, x8, x9, x10, x11, x12, x13, x14, x15, x16
vars == <<part, x1, x2, x3, x4, x5, x6, x7, x8, x9, x10, x11, x12, x13, x14, x15, x16>>

----------------------------------------------------------------------------
(* the parts and their bounds *)

Overlay == INSTANCE ToolOverlay WITH
    Versions <- ToolVersions,
    dirs <- x1, active <- x2, backup <- x3, temp <- x4, staging <- x5, upd <- x6, report <- x7,
    res <- x8, seen <- x9, session <- x10, running <- x11, replaced <- x12, raced <- x13,
    updates <- x14, crashes <- x15
Catalog == INSTANCE ToolCatalog WITH
    file <- x1, aside <- x2, published <- x3, pc <- x4, had <- x5, answer <- x6, highest <- x7,
    cached <- x8, result <- x9, accepted <- x10, rolledBack <- x11, crashes <- x12
ASSUME ToolsAssumption == ToolVersions \subseteq Nat \ {0} /\ MaxSequence \in Nat \ {0}

\* A generic host, YouTube and TikTok.
ProfilesOf(h) == CASE h = "generic" -> 1 [] h = "youtube" -> 5 [] h = "tiktok" -> 3
Attempts == INSTANCE MediaAttempts WITH
    Profiles <- HostProfiles,
    host <- x1, cookies <- x2, attempts <- x3, next <- x4, at <- x5, failure <- x6,
    refreshes <- x7, backoffs <- x8, legacy <- x9, formatTried <- x10, partial <- x11,
    files <- x12, announced <- x13
ASSUME LadderAssumption == MaxRefreshes \in Nat /\ \A h \in Hosts : HostProfiles(h) \in Nat

Finish == INSTANCE MediaFinish WITH
    job <- x1, running <- x2, failedOnce <- x3, work <- x4, reported <- x5, pc <- x6,
    chosen <- x7, dest <- x8, stray <- x9, stops <- x10

\* Video and audio apart, or one combined stream; a second attempt.
SizeOf(f) == IF f = "video" THEN 3 ELSE 2
Numbers == INSTANCE MediaProgress WITH
    Formats <- {"video", "audio", "combined"}, Size <- SizeOf,
    Wanted <- {{"video", "audio"}, {"combined"}}, MaxAttempts <- 2,
    kind <- x1, meta <- x2, wanted <- x3, attempt <- x4, got <- x5, ended <- x6, told <- x7,
    tracker <- x8, shown <- x9, read <- x10, row <- x11

\* Playlists of up to seven items, some of them unavailable, in pages of three, of which four
\* are kept; two results of a search.
Items == UNION {[1..n -> 0..1] : n \in 0..7}
Import == INSTANCE SpotifyImport WITH
    Limit <- 4, Page <- 3, Searches <- 2, Lengths <- {0, 20, 200},
    Playlists <- {[i \in DOMAIN p |-> p[i] * i] : p \in Items},
    Candidates <- [title : {40, 60, 100}, artist : {0, 40, 100}, apart : {-1, 5, 8, 12},
                   album : {0, 100}, fits : BOOLEAN],
    playlist <- x1, listing <- x2, track <- x3, search <- x4, state <- x5, selected <- x6,
    job <- x7

\* Messages with up to two marks are stored; yt-dlp fails with one mark, or with that of a
\* missing format, whose words are those of a missing source; a server with a status line.
Marks == {"metadata_refresh_failed", "private_content", "source_unavailable",
          "region_restricted", "authentication_required", "drm_protected",
          "unsupported_source", "format_unavailable", "rate_limited", "network_failure",
          "disk_full", "permission_denied", "file_locked", "integrity_failure",
          "html_instead_of_file", "server_failure", "cancelled"}
Advice == INSTANCE Recovery WITH
    Stored <- {{a, b} : a, b \in Marks} \cup {{}},
    Answers <- [media |-> {{a} : a \in Marks} \cup {{}, {"source_unavailable", "format_unavailable"}},
                torrent |-> {},
                http |-> {{}, {"source_unavailable"}, {"authentication_required"},
                          {"rate_limited"}, {"network_failure"}, {"server_failure"},
                          {"source_unavailable", "server_failure"}}],
    job <- x1, step <- x2, probes <- x3, diagnosis <- x4, advice <- x5

\* Two items of one playlist side by side; one of two streams under commands; one job of each
\* kind with persistence, a failed transaction and a crash; and launched again.
Alone(k) == 1 :> "idle" @@ 2 :> "idle" @@ 3 :> k
Pair == 1 :> "media" @@ 2 :> "media" @@ 3 :> "idle"
Left(launches, crashes, flushes, failures, commands) ==
    [launches |-> launches, crashes |-> crashes, flushes |-> flushes, failures |-> failures,
     commands |-> commands]
Shown == INSTANCE Progress WITH
    Units <- 12, Jobs <- 1..3, Batch <- 10, Size <- 2, None <- NoValue,
    Streams <- 1 :> {"audio"} @@ 2 :> {"audio"} @@ 3 :> {"video", "audio"},
    Scenarios <- {[kind |-> Pair, left |-> Left(0, 0, 0, 0, 0)],
                  [kind |-> Alone("media"), left |-> Left(1, 0, 0, 0, 2)]}
        \cup {[kind |-> Alone(k), left |-> Left(0, 1, 2, 1, 0)] :
                 k \in {"media", "sequential", "segmented", "direct", "torrent"}}
        \cup {[kind |-> Alone(k), left |-> Left(1, 1, 1, 0, 0)] : k \in {"sequential", "torrent"}},
    kind <- x1, adapter <- x2, items <- x3, pc <- x4, outcome <- x5, row <- x6, at <- x7,
    hand <- x8, cJobs <- x9, cLists <- x10, pendP <- x11, pendB <- x12, taken <- x13,
    disk <- x14, launched <- x15, left <- x16

\* A download whose limits change while its loop runs: no limit, one too high, a new one and
\* one that was stored; two segments on one limiter.
Limit == INSTANCE Bandwidth WITH
    Jobs <- {1, 2}, job <- 1, Playlist <- {1, 2}, Readers <- {1}, Sequential <- TRUE,
    Second <- 4, MinRate <- 2, MaxRate <- 5, MinGrant <- 1, MaxGrant <- 2, Share <- 2,
    Offered <- {0, 5, 6}, Stored <- {2}, MaxClock <- 3, MaxPaid <- 3, MaxOps <- 4,
    general <- x1, own <- x2, writing <- x3, ops <- x4, clock <- x5, limiter <- x6, asked <- x7,
    reader <- x8, kept <- x9, cap <- x10, crossed <- x11
Segments == INSTANCE Bandwidth WITH
    Jobs <- {1}, job <- 1, Playlist <- {1}, Readers <- {1, 2}, Sequential <- FALSE,
    Second <- 4, MinRate <- 2, MaxRate <- 5, MinGrant <- 1, MaxGrant <- 2, Share <- 2,
    Offered <- {}, Stored <- {2, 5}, MaxClock <- 4, MaxPaid <- 4, MaxOps <- 2,
    general <- x1, own <- x2, writing <- x3, ops <- x4, clock <- x5, limiter <- x6, asked <- x7,
    reader <- x8, kept <- x9, cap <- x10, crossed <- x11
ASSUME LimitAssumption == Limit!Bounds /\ Segments!Bounds

\* The preparation windows, the player and the requests of both.
Preparation == INSTANCE MediaResolver WITH
    Prep <- Windows,
    registry <- x1, ops <- x2, draining <- x3, win <- x4, active <- x5, mainEnabled <- x6,
    queue <- x7, commands <- x8, req <- x9, flights <- x10, inFlight <- x11, cache <- x12,
    requests <- x13, expirations <- x14

ASSUME PreparationAssumption ==
    Player \notin Windows /\ IsFiniteSet(Requests) /\ Profiles \in Nat

\* Four commands and clicks alone; two of them around two requests; three requests.
Around == {<<4, 0, 0>>, <<2, 2, 0>>, <<0, 3, 0>>}

----------------------------------------------------------------------------
(* the behaviours *)

Init ==
    \/ /\ part = "overlay" /\ Overlay!Init /\ x16 = 0
    \/ /\ part = "catalog" /\ Catalog!Init /\ x13 = 0 /\ x14 = 0 /\ x15 = 0 /\ x16 = 0
    \/ /\ part = "import" /\ Import!ImportInit
       /\ x8 = 0 /\ x9 = 0 /\ x10 = 0 /\ x11 = 0 /\ x12 = 0 /\ x13 = 0 /\ x14 = 0 /\ x15 = 0
       /\ x16 = 0
    \/ /\ part = "attempts" /\ Attempts!LadderInit /\ x14 = 0 /\ x15 = 0 /\ x16 = 0
    \/ /\ part = "numbers" /\ Numbers!ProgressInit
       /\ x12 = 0 /\ x13 = 0 /\ x14 = 0 /\ x15 = 0 /\ x16 = 0
    \/ /\ part = "shown" /\ Shown!Init
    \/ /\ part = "finish" /\ Finish!FinishInit
       /\ x11 = 0 /\ x12 = 0 /\ x13 = 0 /\ x14 = 0 /\ x15 = 0 /\ x16 = 0
    \/ /\ part = "advice" /\ Advice!RecoveryInit
       /\ x6 = 0 /\ x7 = 0 /\ x8 = 0 /\ x9 = 0 /\ x10 = 0 /\ x11 = 0 /\ x12 = 0 /\ x13 = 0
       /\ x14 = 0 /\ x15 = 0 /\ x16 = 0
    \/ /\ \/ part = "limit" /\ Limit!Init
          \/ part = "segments" /\ Segments!Init
       /\ x12 = 0 /\ x13 = 0 /\ x14 = 0 /\ x15 = 0 /\ x16 = 0
    \/ part = "preparation" /\ Preparation!Init /\ x15 = 0 /\ x16 = 0

Next ==
    /\ UNCHANGED part
    /\ \/ part = "overlay" /\ Overlay!Next /\ UNCHANGED x16
       \/ part = "catalog" /\ Catalog!Next /\ UNCHANGED <<x13, x14, x15, x16>>
       \/ /\ part = "import" /\ Import!ImportNext
          /\ UNCHANGED <<x8, x9, x10, x11, x12, x13, x14, x15, x16>>
       \/ part = "attempts" /\ Attempts!LadderNext /\ UNCHANGED <<x14, x15, x16>>
       \/ part = "numbers" /\ Numbers!ProgressNext /\ UNCHANGED <<x12, x13, x14, x15, x16>>
       \/ part = "shown" /\ Shown!Next
       \/ part = "finish" /\ Finish!FinishNext /\ UNCHANGED <<x11, x12, x13, x14, x15, x16>>
       \/ part = "limit" /\ Limit!Next /\ UNCHANGED <<x12, x13, x14, x15, x16>>
       \/ part = "segments" /\ Segments!Next /\ UNCHANGED <<x12, x13, x14, x15, x16>>
       \/ part = "preparation" /\ Preparation!Next /\ UNCHANGED <<x15, x16>>
       \/ /\ part = "advice" /\ Advice!RecoveryNext
          /\ UNCHANGED <<x6, x7, x8, x9, x10, x11, x12, x13, x14, x15, x16>>

Spec == Init /\ [][Next]_vars

----------------------------------------------------------------------------
(* what is checked of them *)

\* The store of the tools and its catalogue: see ToolOverlay and ToolCatalog.
ToolsSafe ==
    /\ part = "overlay" => /\ Overlay!TypeOK /\ Overlay!PointerIsWhole
                           /\ Overlay!SessionToolKept /\ Overlay!ReportedIsActive
    /\ part = "catalog" => Catalog!TypeOK /\ Catalog!NoRollback /\ Catalog!NewestAccepted

\* The attempts of a media worker: see MediaAttempts.
LadderSafe == part = "attempts" => Attempts!LadderSafe

\* The notice of another attempt is followed by it: see MediaAttempts.
AnnouncedRetryHappens == part = "attempts" => Attempts!AnnouncedRetryHappens

\* What is shown of a download is so: the sizes a media worker calls exact, and what the
\* progress engine keeps and shows of jobs and playlists: see MediaProgress and Progress.
ShownIsTrue ==
    /\ part = "numbers" => Numbers!ExactIsTrue
    /\ part = "shown" => /\ Shown!TypeOK /\ Shown!JobIsCurrent /\ Shown!EndIsShown
                         /\ Shown!CompletionIsTrue

\* What has been shown is not taken back: see MediaProgress and Progress.
ShownIsKept == [][/\ part = "numbers" => Numbers!PlannedNeverFalls /\ Numbers!StoppedKeepsNumbers
                  /\ part = "shown" => /\ Shown!StartsQuiet /\ Shown!PlaylistNeverShrinks
                                       /\ Shown!EndStaysShown]_vars

\* The end of a media download: see MediaFinish.
FinishSafe == part = "finish" => Finish!FinishSafe

\* Windows, operations and extractions: see WindowOps and MediaResolver.
PreparationSafe ==
    part = "preparation" =>
        /\ Preparation!WinTypeOK /\ Preparation!MainNeverStuck /\ Preparation!CancelledOwnsNothing
        /\ Preparation!OneExtraction /\ Preparation!CancelNeedsACause

\* What is chosen follows from what was seen: the songs of a Spotify list and their sources,
\* and the advice after a failure: see SpotifyImport and Recovery.
ChoicesSafe ==
    /\ part = "import" => Import!ImportSafe
    /\ part = "advice" => Advice!AdviceIsSeen

\* A speed limit is kept, by the transfer loop and by several segments: see Bandwidth.
LimitSafe ==
    /\ part = "limit" => Limit!TypeOK /\ Limit!Paced /\ Limit!CapHolds
    /\ part = "segments" => Segments!TypeOK /\ Segments!Paced /\ Segments!CapHolds
=============================================================================
