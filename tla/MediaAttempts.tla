---------------------------- MODULE MediaAttempts ----------------------------
(* The ladder of attempts of one media worker: the list of yt-dlp invocations it starts from,
   what each way of failing adds to it, and how it ends (the loop of run_media_worker_inner in
   media/download/worker.rs).  MediaJob leaves this open; here the job's row matters only in
   that it may be stopped.  An attempt is its kind and the metadata file it loads, 0 for none;
   these files hold signed stream addresses and belong to one attempt.  Selectors, arguments
   and texts are left out. *)
EXTENDS Naturals, FiniteSets, Sequences, SequencesExt

CONSTANTS
    Hosts,          \* "generic", "youtube", "tiktok"
    Profiles(_),    \* how many extraction profiles a host has: 1, 5 or 6, 3
    MaxRefreshes,   \* renewals of a signed address (2)
    MaxBackoffs     \* waits after "too many requests" (3)

VARIABLES
    host, cookies,  \* where the link leads, and whether the browser's cookies are used
    attempts,       \* the list, which grows while it is walked
    next,           \* the attempt to start next (attempt_index + 1)
    at,             \* choosing, running, failed, renewing, waiting, or how it ended
    failure,        \* the class of the last failure
    refreshes, backoffs, legacy, formatTried,
    partial,        \* yt-dlp left a partial file in the work directory
    files,          \* the metadata files there, and the number of those written so far
    announced       \* the row's detail announces another attempt that has not started
ladderVars == <<host, cookies, attempts, next, at, failure, refreshes, backoffs, legacy,
                formatTried, partial, files, announced>>
counters == <<refreshes, backoffs, legacy, formatTried>>

Attempt(kind, file) == [kind |-> kind, file |-> file]
Current == attempts[next - 1]
\* The profiles of the host in their order; first of all the metadata of an earlier analysis,
\* if it is still good for the job; last of all the embedded page of TikTok.
Ladder(h, reused) ==
    (IF reused THEN <<Attempt("reuse", 1)>> ELSE << >>)
    \o [i \in 1..Profiles(h) |-> Attempt("profile", 0)]
    \o (IF h = "tiktok" THEN <<Attempt("embed", 0)>> ELSE << >>)
\* The metadata of an earlier analysis or preview serves the job when the same session obtained
\* it, its addresses live for a while, it describes one item and has the streams asked for.
Artifacts == [session : {"anonymous", "cookies"}, expired : BOOLEAN, entries : BOOLEAN, streams : BOOLEAN]
Compatible(artifact, session) ==
    /\ artifact.session = session
    /\ ~artifact.expired /\ ~artifact.entries /\ artifact.streams
\* The newest compatible one is written to a file for the first attempt, or cannot be.
Reuses(found, session) == IF \E a \in found : Compatible(a, session) THEN BOOLEAN ELSE {FALSE}
LadderInit ==
    /\ host \in Hosts /\ cookies \in BOOLEAN
    /\ \E artifact \in Artifacts, reused \in BOOLEAN :
        /\ reused \in Reuses({artifact}, IF cookies THEN "cookies" ELSE "anonymous")
        /\ attempts = Ladder(host, reused)
        /\ files = [there |-> IF reused THEN {1} ELSE {}, count |-> IF reused THEN 1 ELSE 0]
    /\ next = 1 /\ at = "choosing" /\ failure = "none"
    /\ refreshes = 0 /\ backoffs = 0 /\ legacy = FALSE /\ formatTried = FALSE
    /\ partial \in BOOLEAN /\ announced = "none"

Without(file) == [files EXCEPT !.there = @ \ {file}]
\* The next attempt's process is started, or cannot be: then the one after it is tried; or it
\* cannot be registered, and the worker gives up at once.
Starts ==
    /\ at = "choosing" /\ next <= Len(attempts)
    /\ next' = next + 1 /\ announced' = "none"
    /\ \/ at' = "running" /\ UNCHANGED <<failure, files>>
       \/ /\ at' \in {"choosing", "aborted"} /\ failure' = "other"
          /\ files' = Without(attempts[next].file)
    /\ UNCHANGED <<host, cookies, attempts, counters, partial>>
GivesUp ==
    /\ at = "choosing" /\ next > Len(attempts)
    /\ at' = "failed"
    /\ UNCHANGED <<host, cookies, attempts, next, failure, counters, partial, files, announced>>
\* The process is killed when the watch sees the row paused or cancelled, or has ended when the
\* row is found so; a row that can no longer be read leaves everything as it is.
StoppedLeavesFile ==
    /\ at = "running"
    /\ at' = "stopped"
    /\ UNCHANGED <<host, cookies, attempts, next, failure, counters, partial, files, announced>>
Stopped ==
    /\ at = "running"
    /\ at' = "stopped" /\ files' = Without(Current.file)
    /\ UNCHANGED <<host, cookies, attempts, next, failure, counters, partial, announced>>
Unwatched ==
    /\ at = "running"
    /\ at' = "unwatched"
    /\ UNCHANGED <<host, cookies, attempts, next, failure, counters, partial, files, announced>>
\* It ends by itself: with a file, with success and none, or with a failure of some class; of
\* a metadata file that is missing only an attempt that was given one can complain.
Classes == {"cookies", "metadata", "forbidden", "crowded", "captcha", "other"}
Exits ==
    /\ at = "running"
    /\ files' = Without(Current.file)
    /\ partial' \in {partial, TRUE}
    /\ \/ at' = "succeeded" /\ UNCHANGED failure
       \/ at' = "choosing" /\ failure' = "other"
       \/ at' = "failed_once" /\ failure' \in Classes
    /\ UNCHANGED <<host, cookies, attempts, next, counters, announced>>

\* What a failure leads to: the first of these that applies, in this order.
LocksCookies == failure = "cookies" /\ cookies
LacksMetadata == failure = "metadata" /\ Current.file # 0
OtherFormat == host = "tiktok" /\ ~formatTried
Safari == failure = "forbidden" /\ host = "youtube"
          /\ ~ \E i \in DOMAIN attempts : attempts[i].kind = "safari"
Inserted(a) == InsertAt(attempts, next, a)
\* The session's cookies are dropped; the attempt itself is not put back on the list.
DropsCookies ==
    /\ at = "failed_once" /\ LocksCookies
    /\ cookies' = FALSE /\ at' = "choosing" /\ announced' = "anonymous"
    /\ UNCHANGED <<host, attempts, next, failure, counters, partial, files>>
\* The same attempt again, without the file; another format of the same resolution; the Safari
\* profile, which no list begins with.
Inserts ==
    /\ at = "failed_once" /\ ~LocksCookies
    /\ \/ LacksMetadata /\ attempts' = Inserted(Attempt(Current.kind, 0)) /\ UNCHANGED formatTried
       \/ /\ ~LacksMetadata /\ OtherFormat /\ formatTried' = TRUE
          /\ attempts' = Inserted(Attempt("format", 0))
       \/ ~LacksMetadata /\ Safari /\ attempts' = Inserted(Attempt("safari", 0)) /\ UNCHANGED formatTried
    /\ at' = "choosing" /\ announced' = "again"
    /\ UNCHANGED <<host, cookies, next, failure, refreshes, backoffs, legacy, partial, files>>
\* No format to exchange: the selector of the attempt is not one of the numbered ones.
NoInsertion == ~LocksCookies /\ ~LacksMetadata /\ ~Safari
NeedsPerson ==
    /\ at = "failed_once" /\ NoInsertion /\ failure = "captcha"
    /\ at' = "intervention"
    /\ UNCHANGED <<host, cookies, attempts, next, failure, counters, partial, files, announced>>
\* After "too many requests" the worker waits 2, 4 and then 8 seconds, watching the row, and
\* goes on with the next attempt of the list, if there is one.
Waits ==
    /\ at = "failed_once" /\ NoInsertion /\ failure = "crowded" /\ backoffs < MaxBackoffs
    /\ backoffs' = backoffs + 1 /\ at' = "waiting" /\ announced' = "later"
    /\ UNCHANGED <<host, cookies, attempts, next, failure, refreshes, legacy, formatTried, partial, files>>
Waited ==
    /\ at = "waiting"
    /\ at' \in {"choosing", "stopped"}
    /\ UNCHANGED <<host, cookies, attempts, next, failure, counters, partial, files, announced>>
\* A refused address is renewed for the partial file there is: the renewed metadata becomes the
\* last attempt of the list.  A stop ends the renewal as a failure.
MayRenewAlways == failure = "forbidden" /\ partial
MayRenew == failure = "forbidden" /\ refreshes < MaxRefreshes /\ partial
Renews ==
    /\ at = "failed_once" /\ NoInsertion /\ MayRenew
    /\ refreshes' = IF refreshes < MaxRefreshes THEN refreshes + 1 ELSE refreshes
    /\ at' = "renewing"
    /\ UNCHANGED <<host, cookies, attempts, next, failure, backoffs, legacy, formatTried, partial, files, announced>>
Renewed ==
    /\ at = "renewing"
    /\ files' = [there |-> files.there \cup {files.count + 1}, count |-> files.count + 1]
    /\ attempts' = Append(attempts, Attempt("renewed", files.count + 1))
    /\ at' = "choosing" /\ announced' = "again"
    /\ UNCHANGED <<host, cookies, next, failure, counters, partial>>
\* Nothing else is left to try, there is a partial file and it was not yet done: once more from
\* the page itself.
LastResort ==
    IF ~legacy /\ next > Len(attempts) /\ partial
    THEN legacy' = TRUE /\ attempts' = Append(attempts, Attempt("page", 0)) /\ announced' = "again"
    ELSE UNCHANGED <<legacy, attempts, announced>>
NotRenewed ==
    /\ at = "renewing"
    /\ at' = "choosing" /\ failure' = "other"
    /\ LastResort
    /\ UNCHANGED <<host, cookies, next, refreshes, backoffs, formatTried, partial, files>>
GoesOn ==
    /\ at = "failed_once" /\ NoInsertion /\ failure # "captcha" /\ ~MayRenew
    /\ failure = "crowded" => backoffs = MaxBackoffs
    /\ at' = "choosing"
    /\ LastResort
    /\ UNCHANGED <<host, cookies, next, failure, refreshes, backoffs, formatTried, partial, files>>

LadderSteps ==
    \/ Starts \/ GivesUp \/ Exits \/ DropsCookies \/ Inserts \/ NeedsPerson
    \/ Waits \/ Waited \/ Renews \/ Renewed \/ NotRenewed \/ GoesOn
LadderNext == LadderSteps \/ Stopped \/ Unwatched
------------------------------------------------------------------------------
\* Signed addresses are kept for the one attempt they are for (worker.rs:1409 "must not remain
\* in the work directory after the child exits"): every metadata file belongs to an attempt that
\* is running or still to come, on each of the ways an attempt can end except a row that can no
\* longer be read; and no attempt is without the file it was given until it starts.
SignedFilesAreSpent ==
    /\ at # "unwatched" => \A f \in files.there :
        \E i \in DOMAIN attempts : attempts[i].file = f /\ (i >= next \/ (i = next - 1 /\ at = "running"))
    /\ \A i \in next..Len(attempts) : attempts[i].file # 0 => attempts[i].file \in files.there
\* The list grows while it is walked and still comes to an end, whatever yt-dlp answers: beside
\* the ladder it starts from it never holds more than one other format, one Safari attempt and
\* one last resort, the renewals, and an attempt without its file for every file there was.
LadderIsBounded ==
    /\ Len(attempts) <= Len(Ladder(host, TRUE)) + 3 + 2 * MaxRefreshes + 1
    /\ files.count <= MaxRefreshes + 1
LadderSafe == SignedFilesAreSpent /\ LadderIsBounded

\* What it rests on (proved in PartsProof).  The types; the list is walked in order:
Tries == [kind : {"reuse", "profile", "embed", "safari", "format", "renewed", "page"}, file : Nat]
LadderTypeOK ==
    /\ host \in Hosts /\ attempts \in Seq(Tries) /\ next \in 1..Len(attempts) + 1
    /\ at \in {"choosing", "running", "failed_once", "renewing", "waiting", "failed", "succeeded",
               "stopped", "unwatched", "aborted", "intervention"}
    /\ at \in {"running", "failed_once"} => next # 1
    /\ refreshes \in 0..MaxRefreshes /\ legacy \in BOOLEAN /\ formatTried \in BOOLEAN
    /\ files \in [there : SUBSET Nat, count : Nat] /\ files.there \subseteq 1..files.count
\* Every metadata file was written for one attempt, which has it while it runs.
FilesAreOwn ==
    /\ \A i \in DOMAIN attempts : attempts[i].file <= files.count
    /\ \A i, j \in DOMAIN attempts : attempts[i].file = attempts[j].file /\ i # j => attempts[i].file = 0
    /\ at = "running" /\ Current.file # 0 => Current.file \in files.there
\* What the list has beside the profiles: an attempt for each file, one again without it for
\* each file spent, unless the last failure is still to be dealt with, and at most three more.
Once(b) == IF b THEN 1 ELSE 0
Least == Len(Ladder(host, FALSE))
Extras == Once(formatTried) + Once(legacy) + Once(\E i \in DOMAIN attempts : attempts[i].kind = "safari")
Failing == Once(at = "failed_once" /\ Current.file # 0)
Renewing == Once(at = "renewing")
LadderIsPaid ==
    /\ Len(attempts) <= Least + Extras + 2 * files.count - Cardinality(files.there) - Failing
    /\ files.count + Renewing <= refreshes + 1
LadderInv == LadderTypeOK /\ SignedFilesAreSpent /\ FilesAreOwn /\ LadderIsPaid
\* The job is not failed while its row announces another attempt: worker.rs:1436 says of locked
\* cookies "must not abort a public download ... retry anonymously", and media/mod.rs:744 shows
\* "reintentando en {} s…".  With no attempt left on the list neither happens.
AnnouncedRetryHappens == at = "failed" => announced = "none"
==============================================================================
