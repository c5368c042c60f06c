----------------------------- MODULE HttpEngines -----------------------------
(***************************************************************************)
(* The HTTP engines that are kept beside the one of HttpTransfer and that   *)
(* no dispatcher calls: aria2c (downloads/aria2.rs), curl                   *)
(* (downloads/worker.rs) and the download in segments                       *)
(* (downloads/segmented.rs).  One job, with the files each engine leaves    *)
(* for the next launch; a file is the sequence of the versions of the       *)
(* remote object its bytes came from, 0 for a page of HTML.                 *)
(***************************************************************************)
EXTENDS Integers, Sequences

CONSTANTS
    Sizes,         \* the size of each version of the remote object
    Retries,       \* HTTP_SEGMENT_RETRIES, CURL_STARTUP_RETRIES
    Budgets        \* bounds: clicks, versions of the object, crashes

Segments == {1, 2}

VARIABLES
    engine,        \* the engine of the job
    pc,            \* where its worker is
    status,        \* jobs.status
    total,         \* download_jobs.total_bytes, 0 for unknown
    dest, temp,    \* the final file and the partial one
    ctl,           \* aria2's control file is there
    parts,         \* the file of each segment
    fetch,         \* the thread of each segment
    tries,         \* failed attempts: of a segment, of curl
    child,         \* the external process
    version,       \* the version the server has now, 0 while it answers with HTML
    clicks, versions, crashes  \* bounds

vars == <<engine, pc, status, total, dest, temp, ctl, parts, fetch, tries, child, version,
          clicks, versions, crashes>>
bounds == <<clicks, versions, crashes>>
aria2Vars == <<ctl, child>>
segmentVars == <<parts, fetch, tries>>

Nothing == [there |-> FALSE, data |-> << >>]
File(data) == [there |-> TRUE, data |-> data]
Length(f) == Len(f.data)
IsHtml(f) == f.there /\ f.data # << >> /\ f.data[1] = 0

Remote == IF version = 0 THEN 1 ELSE Sizes[version]
Stopped == status \in {"paused", "cancelled"}
Goes(step) == pc' = step

----------------------------------------------------------------------------
(* The job around the engine.                                              *)

Launch ==
    /\ pc = "idle" /\ status = "queued"
    /\ status' = "running" /\ Goes("start")
    /\ tries' = [s \in Segments |-> 0]
    /\ UNCHANGED <<engine, total, dest, temp, parts, fetch, aria2Vars, version, bounds>>

Click ==
    /\ clicks > 0 /\ clicks' = clicks - 1
    /\ \/ status \in {"queued", "running"} /\ status' \in {"paused", "cancelled"}
       \/ status \in {"paused", "failed"} /\ status' = "queued"
    /\ UNCHANGED <<engine, pc, total, dest, temp, segmentVars, aria2Vars, version, versions, crashes>>

ServerChanges ==
    /\ versions > 0 /\ versions' = versions - 1
    /\ version' \in (0..Len(Sizes)) \ {version}
    /\ UNCHANGED <<engine, pc, status, total, dest, temp, segmentVars, aria2Vars, clicks, crashes>>

\* finalize_http_job: a job that was stopped is not completed.
Finalizes(kept) ==
    IF dest.there /\ Length(dest) > 0 /\ ~IsHtml(dest) /\ ~Stopped
    THEN status' = "completed" /\ total' = Length(dest) /\ Goes("idle") /\ kept
    ELSE UNCHANGED <<status, total, parts, ctl>> /\ Goes("error")

\* Mutant: the file counts as whole whatever its size.
LooksWhole == ~temp.there /\ dest.there /\ Length(dest) > 0 /\ ~IsHtml(dest)

\* complete_verified_http_job: without a partial file beside it, of the size of the row.
IsVerified ==
    /\ ~temp.there /\ dest.there /\ Length(dest) > 0 /\ ~IsHtml(dest)
    /\ total \in {0, Length(dest)}

\* An error: the file may be whole and only the row late; of a size nobody knows, the
\* last sample decides.  Else fail_job, which does not touch a job that was stopped.
WorkerError ==
    /\ pc = "error" /\ Goes("idle")
    /\ \/ Stopped /\ UNCHANGED <<status, total>>
       \/ ~Stopped /\ IsVerified /\ status' = "completed" /\ total' = Length(dest)
       \/ /\ ~Stopped /\ (~IsVerified \/ total = 0)
          /\ status' = "failed" /\ UNCHANGED total
    /\ UNCHANGED <<engine, dest, temp, segmentVars, aria2Vars, version, bounds>>

\* The process stops between two steps; what was running is queued again at the next
\* start.  (An external process that outlives it is TorrentJob's and MediaJob's.)
Crash ==
    /\ crashes > 0 /\ crashes' = crashes - 1
    /\ pc # "idle" /\ child = "none" /\ Goes("idle")
    /\ status' = IF status = "running" THEN "queued" ELSE status
    /\ fetch' = [s \in Segments |-> "none"]
    /\ UNCHANGED <<engine, total, dest, temp, parts, tries, aria2Vars, version, clicks, versions>>

----------------------------------------------------------------------------
(* aria2c writes to the final name beside its control file.                *)

\* move_output_to_temp: the control file keeps the pair where it is.
Moved(d, t) ==
    IF ~d.there \/ ctl THEN <<d, t>>
    ELSE IF t.there /\ Length(d) <= Length(t) THEN <<Nothing, t>> ELSE <<Nothing, d>>

Back == dest' = Moved(dest, temp)[1] /\ temp' = Moved(dest, temp)[2]

Aria2Start ==
    /\ engine = "aria2" /\ pc = "start"
    /\ IF dest.there /\ temp.there
       THEN Goes("error") /\ UNCHANGED <<dest, temp, status, total>>
       ELSE /\ Goes("spawn")
            /\ dest' = IF temp.there THEN temp ELSE dest
            /\ temp' = Nothing
            /\ status' = "running"
            /\ total' \in {0, Remote}                     \* what inspect_http found
    /\ UNCHANGED <<engine, segmentVars, aria2Vars, version, bounds>>

Aria2Spawn ==
    /\ engine = "aria2" /\ pc = "spawn"
    /\ \/ child' = "run" /\ ctl' = TRUE /\ Goes("poll") /\ UNCHANGED <<dest, temp>>
       \/ Back /\ Goes("error") /\ UNCHANGED aria2Vars
    /\ UNCHANGED <<engine, status, total, segmentVars, version, bounds>>

\* The process: it appends, ends when it has it all or gives up; its control file goes
\* when it is done.
Aria2Runs ==
    /\ engine = "aria2" /\ child = "run"
    /\ \/ /\ Length(dest) < Remote
          /\ dest' = File(Append(dest.data, version)) /\ UNCHANGED aria2Vars
       \/ /\ dest.there /\ Length(dest) >= Remote
          /\ child' \in {"ok", "bad"} /\ ctl' = FALSE /\ UNCHANGED dest
       \/ child' = "bad" /\ ctl' \in BOOLEAN /\ UNCHANGED dest
    /\ UNCHANGED <<engine, pc, status, total, temp, segmentVars, version, bounds>>

\* The process is looked at before the row, and may end between the two.
Aria2Polls ==
    /\ engine = "aria2" /\ pc = "poll" /\ Stopped
    /\ child' = "none" /\ Back /\ Goes("idle")
    /\ UNCHANGED <<engine, status, total, ctl, segmentVars, version, bounds>>

Aria2Exits ==
    /\ engine = "aria2" /\ pc = "poll" /\ child \in {"ok", "bad"}
    /\ child' = "none"
    /\ LET whole == dest.there /\ total > 0 /\ Length(dest) = total /\ ~IsHtml(dest) IN
       IF child = "bad" /\ whole THEN Goes("recover") /\ UNCHANGED <<dest, temp>>
       ELSE IF child = "bad" \/ ~dest.there \/ IsHtml(dest) \/ total \notin {0, Length(dest)}
       THEN Back /\ Goes("error")
       ELSE Goes("final") /\ UNCHANGED <<dest, temp>>
    /\ UNCHANGED <<engine, status, total, ctl, segmentVars, version, bounds>>

\* The output is whole although aria2c failed: complete_verified_http_job, or an error.
Aria2Recovers ==
    /\ pc = "recover"
    /\ IF Stopped \/ temp.there
       THEN Goes("error") /\ UNCHANGED <<status, ctl>>
       ELSE status' = "completed" /\ ctl' = FALSE /\ Goes("idle")
    /\ UNCHANGED <<engine, total, dest, temp, segmentVars, child, version, bounds>>

Aria2Final ==
    /\ engine = "aria2" /\ pc = "final"
    /\ Finalizes(ctl' = FALSE /\ UNCHANGED parts)
    /\ UNCHANGED <<engine, dest, temp, fetch, tries, child, version, bounds>>

----------------------------------------------------------------------------
(* curl appends to the partial file.                                       *)

CurlStart ==
    /\ engine = "curl" /\ pc = "start"
    /\ status' = "running" /\ child' = "run" /\ Goes("poll")
    /\ UNCHANGED <<engine, total, dest, temp, ctl, segmentVars, version, bounds>>

CurlRuns ==
    /\ engine = "curl" /\ child = "run"
    /\ \/ Length(temp) < Remote /\ temp' = File(Append(temp.data, version)) /\ UNCHANGED child
       \/ Length(temp) >= Remote /\ child' = "ok" /\ UNCHANGED temp
       \/ child' = "bad" /\ UNCHANGED temp
    /\ UNCHANGED <<engine, pc, status, total, dest, ctl, segmentVars, version, bounds>>

\* The row is read first: a stop is followed also when curl has already ended.
CurlPolls ==
    /\ engine = "curl" /\ pc = "poll" /\ Stopped
    /\ child' = "none" /\ Goes("idle")
    /\ UNCHANGED <<engine, status, total, dest, temp, ctl, segmentVars, version, bounds>>

\* run_curl_download_worker_with_retries: a process that failed or stalled is started
\* again a few times.
CurlFails ==
    /\ engine = "curl" /\ pc = "poll" /\ child \in {"run", "bad"}
    /\ child' = "none"
    /\ tries' = [tries EXCEPT ![1] = @ + 1]
    /\ \/ tries[1] < Retries /\ Goes("start")
       \/ Goes("error")
    /\ UNCHANGED <<engine, status, total, dest, temp, ctl, parts, fetch, version, bounds>>

CurlExits ==
    /\ engine = "curl" /\ pc = "poll" /\ child = "ok"
    /\ child' = "none"
    /\ IF Length(temp) = 0 \/ IsHtml(temp) \/ total \notin {0, Length(temp)} \/ dest.there
       THEN Goes("error") /\ UNCHANGED <<dest, temp>>
       ELSE Goes("final") /\ dest' = temp /\ temp' = Nothing
    /\ UNCHANGED <<engine, status, total, ctl, segmentVars, version, bounds>>

CurlFinal ==
    /\ engine = "curl" /\ pc = "final"
    /\ Finalizes(parts' = [s \in Segments |-> Nothing] /\ UNCHANGED ctl)
    /\ UNCHANGED <<engine, dest, temp, fetch, tries, child, version, bounds>>

----------------------------------------------------------------------------
(* The download in segments.                                               *)

Chunk == (total + 1) \div 2
Expected(s) == IF s = 1 THEN Chunk ELSE total - Chunk
HasParts == \E s \in Segments : parts[s].there
Received == Length(parts[1]) + Length(parts[2])

\* The probe.  Without ranges, or beside the partial file of another engine, the job is
\* handed to the sequential download.
SegmentsStart ==
    /\ engine = "segmented" /\ pc = "start"
    /\ \/ /\ Length(temp) > 0 /\ ~HasParts
          /\ Goes("handed") /\ UNCHANGED <<status, total, parts, fetch>>
       \/ /\ Length(temp) = 0 \/ HasParts                       \* no ranges
          /\ Goes("handed") /\ parts' = [s \in Segments |-> Nothing]
          /\ UNCHANGED <<status, total, fetch>>
       \/ /\ Length(temp) = 0 \/ HasParts                       \* HTML, or no size
          /\ Goes("error") /\ UNCHANGED <<status, total, parts, fetch>>
       \/ /\ Length(temp) = 0 \/ HasParts
          /\ version # 0
          /\ total' = Remote /\ status' = "running" /\ Goes("fetch")
          /\ fetch' = [s \in Segments |-> "run"]
          /\ UNCHANGED parts
    /\ UNCHANGED <<engine, dest, temp, tries, aria2Vars, version, bounds>>

\* Mutant: whatever is on disk counts, a segment that is too long too.
KeptBlindly(s) == parts[s]

\* Mutant: what is not whole is fetched again from its start.
KeptWhenWhole(s) == IF Length(parts[s]) # Expected(s) THEN Nothing ELSE parts[s]

\* A segment longer than it may be is thrown away.
Kept(s) == IF Length(parts[s]) > Expected(s) THEN Nothing ELSE parts[s]

\* One step of one segment: it is whole, it sees a stop, its request fails or is answered
\* by something else, or it gets a piece.
Fetches(s) ==
    /\ fetch[s] = "run"
    /\ LET f == Kept(s) IN
       \/ /\ Length(f) = Expected(s) \/ Stopped
          /\ fetch' = [fetch EXCEPT ![s] = "ok"]
          /\ parts' = [parts EXCEPT ![s] = f] /\ UNCHANGED tries
       \/ /\ Length(f) < Expected(s)
          /\ fetch' = [fetch EXCEPT ![s] = IF tries[s] >= Retries THEN "err" ELSE @]
          /\ tries' = [tries EXCEPT ![s] = @ + 1]
          /\ parts' = [parts EXCEPT ![s] = f]
       \/ /\ Length(f) < Expected(s)
          /\ fetch' = [fetch EXCEPT ![s] = "err"]
          /\ parts' = [parts EXCEPT ![s] = f] /\ UNCHANGED tries
       \/ /\ Length(f) < Expected(s)
          /\ version # 0 /\ Remote >= (IF s = 1 THEN Chunk ELSE total)
          /\ parts' = [parts EXCEPT ![s] = File(Append(f.data, version))]
          /\ UNCHANGED <<fetch, tries>>
    /\ UNCHANGED <<engine, pc, status, total, dest, temp, aria2Vars, version, bounds>>

\* Every thread is joined; then the status, then the sizes.
SegmentsJoin ==
    /\ pc = "fetch" /\ \A s \in Segments : fetch[s] # "run"
    /\ fetch' = [s \in Segments |-> "none"]
    /\ IF \E s \in Segments : fetch[s] = "err" THEN Goes("error") /\ UNCHANGED temp
       ELSE IF Stopped THEN Goes("idle") /\ UNCHANGED temp
       ELSE IF Received # total THEN Goes("error") /\ UNCHANGED temp
       ELSE Goes("assemble") /\ temp' = File(<< >>)
    /\ UNCHANGED <<engine, status, total, dest, parts, tries, aria2Vars, version, bounds>>

Assembles ==
    /\ pc = "assemble"
    /\ LET s == IF Length(temp) < Chunk THEN 1 ELSE 2 IN
       /\ temp' = File(temp.data \o parts[s].data)
       /\ Goes(IF s = 2 THEN "rename" ELSE "assemble")
    /\ UNCHANGED <<engine, status, total, dest, segmentVars, aria2Vars, version, bounds>>

SegmentsRename ==
    /\ pc = "rename"
    /\ IF Length(temp) # total \/ dest.there
       THEN Goes("error") /\ UNCHANGED <<dest, temp>>
       ELSE Goes("final") /\ dest' = temp /\ temp' = Nothing
    /\ UNCHANGED <<engine, status, total, segmentVars, aria2Vars, version, bounds>>

SegmentsFinal ==
    /\ engine = "segmented" /\ pc = "final"
    /\ Finalizes(parts' = [s \in Segments |-> Nothing] /\ UNCHANGED ctl)
    /\ UNCHANGED <<engine, dest, temp, fetch, tries, child, version, bounds>>

----------------------------------------------------------------------------
Init ==
    /\ engine \in {"aria2", "curl", "segmented"}
    /\ pc = "idle" /\ status = "queued" /\ total \in {0, Sizes[1]}
    /\ dest = Nothing /\ temp \in {Nothing, File(<<1>>)}
    /\ ctl = FALSE /\ child = "none"
    /\ parts = [s \in Segments |-> Nothing]
    /\ fetch = [s \in Segments |-> "none"]
    /\ tries = [s \in Segments |-> 0]
    /\ version = 1
    /\ \E b \in Budgets : clicks = b[1] /\ versions = b[2] /\ crashes = b[3]

Engine ==
    \/ Aria2Start \/ Aria2Spawn \/ Aria2Runs \/ Aria2Polls \/ Aria2Exits \/ Aria2Recovers \/ Aria2Final
    \/ CurlStart \/ CurlRuns \/ CurlPolls \/ CurlFails \/ CurlExits \/ CurlFinal
    \/ SegmentsStart \/ SegmentsJoin \/ Assembles \/ SegmentsRename \/ SegmentsFinal
    \/ \E s \in Segments : Fetches(s)
    \/ WorkerError

Next == Launch \/ Click \/ ServerChanges \/ Crash \/ Engine

----------------------------------------------------------------------------
\* A job is reported complete only with a final file of the size that was announced,
\* and never with the page of an error, whichever way its engine ended.
EngineCompletesWhole ==
    status' = "completed" /\ status # "completed" =>
        /\ dest'.there /\ ~IsHtml(dest') /\ Length(dest') > 0
        /\ total > 0 => Length(dest') = total

Best(a, b) == IF a > b THEN a ELSE b
OnDisk == Best(Received, Best(Length(dest), Length(temp)))

\* No pause, failure, crash or change of file name loses bytes that were received, as
\* long as the server still has the same object and serves ranges of it.
NothingIsLost == pc' # "handed" /\ version = 1 => OnDisk' >= OnDisk

\* A launched engine comes to an end, whatever its process and its server do.
AtRest == pc \in {"idle", "handed"}
=============================================================================
