----------------------------- MODULE MediaFinish -----------------------------
(* From yt-dlp's success to the completed row: which file of the work directory is taken for the
   result, Spotify's tags, the MP4 container, the checks, and the move to the destination (the
   second half of run_media_worker_inner, media/download/validation.rs).  A job may be stopped or
   the program end at any point and be run again over what the work directory then holds.
   MediaJob has the threads and rows around this; here a file is what the steps tell apart. *)
EXTENDS Naturals

CONSTANTS
    Modes,    \* output modes: "video_mp4", "audio", "source"
    MaxStops  \* bound: stops and crashes per behaviour

VARIABLES
    job,       \* the mode, the tags to write, a known length, [id] in names, what yt-dlp gets
    running,   \* the row says 'running'
    failedOnce,\* media_jobs.error is set
    work,      \* the work directory: name |-> file, or NoFile
    reported,  \* yt-dlp's last report of the path can be resolved
    pc,
    chosen,    \* the name of the file that goes on to the next step
    dest,      \* what lies under the final name
    stray,     \* history: a copy failed half way, or a crash came after the move
    stops
finishVars == <<job, running, failedOnce, work, reported, pc, chosen, dest, stray, stops>>

NoFile == [container |-> "none"]
Names == {"output", "tagged", "cover", "converting", "normalized"}
\* A file yt-dlp or FFmpeg writes; length "bogus" is a container that claims far more than the
\* source has, and damage "hidden" lies where no sample is decoded.
Files == [container : {"mp4", "other"}, streams : {"audio", "video", "both"},
          length : {"full", "short", "bogus"}, damage : {"none", "found", "hidden"}, tagged : BOOLEAN]
Half(file) == [file EXCEPT !.length = "short", !.damage = "found"]
Mp4(file) == [file EXCEPT !.container = "mp4"]
With(name, file) == [work EXCEPT ![name] = file]
There(name) == work[name] # NoFile
Step(at) == pc' = at /\ UNCHANGED <<job, failedOnce, reported, dest, stray, stops>>

FinishInit ==
    /\ job \in [mode : Modes, tags : BOOLEAN, known : BOOLEAN, named : BOOLEAN,
                source : {f \in Files : ~f.tagged /\ (f.length = "full" => f.damage # "hidden")}]
    /\ job.tags => job.mode = "audio" /\ job.source.streams # "video"
    /\ job.source.length = "bogus" => job.known
    /\ running = TRUE /\ failedOnce = FALSE
    /\ work = [n \in Names |-> NoFile]
    /\ reported = FALSE /\ pc = "start" /\ chosen = "output" /\ dest = NoFile
    /\ stray = FALSE /\ stops = 0

(* The worker starts: what a failed run left is not trusted, what a stopped one left stays; then
   yt-dlp finds its own output again or downloads it.                                         *)
Starts ==
    /\ pc = "start"
    /\ work' = [n \in Names |->
                  IF n = "output" THEN IF There(n) /\ ~failedOnce THEN work[n] ELSE job.source
                  ELSE IF failedOnce THEN NoFile ELSE work[n]]
    /\ failedOnce' = FALSE
    /\ reported' \in BOOLEAN /\ pc' = "choose"
    /\ dest' = NoFile   \* a name that is taken is not used again
    /\ UNCHANGED <<job, running, chosen, stray, stops>>

\* resolve_reported_media_path, or else newest_completed_media: every file that is not marked
\* temporary is a candidate, the cover included, and the best score wins; times break ties.
Fits(name) == CASE name = "cover" -> FALSE
                [] job.mode = "video_mp4" -> work[name].container = "mp4"
                [] OTHER -> TRUE
Score(name) == (IF job.named /\ name \in {"output", "converting", "normalized"} THEN 8 ELSE 0)
               + (IF Fits(name) THEN 2 ELSE 0)
Newest == {n \in Names : There(n) /\ \A m \in Names : There(m) => Score(n) >= Score(m)}
Chooses ==
    /\ pc = "choose"
    /\ chosen' \in (IF reported THEN {"output"} ELSE Newest)
    /\ Step(IF ~running THEN "error" ELSE IF job.tags THEN "tag" ELSE "compat")
    /\ UNCHANGED <<running, work>>

\* apply_spotify_tags: the cover is fetched, or the job fails; FFmpeg writes a tagged copy with
\* the first audio stream; the copy replaces the file.
FetchesCover ==
    /\ pc = "tag"
    /\ \/ /\ work' \in {work, With("cover", [job.source EXCEPT !.streams = "video", !.damage = "found"])}
          /\ Step(IF running THEN "tagging" ELSE "error")
       \/ UNCHANGED work /\ Step("error")
    /\ UNCHANGED <<running, chosen>>
\* FFmpeg does not read and write the same file.
Tags ==
    /\ pc = "tagging"
    /\ \/ /\ chosen # "tagged" /\ work[chosen].streams # "video"
          /\ work' = With("tagged", [work[chosen] EXCEPT !.tagged = TRUE, !.streams = "audio"])
          /\ Step(IF running THEN "swap" ELSE "error")
       \/ /\ work' \in {work} \cup (IF chosen = "tagged" THEN {} ELSE {With("tagged", Half(work[chosen]))})
          /\ Step("error")
    /\ UNCHANGED <<running, chosen>>
Swaps ==
    /\ pc = "swap"
    /\ \/ /\ work' = [work EXCEPT ![chosen] = work["tagged"], !["tagged"] = NoFile, !["cover"] = NoFile]
          /\ Step("compat")
       \/ work' \in {work, With(chosen, NoFile)} /\ Step("error")
    /\ UNCHANGED <<running, chosen>>

\* ensure_windows_compatible_mp4: an MP4 stays as it is unless its length is bogus; another
\* container is copied into an MP4, or transcoded if that fails.
NeedsCut(file) == file.container = "mp4" /\ file.length = "bogus" /\ job.known
Compat ==
    /\ pc = "compat"
    /\ \/ Step(CASE ~running -> "error"
                 [] job.mode = "video_mp4" /\ NeedsCut(work[chosen]) -> "normalizing"
                 [] job.mode = "video_mp4" /\ work[chosen].container # "mp4" -> "remuxing"
                 [] OTHER -> "probe")
       \/ running /\ work[chosen].container = "mp4" /\ work[chosen].damage = "found" /\ Step("probe")
    /\ UNCHANGED <<running, chosen, work>>
Cut(file) == [file EXCEPT !.length = "full"]
\* Mutant: the source is removed before FFmpeg has written the other file.
NormalizesInPlace ==
    /\ pc = "normalizing"
    /\ work' \in {[work EXCEPT ![chosen] = NoFile, !["normalized"] = Cut(work[chosen])], With(chosen, NoFile)}
    /\ chosen' = "normalized"
    /\ Step(IF running /\ work'["normalized"] # NoFile THEN "probe" ELSE "error")
    /\ UNCHANGED running
Normalizes ==
    /\ pc = "normalizing"
    /\ \/ /\ running
          /\ work' = [work EXCEPT ![chosen] = NoFile, !["normalized"] = Cut(work[chosen])]
          /\ chosen' = "normalized" /\ Step("probe")
       \/ /\ work' \in {With("normalized", Cut(work[chosen])), With("normalized", NoFile)}
          /\ UNCHANGED chosen /\ Step("error")
    /\ UNCHANGED running
\* Both want a video stream.
Converts(kind, otherwise) ==
    /\ pc = kind
    /\ \/ /\ work[chosen].streams # "audio"
          /\ work' = With("converting", Mp4(work[chosen]))
          /\ chosen' = "converting" /\ Step("probe")
       \/ otherwise /\ UNCHANGED chosen
    /\ UNCHANGED running
Remuxes == Converts("remuxing", /\ work' = With("converting", NoFile)
                                /\ \/ running /\ Step("transcoding")
                                   \/ Step("error"))
Transcodes == Converts("transcoding", /\ work' \in {With("converting", NoFile), With("converting", Half(Mp4(work[chosen])))}
                                      /\ Step("error"))

\* validate_downloaded_media: readable, the streams of the mode, long enough, no damage in its
\* structure or in the samples that are decoded.
HasStreams(file) == CASE job.mode = "audio" -> file.streams # "video"
                      [] job.mode = "video_mp4" -> file.streams = "both"
                      [] OTHER -> TRUE
LongEnough(file) == file.length = "short" => ~job.known
Sound(file) == file.damage # "found"
Passes(name) == running /\ HasStreams(work[name]) /\ LongEnough(work[name])
\* Mutant: the file that was downloaded is checked, not the one that is delivered.
DecodesSource ==
    /\ pc = "samples"
    /\ Step(IF running /\ Sound(IF There("output") THEN work["output"] ELSE work[chosen]) THEN "place" ELSE "error")
    /\ UNCHANGED <<running, chosen, work>>
Probes ==
    /\ pc = "probe"
    /\ \/ Passes(chosen) /\ Step("samples")
       \/ Step("error")
    /\ UNCHANGED <<running, chosen, work>>
Decodes ==
    /\ pc = "samples"
    /\ \/ running /\ Sound(work[chosen]) /\ Step("place")
       \/ Step("error")
    /\ UNCHANGED <<running, chosen, work>>

\* The move: a rename, or a copy, which may leave half a file behind.
Places ==
    /\ pc = "place"
    /\ \/ ~running /\ pc' = "error" /\ UNCHANGED <<work, dest, stray>>
       \/ running /\ dest' = work[chosen] /\ work' = With(chosen, NoFile) /\ pc' = "moved" /\ UNCHANGED stray
       \/ /\ running /\ dest' \in {NoFile, Half(work[chosen])} /\ stray' = (stray \/ dest' # NoFile)
          /\ pc' = "error" /\ UNCHANGED work
    /\ UNCHANGED <<job, running, failedOnce, reported, chosen, stops>>
\* A stop that is seen after the move takes the file away, and before the completed row too.
MovedKept ==
    /\ pc = "moved"
    /\ pc' = IF running THEN "sweep" ELSE "error"
    /\ UNCHANGED <<job, running, failedOnce, work, reported, chosen, dest, stray, stops>>
Moved ==
    /\ pc = "moved"
    /\ pc' = IF running THEN "sweep" ELSE "error"
    /\ dest' = IF running THEN dest ELSE NoFile
    /\ UNCHANGED <<job, running, failedOnce, work, reported, chosen, stray, stops>>
Sweeps ==
    /\ pc = "sweep"
    /\ work' \in {[n \in Names |-> NoFile], work} /\ Step("commit")
    /\ UNCHANGED <<running, chosen>>
Commits ==
    /\ pc = "commit"
    /\ \/ /\ pc' = IF running THEN "completed" ELSE "error"
          /\ dest' = IF running THEN dest ELSE NoFile
          /\ UNCHANGED stray
       \/ pc' = "error" /\ stray' = TRUE /\ UNCHANGED dest   \* the database fails
    /\ UNCHANGED <<job, running, failedOnce, work, reported, chosen, stops>>
\* A failed step of a job that goes on fails the job; of a stopped one it is the stop.
Ends ==
    /\ pc = "error"
    /\ pc' = IF running THEN "failed" ELSE "stopped"
    /\ failedOnce' = running /\ running' = FALSE
    /\ UNCHANGED <<job, work, reported, chosen, dest, stray, stops>>

(* The user, and the end of the program.                                                       *)
Stop ==
    /\ running /\ pc \notin {"completed", "failed", "stopped"} /\ stops < MaxStops
    /\ running' = FALSE /\ stops' = stops + 1
    /\ UNCHANGED <<job, failedOnce, work, reported, pc, chosen, dest, stray>>
Resumes ==
    /\ pc \in {"stopped", "failed"}
    /\ running' = TRUE /\ pc' = "start"
    /\ failedOnce' \in {failedOnce, FALSE}   \* a playlist's retry clears the error
    /\ UNCHANGED <<job, work, reported, chosen, dest, stray, stops>>
\* FFmpeg's half-written file stays.
HalfWritten == CASE pc = "tagging" /\ chosen # "tagged" -> With("tagged", Half(work[chosen]))
                 [] pc = "normalizing" -> With("normalized", Half(work[chosen]))
                 [] pc \in {"remuxing", "transcoding"} -> With("converting", Half(Mp4(work[chosen])))
                 [] pc = "swap" -> With(chosen, NoFile)
                 [] OTHER -> work
Crash ==
    /\ running /\ pc \notin {"start", "completed", "failed", "stopped"} /\ stops < MaxStops
    /\ pc' = "start" /\ stops' = stops + 1
    /\ work' \in {work, HalfWritten}
    /\ stray' = (stray \/ pc \in {"moved", "sweep", "commit"})
    /\ UNCHANGED <<job, running, failedOnce, reported, chosen, dest>>

FinishSteps ==
    \/ Starts \/ Chooses \/ FetchesCover \/ Tags \/ Swaps \/ Compat \/ Normalizes \/ Remuxes
    \/ Transcodes \/ Probes \/ Decodes \/ Places \/ Moved \/ Sweeps \/ Commits \/ Ends
FinishNext == FinishSteps \/ Stop \/ Resumes \/ Crash
------------------------------------------------------------------------------
\* What is delivered passed every check as it is delivered, whichever file of the directory was
\* taken for the result: no damage a check can see, the streams of the mode, its length when
\* that is known, an MP4 when one was asked for, and Spotify's tags when the job has them.
DeliveredIsChecked ==
    pc = "completed" =>
        /\ Sound(dest) /\ HasStreams(dest) /\ LongEnough(dest)
        /\ job.mode = "video_mp4" => dest.container = "mp4"
        /\ job.tags => dest.tagged
\* A stop leaves the download in the work directory, under one name or another, as long as the
\* move to the destination has not begun: the steps write beside the file and then replace it.
HasDownload == \E n \in Names : There(n) /\ (work[n].damage = "found" => job.source.damage = "found")
StopKeepsDownload ==
    pc \notin {"start", "moved", "sweep", "commit", "completed", "error", "stopped", "failed"} => HasDownload
\* Nothing lies under a final name without a completed row, except half a copy, or a file whose
\* row a crash or a failed statement kept from being completed (worker.rs:1714, 1736).
NothingStray == pc \in {"stopped", "failed"} /\ ~stray => dest = NoFile
FinishSafe == DeliveredIsChecked /\ StopKeepsDownload /\ NothingStray

\* What FinishSafe rests on (proved in PartsProof).  The types:
Working == {"choose", "tag", "tagging", "swap", "compat", "normalizing", "remuxing",
            "transcoding", "probe", "samples", "place"}
Final == {"moved", "sweep", "commit", "completed"}
FinishTypeOK ==
    /\ job.mode \in Modes /\ job.tags \in BOOLEAN /\ job.known \in BOOLEAN /\ job.source \in Files
    /\ job.tags => job.mode = "audio"
    /\ running \in BOOLEAN /\ failedOnce \in BOOLEAN /\ reported \in BOOLEAN /\ stray \in BOOLEAN
    /\ work \in [Names -> Files \cup {NoFile}] /\ dest \in Files \cup {NoFile}
    /\ chosen \in Names /\ stops \in Nat
    /\ pc \in Working \cup Final \cup {"start", "error", "failed", "stopped"}
\* The file that goes on is there, and has what the steps so far have seen to.
Right(file, seen) ==
    /\ job.mode = "video_mp4" => file.container = "mp4"
    /\ job.tags => file.tagged
    /\ seen => HasStreams(file) /\ LongEnough(file)
ChosenIsRight ==
    /\ pc \in Working \ {"choose"} => There(chosen)
    /\ pc = "swap" => chosen # "tagged" /\ There("tagged") /\ work["tagged"].tagged
                      /\ work["tagged"].damage = work[chosen].damage
    /\ pc \in {"tag", "tagging", "swap"} => job.tags /\ chosen # "cover"
    /\ pc \in {"remuxing", "transcoding"} => chosen # "converting"
    /\ pc = "compat" /\ job.tags => work[chosen].tagged
    /\ pc \in {"normalizing", "remuxing", "transcoding"} =>
           job.mode = "video_mp4" /\ (pc = "normalizing" => work[chosen].container = "mp4")
    /\ pc \in {"probe", "samples", "place"} => Right(work[chosen], pc # "probe")
    /\ pc = "place" => Sound(work[chosen])
    /\ pc \in Final => dest \in Files /\ Right(dest, TRUE) /\ Sound(dest)
\* yt-dlp's own output is whole, and nothing is done to it but beside it; what FFmpeg makes of
\* another container is an MP4.
OutputIsKept ==
    /\ There("converting") => job.mode = "video_mp4" /\ work["converting"].container = "mp4"
    /\ There("output") /\ work["output"].damage = "found" => job.source.damage = "found"
    /\ pc \in Working => \/ There("output")
                        \/ /\ pc \in {"probe", "samples", "place"} /\ chosen = "normalized"
                           /\ work["normalized"].damage = "found" => job.source.damage = "found"
DestIsOwn == ~stray /\ pc \notin Final => dest = NoFile
FinishInv == FinishTypeOK /\ ChosenIsRight /\ OutputIsKept /\ DestIsOwn
==============================================================================
