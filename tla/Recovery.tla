------------------------------ MODULE Recovery ------------------------------
(***************************************************************************)
(* What the application tells the user of a failed job: the diagnosis of   *)
(* its stored error (lib.rs failure_diagnosis), the probes of its source   *)
(* (verify_media_availability, verify_direct_availability), and the advice *)
(* (media/recovery.rs recover_media_source): resume, wait, sign in, or     *)
(* take another source.                                                    *)
(* A message is the set of the marks it contains: the rules look for their *)
(* words anywhere in it, in order, so a message of two marks gets the      *)
(* first one's diagnosis.                                                  *)
(***************************************************************************)
EXTENDS Naturals, SequencesExt

CONSTANTS Stored,     \* the messages that may be stored with a failed job
          Answers     \* the messages of a failed probe, by the kind of the job

VARIABLES job,        \* its kind, whether it has a source, and its stored error
          step,       \* "ask", "probe", "search", "done"
          probes,     \* the answers of the probes: {"ok"} or a message
          diagnosis,  \* the code the answer is based on
          advice      \* MediaRecoverySnapshot.recovery_mode, "error" for a failed command
recoveryVars == <<job, step, probes, diagnosis, advice>>

\* The codes of failure_diagnosis in the order of its tests; a mark is named as the code.
Rules == <<"metadata_refresh_failed", "private_content", "source_unavailable",
           "region_restricted", "authentication_required", "drm_protected",
           "unsupported_source", "format_unavailable", "rate_limited", "network_failure",
           "disk_full", "permission_denied", "file_locked", "integrity_failure",
           "html_instead_of_file", "server_failure", "cancelled">>

Diagnosis(message) ==
    LET found == SelectInSeq(Rules, LAMBDA code : code \in message)
    IN  IF found = 0 THEN "unknown_failure" ELSE Rules[found]

LikelyTemporary == {"metadata_refresh_failed", "rate_limited", "network_failure", "file_locked",
                    "server_failure"}

\* verification_should_retry: one answer is not enough.
Doubtful == LikelyTemporary \cup
            {"unknown_failure", "source_unavailable", "unsupported_source", "format_unavailable"}

\* diagnosis_allows_alternatives
Replaceable == {"private_content", "source_unavailable", "region_restricted",
                "authentication_required", "drm_protected", "unsupported_source",
                "format_unavailable"}

RecoveryInit ==
    /\ job \in [kind : {"media", "http", "torrent"}, source : BOOLEAN, error : Stored]
    /\ step = "ask" /\ probes = <<>> /\ diagnosis = "none" /\ advice = "none"

Advise(code, mode) == step' = "done" /\ diagnosis' = code /\ advice' = mode

\* The advice once no probe is left to be made: another source is looked for only if the
\* diagnosis says that this one is of no use.
Concluded(code) ==
    IF job.kind = "torrent" THEN Advise(code, "torrent_retry")
    ELSE IF code \notin Replaceable THEN Advise(code, "temporary_error")
    ELSE step' = "search" /\ diagnosis' = code /\ UNCHANGED advice

\* recover_media_source up to its first probe.  A stored session failure is believed.
Asks ==
    /\ step = "ask"
    /\ LET code == Diagnosis(job.error)
       IN  IF job.kind = "media" /\ job.source /\ code = "authentication_required"
             THEN Advise(code, "session_required")
           ELSE IF job.kind # "torrent" /\ job.source
             THEN step' = "probe" /\ UNCHANGED <<diagnosis, advice>>
           ELSE Concluded(code)
    /\ UNCHANGED <<job, probes>>

LastAnswerAnyway(code) == TRUE
\* Whether the loop of two attempts stops with this answer.
LastAnswer(code) == Len(probes) = 1 \/ code \notin Doubtful

\* A probe answered: the media page could be read, or the server sent a success.
ProbeSucceeds ==
    /\ step = "probe"
    /\ probes' = Append(probes, {"ok"})
    /\ Advise("available", "available")
    /\ UNCHANGED job

\* A probe failed: the message of yt-dlp, or the status line or error of the request.
ProbeFails(message) ==
    /\ step = "probe"
    /\ probes' = Append(probes, message)
    /\ LET code == Diagnosis(message)
       IN  IF ~LastAnswer(code) THEN UNCHANGED <<step, diagnosis, advice>>
           ELSE IF job.kind = "media" THEN Concluded(code)
           ELSE Advise(code, IF code \in LikelyTemporary THEN "temporary_error"
                             ELSE "direct_retry")
    /\ UNCHANGED job

\* The program or the network needed to probe is not there (`?`).
CannotProbe == step = "probe" /\ Advise("none", "error") /\ UNCHANGED <<job, probes>>

\* search_media_internal: the other sources, none of them counts, or the search fails.
Searches ==
    /\ step = "search"
    /\ step' = "done" /\ advice' \in {"media_alternatives", "error"}
    /\ UNCHANGED <<job, probes, diagnosis>>

RecoveryNext ==
    \/ Asks \/ ProbeSucceeds \/ CannotProbe \/ Searches
    \/ \E message \in Answers[job.kind] : ProbeFails(message)
----------------------------------------------------------------------------
Final == Diagnosis(Last(probes))

\* The advice is what was seen: "available" only after a probe that succeeded; another source
\* for one that was probed only if its last answer was a lasting failure, and a second one when
\* the first could be a passing fault; and a source is given up as "the session is missing"
\* only on the error that says so.  It takes the order of the rules, the loop of attempts and
\* the two lists of codes to agree.
AdviceIsSeen ==
    step = "done" /\ advice # "error" =>
        /\ advice = "available" <=> probes # <<>> /\ Last(probes) = {"ok"}
        /\ advice = "media_alternatives" /\ probes # <<>> =>
              /\ Final \notin LikelyTemporary
              /\ Final \in Doubtful => Len(probes) = 2
        /\ advice = "session_required" => probes = <<>>
        /\ advice = "temporary_error" /\ probes # <<>> => Final \notin Replaceable
=============================================================================
