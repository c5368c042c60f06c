--------------------------- MODULE ProgressModel ---------------------------
(***************************************************************************)
(* The contract of the progress engine (progress/model.rs,                 *)
(* state_machine.rs) and the pure functions over it: the phases and their   *)
(* legal transitions, the figures of one transfer, the aggregate of the     *)
(* streams of a job and of the items of a playlist (aggregate.rs).          *)
(*                                                                         *)
(* A fraction of a transfer is a whole number of Units (Units stands for    *)
(* 1.0); Unknown stands for None.                                           *)
(***************************************************************************)
EXTENDS Integers, Sequences, FiniteSets, FiniteSetsExt

CONSTANT Units          \* the resolution of a fraction, divisible by every total in use

Unknown == -1

Terminal == {"Completed", "Failed", "Cancelled"}
Live     == {"Queued", "Preparing", "Downloading", "PostProcessing", "Finalizing", "Paused"}
Phases   == Live \cup Terminal \cup {"Cancelling"}

\* Mutant: only a download that runs can be paused.
PauseOnlyRunning(from, to) ==
    \/ to \in {"Cancelling", "Failed"} /\ from \in Live
    \/ <<from, to>> \in {<<"Queued", "Preparing">>, <<"Preparing", "Downloading">>,
                         <<"Paused", "Downloading">>, <<"Downloading", "Paused">>,
                         <<"Downloading", "PostProcessing">>, <<"PostProcessing", "Finalizing">>,
                         <<"Finalizing", "Completed">>, <<"Cancelling", "Cancelled">>}

ValidTransition(from, to) ==
    \/ to \in {"Cancelling", "Failed"} /\ from \in Live
    \/ to = "Preparing"      /\ from = "Queued"
    \/ to = "Downloading"    /\ from \in {"Preparing", "Paused"}
    \/ to = "Paused"         /\ from \in {"Preparing", "Downloading"}
    \/ to = "PostProcessing" /\ from = "Downloading"
    \/ to = "Finalizing"     /\ from = "PostProcessing"
    \/ to = "Completed"      /\ from = "Finalizing"
    \/ to = "Cancelled"      /\ from = "Cancelling"

\* JobStateMachine::transition: an illegal move leaves the machine where it is.
Go(phase, to) == IF ValidTransition(phase, to) THEN to ELSE phase

\* A sequence of moves, each ignored when it is illegal.
GoThrough(phase, path) ==
    LET at[i \in 0..Len(path)] == IF i = 0 THEN phase ELSE Go(at[i-1], path[i])
    IN  at[Len(path)]

Fraction(bytes, total) ==
    IF total = 0 THEN IF bytes = 0 THEN 0 ELSE Units
    ELSE IF bytes >= total THEN Units ELSE (bytes * Units) \div total

Total(t) == MapThenSumSet(LAMBDA i : t[i], DOMAIN t)

----------------------------------------------------------------------------
\* A transfer: the bytes, the total with its kind, the fraction with its kind.
NoTransfer == [bytes |-> 0, total |-> Unknown, kind |-> "Unknown", progress |-> Unknown, pkind |-> "Unavailable"]

WithTotal(bytes, total, kind) ==
    [bytes |-> bytes, total |-> total, kind |-> kind,
     progress |-> Fraction(bytes, total), pkind |-> kind]

\* TransferProgress::validate.
ValidTransfer(t) ==
    /\ (t.kind = "Unknown") = (t.total = Unknown)
    /\ t.progress \in {Unknown} \cup 0..Units
    /\ (t.pkind = "Unavailable") = (t.progress = Unknown)

\* ProgressSnapshotV2::validate: a final size goes with Completed, and only with it.
ValidSnapshot(s) ==
    /\ ValidTransfer(s.transfer)
    /\ (s.phase = "Completed") = s.final

\* The total of a family of transfers: exact, or estimated, when each one has one.
AggregateTotal(ts) ==
    IF \A i \in DOMAIN ts : ts[i].kind = "Exact"
    THEN [total |-> Total([i \in DOMAIN ts |-> ts[i].total]), kind |-> "Exact"]
    ELSE IF \A i \in DOMAIN ts : ts[i].kind \in {"Exact", "Estimated"}
    THEN [total |-> Total([i \in DOMAIN ts |-> ts[i].total]), kind |-> "Estimated"]
    ELSE [total |-> Unknown, kind |-> "Unknown"]

ByTotal(bytes, whole) ==
    [bytes |-> bytes, total |-> whole.total, kind |-> whole.kind,
     progress |-> Fraction(bytes, whole.total), pkind |-> whole.kind]

ByStage(bytes, share, known) ==
    [bytes |-> bytes, total |-> Unknown, kind |-> "Unknown",
     progress |-> IF known THEN share ELSE Unknown,
     pkind |-> IF known THEN "Estimated" ELSE "Unavailable"]

OrZero(p) == IF p = Unknown THEN 0 ELSE p

\* aggregate_streams_with_expected: by bytes when every expected stream has a
\* total, by stage otherwise (a completed stream counts 1, a missing one 0).
AggregateStreams(streams, expected) ==
    IF DOMAIN streams = {} THEN NoTransfer
    ELSE LET n     == Max({expected, Cardinality(DOMAIN streams)})
             bytes == Total([i \in DOMAIN streams |-> streams[i].transfer.bytes])
             whole == AggregateTotal([i \in DOMAIN streams |-> streams[i].transfer])
             stage == Total([i \in DOMAIN streams |->
                               IF streams[i].state = "Completed" THEN Units
                               ELSE OrZero(streams[i].transfer.progress)])
         IN  IF whole.kind # "Unknown" /\ Cardinality(DOMAIN streams) >= n
             THEN ByTotal(bytes, whole)
             ELSE ByStage(bytes, stage \div n,
                          \/ stage > 0
                          \/ \E i \in DOMAIN streams : streams[i].transfer.progress # Unknown)

----------------------------------------------------------------------------
\* playlist_transfer: a finished item counts with its final size.
ItemTransfer(item) ==
    IF item.state = "Completed" /\ item.final
    THEN WithTotal(item.size, item.size, "Exact")
    ELSE item.transfer

\* playlist_state: the first of the questions that has an answer.
PlaylistState(items) ==
    LET with(states) == {i \in DOMAIN items : items[i].state \in states}
    IN  CASE with({"Cancelling"}) # {}                    -> "Cancelling"
          [] with({"Downloading"}) # {}                   -> "Downloading"
          [] with({"Preparing"}) # {}                     -> "Preparing"
          [] with({"PostProcessing", "Finalizing"}) # {}  -> "PostProcessing"
          [] with({"Paused"}) # {}                        -> "Paused"
          [] with({"Queued"}) = DOMAIN items              -> "Queued"
          [] with({"Completed"}) = DOMAIN items           -> "Completed"
          [] with({"Failed"}) = DOMAIN items              -> "Failed"
          [] with({"Cancelled"}) = DOMAIN items           -> "Cancelled"
          [] with({"Failed", "Cancelled"}) # {}           -> "PartialFailure"
          [] OTHER                                        -> "Preparing"

PhaseOfPlaylist(state) == IF state = "PartialFailure" THEN "Failed" ELSE state

\* aggregate_playlist_with_id: by bytes when every item has a total, else each
\* item counts its own fraction; a queued or lost one counts nothing.
AggregatePlaylist(items) ==
    LET ts    == [i \in DOMAIN items |-> ItemTransfer(items[i])]
        bytes == Total([i \in DOMAIN items |-> ts[i].bytes])
        whole == AggregateTotal(ts)
        share == Total([i \in DOMAIN items |->
                    CASE items[i].state = "Completed"                        -> Units
                      [] items[i].state \in {"Queued", "Failed", "Cancelled"} -> 0
                      [] OTHER                          -> OrZero(items[i].transfer.progress)])
    IN  IF whole.kind # "Unknown" THEN ByTotal(bytes, whole)
        ELSE ByStage(bytes, share \div Cardinality(DOMAIN items),
                     \E i \in DOMAIN items :
                        \/ items[i].state # "Queued"
                        \/ items[i].transfer.progress # Unknown
                        \/ items[i].final)

\* PlaylistShadowStore::snapshot
PlaylistSnapshot(items) ==
    LET phase == PhaseOfPlaylist(PlaylistState(items))
    IN  [phase |-> phase, attempt |-> 0, transfer |-> AggregatePlaylist(items),
         final |-> phase = "Completed" /\ \A i \in DOMAIN items : items[i].final]
=============================================================================
