----------------------------- MODULE MCTorrentJob -----------------------------
(* Model of TorrentJob for TLC: the names of its schedules. *)
EXTENDS TorrentJob
CONSTANT s1
=============================================================================
