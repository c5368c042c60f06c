------------------------------ MODULE MCPlaylist ------------------------------
(* Model of Playlist for TLC: the instances are in Playlist_batch.cfg. *)
EXTENDS Playlist
=============================================================================
