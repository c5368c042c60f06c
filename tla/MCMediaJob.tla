----------------------------- MODULE MCMediaJob -----------------------------
(* Model of MediaJob for TLC: the worker identities. *)
EXTENDS MediaJob
CONSTANTS w1, w2
=============================================================================
