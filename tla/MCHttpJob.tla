----------------------------- MODULE MCHttpJob ------------------------------
(***************************************************************************)
(* Instances of HttpJob for TLC.                                           *)
(***************************************************************************)
EXTENDS HttpJob

CONSTANTS w1, w2
=============================================================================
