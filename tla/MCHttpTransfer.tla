--------------------------- MODULE MCHttpTransfer ---------------------------
(***************************************************************************)
(* Instances of HttpTransfer for TLC: the sizes of the versions the server *)
(* publishes, in order.                                                    *)
(***************************************************************************)
EXTENDS HttpTransfer

SameThenLarger == <<2, 2, 3>>
Obeys == <<{TRUE}, {TRUE}, {TRUE}>>

ThenSmaller == <<2, 2, 3, 1>>
MayObey == <<BOOLEAN, BOOLEAN, BOOLEAN, BOOLEAN>>
=============================================================================
