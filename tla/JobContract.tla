---------------------------- MODULE JobContract -----------------------------
(***************************************************************************)
(* What a download job promises, whatever engine carries it out: the user  *)
(* has a wish, at most one worker owns the job, and there is or there is   *)
(* not a whole file at the destination.  Leases, locks, registries,        *)
(* partials, retries and cleanup threads are the engines' business.        *)
(*                                                                         *)
(* The contract records what the code promises, not more: a command of the *)
(* user is written over any state (a pause may overwrite a completion), a  *)
(* job may fail beside its whole file, and nothing says when it ends.      *)
(***************************************************************************)
CONSTANT Workers

VARIABLES
    wish,    \* "wanted", "held", "dropped" by the user; "done", "failed"; "gone"
    whole,   \* the whole file is at its destination
    owners   \* the worker that owns the job, if any

vars == <<wish, whole, owners>>

Init == wish = "wanted" /\ whole = FALSE /\ owners = {}

\* A worker takes the job only while it is wanted and nobody has it.
Begin ==
    /\ wish = "wanted" /\ owners = {}
    /\ \E w \in Workers : owners' = {w}
    /\ UNCHANGED <<wish, whole>>

\* It may leave at any time: the user's wish, an error, a crash.
Leave == owners' = {} /\ UNCHANGED <<wish, whole>>

\* Only an owner puts the file in place, and never over another one.
Deliver == owners # {} /\ ~whole /\ whole' = TRUE /\ UNCHANGED <<wish, owners>>

\* The job is done only with its whole file, and never against the user's wish.
Finish ==
    /\ whole /\ wish = "wanted"
    /\ wish' = "done" /\ owners' = {}
    /\ UNCHANGED whole

Fail ==
    /\ owners = {} /\ wish = "wanted"
    /\ wish' = "failed"
    /\ UNCHANGED <<whole, owners>>

Hold   == wish # "gone" /\ wish' = "held"
Ask    == wish \in {"wanted", "held", "failed"} /\ wish' = "wanted"
Drop   == wish # "gone" /\ wish' = "dropped"
Forget == wish' = "gone"

User == (Hold \/ Ask \/ Drop \/ Forget) /\ UNCHANGED <<whole, owners>>

\* Files are removed of a job that is over, when nobody is at work on it.
Remove ==
    /\ owners = {} /\ wish \in {"done", "failed", "dropped", "gone"}
    /\ whole' = FALSE
    /\ UNCHANGED <<wish, owners>>

Next == Begin \/ Leave \/ Deliver \/ Finish \/ Fail \/ User \/ Remove

Spec == Init /\ [][Next]_vars
=============================================================================
