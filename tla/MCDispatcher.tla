---------------------------- MODULE MCDispatcher ----------------------------
(***************************************************************************)
(* Instances of Dispatcher for TLC.                                        *)
(***************************************************************************)
EXTENDS Dispatcher, TLC

CONSTANTS t1, t2, t3, list, none

HttpOnly   == [j \in Jobs |-> none]
OneList    == [j \in Jobs |-> IF j \in MediaJobs THEN list ELSE none]
Limits21   == [k \in Kinds |-> IF k = "http" THEN 2 ELSE 1]
Limits12   == [k \in Kinds |-> IF k = "http" THEN 1 ELSE 2]
Limits11   == [k \in Kinds |-> 1]

\* Threads are interchangeable (safety runs only).
ThreadSymmetry == Permutations(Threads)
=============================================================================
