---------------------------- MODULE PlaylistProof ----------------------------
(***************************************************************************)
(* Theorems about Playlist, for any number of items and slots: the states  *)
(* are well typed; as long as the statements of two writers have not mixed *)
(* an item is retried once by itself and, when all is calm, rows and items *)
(* tell the same end; and the status of the playlist is moved neither      *)
(* behind a pause nor ahead of its jobs.                                   *)
(*                                                                         *)
(* The argument: whoever has written one of the two columns of an item and *)
(* not yet the other knows what it wrote (ItemKnows, ListKnows, CmdKnows), *)
(* because a step of anybody else in between would have mixed statements;  *)
(* so every item whose columns differ has somebody who owes it a statement *)
(* (Told), and in a calm state there is nobody left.                       *)
(***************************************************************************)
EXTENDS Playlist, FiniteSetTheorems, WellFoundedInduction, TLAPS

(***************************************************************************)
(* What is known of the writers in progress, whoever else has run.         *)
(***************************************************************************)
\* The item that is being launched has no worker yet.
LaunchIsFree == claimed # 0 => pc[claimed] = "none"

\* A deletion waits for an item of the playlist.
WaitsForItem == cmd.pc = "deleteWait" => cmd.i \in Items

\* What was deleted is stopped, and no command is left.
GoneIsOver ==
    batch = "gone" => cmd.pc = "idle" /\ \A i \in Items : job[i] = "cancelled" /\ item[i] = "cancelled"

(***************************************************************************)
(* What is known as long as the statements of two writers have not mixed.  *)
(***************************************************************************)
\* Where the worker of an item is between its row and its item.
ItemKnows(i) ==
    /\ pc[i] = "item" => job[i] = "completed"
    /\ pc[i] = "failItem" => job[i] = "failed"
    /\ pc[i] = "itemPaused" => job[i] = "paused"
    /\ pc[i] = "itemCancelled" => job[i] = "cancelled"

\* Where a worker is moving the playlist on.
ListKnows(k) ==
    /\ pc[k] \in {"retryJobs", "retryItems", "finish"} => batch \notin {"paused", "gone"}
    /\ pc[k] \in {"retryJobs", "retryItems"} => \A j \in retrying[k] : retried[j] = 0
    /\ pc[k] = "retryItems" => retrying[k] # {} /\ job[Min(retrying[k])] = "queued"
    /\ pc[k] = "finish" => Items_("queued") = {} /\ Items_("running") = {}

\* Where a command is between two of its statements.
CmdKnows(i) ==
    /\ cmd.pc = "pauseItems" => job[i] \notin Waiting
    /\ cmd.pc = "retryItems" /\ item[i] = "failed" => job[i] = "queued"
    /\ cmd.i = i => /\ cmd.pc = "pause" => job[i] \in Waiting
                    /\ cmd.pc = "pauseItem" => job[i] = "paused"
                    /\ cmd.pc = "cancelItem" => job[i] = "cancelled" /\ item[i] # "completed"
                    /\ cmd.pc = "otherItem" => job[i] = "queued"

\* Row and item tell the same end, and what waits in the one waits in the other.
Agree(i) ==
    /\ job[i] \in Over \/ item[i] \in Over => job[i] = item[i]
    /\ job[i] \in Waiting => item[i] \in Waiting

\* The worker, a resume thread, a command or the worker that moves the playlist on has
\* still to write the item.
WorkerOwes(i) == \/ pc[i] = "item" /\ job[i] = "completed"
                 \/ pc[i] = "failItem" /\ job[i] = "failed"
ResumerOwes(i) == resumers[i] > 0 /\ job[i] \notin Over /\ item[i] \in {"failed", "paused"}
CommandOwes(i) ==
    \/ cmd.pc = "cancelItem" /\ cmd.i = i /\ job[i] = "cancelled" /\ item[i] # "completed"
    \/ cmd.pc = "retryItems" /\ item[i] = "failed" /\ job[i] = "queued"
    \/ cmd.pc = "otherItem" /\ cmd.i = i /\ job[i] = "queued"
    \/ cmd.pc = "resumeItems" /\ item[i] = "paused" /\ job[i] = "queued"
RetryOwes(i) == \E k \in Items : pc[k] = "retryItems" /\ Min(retrying[k]) = i /\ job[i] = "queued"

Told(i) == Agree(i) \/ WorkerOwes(i) \/ ResumerOwes(i) \/ CommandOwes(i) \/ RetryOwes(i)

Known ==
    /\ \A i \in Items : retried[i] <= 1 /\ ListKnows(i) /\ Told(i)
    /\ batch # "gone" => \A i \in Items : ItemKnows(i) /\ CmdKnows(i)

PlaylistInv == TypeOK /\ LaunchIsFree /\ WaitsForItem /\ GoneIsOver /\ (~torn => Known)

(***************************************************************************)
(* Lemmas about the operators of the model.                                *)
(***************************************************************************)
\* A set of naturals that is not empty has a least element.
LEMMA LeastNatural ==
    ASSUME NEW S \in SUBSET Nat, S # {}
    PROVE  \E m \in S : \A n \in S : m <= n
<1> DEFINE Initial == {0 .. n : n \in S}
<1>1. Initial \subseteq FiniteSubsetsOf(Nat) /\ Initial # {}
  <2>1. \A n \in S : IsFiniteSet(0 .. n) /\ 0 .. n \in SUBSET Nat
    BY FS_Interval
  <2> QED
    BY <2>1 DEF FiniteSubsetsOf
<1>2. PICK s \in Initial : \A t \in Initial : ~(<<t, s>> \in StrictSubsetOrdering(Nat))
  <2> HIDE DEF Initial
  <2> QED
    BY <1>1, FS_StrictSubsetOrderingWellFounded, WFMin
<1>3. PICK m \in S : s = 0 .. m
  OBVIOUS
<1>4. ASSUME NEW n \in S, n < m PROVE FALSE
  <2>1. 0 .. n \subseteq 0 .. m /\ 0 .. n \in SUBSET Nat /\ 0 .. m \in SUBSET Nat
    BY <1>4
  <2>2. m \in 0 .. m /\ m \notin 0 .. n
    BY <1>4
  <2>3. <<0 .. n, 0 .. m>> \in StrictSubsetOrdering(Nat)
    BY <2>1, <2>2 DEF StrictSubsetOrdering
  <2> QED
    BY <1>2, <1>3, <2>3
<1> QED
  BY <1>4

\* Min finds it.
LEMMA MinIs ==
    ASSUME NEW S \in SUBSET Nat, S # {}
    PROVE  Min(S) \in S /\ \A n \in S : Min(S) <= n
BY LeastNatural DEF Min

\* The items chosen by their status have a first one.
LEMMA FirstOpenIs == ASSUME TypeOK, Open # {} PROVE FirstOpen \in Items
<1>1. Items \subseteq Nat
  BY CountAssumption DEF Items
<1>2. ASSUME NEW s, Items_(s) # {} PROVE Min(Items_(s)) \in Items
  <2>1. Items_(s) \in SUBSET Nat /\ Items_(s) \subseteq Items
    BY <1>1 DEF Items_
  <2> QED
    BY <1>2, <2>1, MinIs
<1>3. Items_("running") # {} \/ Items_("paused") # {} \/ Items_("queued") # {}
  BY DEF Open, Items_
<1>4. \/ Items_("running") # {} /\ FirstOpen = Min(Items_("running"))
      \/ Items_("paused") # {} /\ FirstOpen = Min(Items_("paused"))
      \/ Items_("queued") # {} /\ FirstOpen = Min(Items_("queued"))
  <2>1. CASE Items_("running") # {}
    BY <2>1 DEF FirstOpen
  <2>2. CASE Items_("running") = {} /\ Items_("paused") # {}
    BY <2>2 DEF FirstOpen
  <2>3. CASE Items_("running") = {} /\ Items_("paused") = {}
    BY <1>3, <2>3 DEF FirstOpen
  <2> QED
    BY <2>1, <2>2, <2>3
<1> QED
  BY <1>2, <1>4

\* The head of the playlist is an item whose job waits or is being downloaded.
LEMMA HeadIs == ASSUME NEW i \in Head PROVE i \in Items /\ job[i] \in Waiting
<1> DEFINE pending == {j \in Items : job[j] \in {"queued", "running"}}
<1>1. pending \in SUBSET Nat
  BY CountAssumption DEF Items
<1>2. pending # {} /\ i = Min(pending)
  BY DEF Head
<1>3. i \in pending
  BY <1>1, <1>2, MinIs
<1> QED
  BY <1>3 DEF Waiting

\* A statement over many rows sets those it names and no other.
LEMMA SetIs ==
    ASSUME NEW f \in [Items -> JobStatuses], NEW S, NEW v \in JobStatuses
    PROVE  /\ Set(f, S, v) \in [Items -> JobStatuses]
           /\ \A i \in Items : Set(f, S, v)[i] = IF i \in S THEN v ELSE f[i]
BY DEF Set

(***************************************************************************)
(* Types, and what each kind of step leaves alone.                         *)
(***************************************************************************)
WorkerPoints ==
    {"none", "start", "work", "itemPaused", "itemCancelled", "item", "error", "fail", "failItem",
     "after", "advance", "retryJobs", "retryItems", "finish", "unlist"}
CommandPoints ==
    {"idle", "pauseBatch", "pauseJobs", "pauseItems", "resumeBatch", "resumeJobs", "resumeItems",
     "retryJobs", "retryItems", "retryBatch", "otherJob", "otherItem", "pause", "pauseItem",
     "cancel", "cancelItem", "resume", "delete", "deleteWait", "deleteRows"}

ColumnTypes ==
    /\ job \in [Items -> JobStatuses] /\ item \in [Items -> JobStatuses]
    /\ batch \in BatchStatuses
    /\ retried \in [Items -> Nat] /\ temporary \in [Items -> BOOLEAN]
WorkerTypes ==
    /\ claimed \in 0 .. Count
    /\ pc \in [Items -> WorkerPoints]
    /\ retrying \in [Items -> SUBSET Items] /\ resumers \in [Items -> Nat]
CommandType == cmd \in [pc : CommandPoints, i : 0 .. Count + 1, open : SUBSET Items]

\* The type invariant, in three parts.
LEMMA TypeParts ==
    TypeOK <=> ColumnTypes /\ WorkerTypes /\ CommandType /\ torn \in BOOLEAN /\ ops \in Nat
BY DEF TypeOK, ColumnTypes, WorkerTypes, CommandType, WorkerPoints, CommandPoints

\* A worker writes columns, and of the rest only what is its own.
LEMMA WorkerKeeps ==
    ASSUME ColumnTypes, WorkerTypes, NEW i \in Items, WorkerStep(i)
    PROVE  /\ ColumnTypes' /\ WorkerTypes'
           /\ Elsewhere /\ pc[i] # "none"
           /\ \A k \in Items \ {i} : pc'[k] = pc[k] /\ retrying'[k] = retrying[k]
<1> USE DEF ColumnTypes, WorkerTypes, WorkerPoints, Elsewhere, Goto, Job, Item, JobStatuses, BatchStatuses,
            columns
<1>1. CASE WorkerStart(i)
  BY <1>1 DEF WorkerStart
<1>2. CASE WorkerProgress(i)
  BY <1>2 DEF WorkerProgress
<1>3. CASE WorkerStopped(i)
  BY <1>3 DEF WorkerStopped
<1>4. CASE WorkerItemStopped(i)
  BY <1>4 DEF WorkerItemStopped
<1>5. CASE WorkerCommit(i)
  BY <1>5 DEF WorkerCommit
<1>6. CASE WorkerItem(i)
  BY <1>6 DEF WorkerItem
<1>7. CASE WorkerError(i)
  BY <1>7 DEF WorkerError
<1>8. CASE WorkerFail(i)
  BY <1>8 DEF WorkerFail
<1>9. CASE WorkerFailItem(i)
  BY <1>9 DEF WorkerFailItem
<1>10. CASE WorkerAfter(i)
  BY <1>10 DEF WorkerAfter
<1>11. CASE AdvanceRead(i)
  <2>1. retrying' = [retrying EXCEPT ![i] = IF Held THEN {} ELSE Retryable] /\ Retryable \subseteq Items
    BY <1>11 DEF AdvanceRead, Retryable, Items_
  <2>2. /\ \E target \in {"unlist", "retryJobs", "finish"} : pc' = [pc EXCEPT ![i] = target]
        /\ pc[i] = "advance" /\ UNCHANGED <<columns, temporary>> /\ Elsewhere
    BY <1>11 DEF AdvanceRead
  <2> QED
    BY <2>1, <2>2
<1>12. CASE AdvanceRetryJobs(i)
  BY <1>12 DEF AdvanceRetryJobs
<1>13. CASE AdvanceRetryItems(i)
  <2> DEFINE j == Min(retrying[i])
  <2>1. /\ retried' = IF batch = "gone" THEN retried ELSE [retried EXCEPT ![j] = @ + 1]
        /\ temporary' = [temporary EXCEPT ![j] = FALSE]
        /\ retrying' = [retrying EXCEPT ![i] = @ \ {j}]
        /\ item' = IF batch = "gone" THEN item ELSE [item EXCEPT ![j] = "queued"]
        /\ pc[i] = "retryItems" /\ pc' = [pc EXCEPT ![i] = "retryJobs"] /\ UNCHANGED <<job, batch>> /\ Elsewhere
    BY <1>13 DEF AdvanceRetryItems
  <2> HIDE DEF j
  <2>3. CASE batch = "gone"
    BY <2>1, <2>3
  <2>4. CASE batch # "gone"
    <3>1. retried' = [k \in Items |-> IF k = j THEN retried[k] + 1 ELSE retried[k]]
      BY <2>1, <2>4
    <3>2. retried' \in [Items -> Nat]
      BY <3>1
    <3> QED
      BY <2>1, <2>4, <3>2
  <2> QED
    BY <2>3, <2>4
<1>14. CASE AdvanceRetryBatch(i)
  BY <1>14 DEF AdvanceRetryBatch
<1>15. CASE AdvanceFinish(i)
  BY <1>15 DEF AdvanceFinish
<1>16. CASE WorkerUnlist(i)
  BY <1>16 DEF WorkerUnlist
<1> QED
  BY <1>1, <1>2, <1>3, <1>4, <1>5, <1>6, <1>7, <1>8,
     <1>9, <1>10, <1>11, <1>12, <1>13, <1>14, <1>15, <1>16
  DEF WorkerStep, Advance

\* A command writes columns and resume threads, and of the rest only its own place.
LEMMA CommandKeepsRest ==
    ASSUME ColumnTypes, WorkerTypes, CommandType, WaitsForItem, CommandStep
    PROVE  /\ ColumnTypes' /\ resumers' \in [Items -> Nat] /\ CommandType'
           /\ WaitsForItem' /\ CommandKeeps /\ cmd.pc # "idle"
<1>d. Done => CommandType' /\ WaitsForItem'
  BY CountAssumption DEF Done, NoCommand, CommandType, CommandPoints, WaitsForItem
<1>t. \A target \in CommandPoints \ {"deleteWait"} : Then(target) => CommandType' /\ WaitsForItem'
  BY DEF Then, CommandType, WaitsForItem
<1> USE DEF ColumnTypes, WorkerTypes, CommandKeeps, JobStatuses, BatchStatuses
<1>s. ASSUME NEW f \in [Items -> JobStatuses], NEW S, NEW v \in JobStatuses
      PROVE  Set(f, S, v) \in [Items -> JobStatuses]
  BY SetIs
<1>1. CASE PauseBatch
  <2>1. job' \in [Items -> JobStatuses] /\ item' \in [Items -> JobStatuses]
    BY <1>1 DEF PauseBatch
  <2>2. batch' \in BatchStatuses /\ CommandKeeps /\ cmd.pc # "idle"
    BY <1>1 DEF PauseBatch
  <2>3. resumers' \in [Items -> Nat]
    BY <1>1 DEF PauseBatch
  <2>4. CommandType' /\ WaitsForItem'
    BY <1>1, <1>d, <1>t DEF PauseBatch, CommandPoints
  <2> QED
    BY <2>1, <2>2, <2>3, <2>4
<1>2. CASE PauseJobs
  <2>1. job' \in [Items -> JobStatuses] /\ item' \in [Items -> JobStatuses]
    BY <1>2, <1>s DEF PauseJobs
  <2>2. batch' \in BatchStatuses /\ CommandKeeps /\ cmd.pc # "idle"
    BY <1>2 DEF PauseJobs
  <2>3. resumers' \in [Items -> Nat]
    BY <1>2 DEF PauseJobs
  <2>4. CommandType' /\ WaitsForItem'
    BY <1>2, <1>d, <1>t DEF PauseJobs, CommandPoints
  <2> QED
    BY <2>1, <2>2, <2>3, <2>4
<1>3. CASE PauseItems
  <2>1. job' \in [Items -> JobStatuses] /\ item' \in [Items -> JobStatuses]
    BY <1>3, <1>s DEF PauseItems
  <2>2. batch' \in BatchStatuses /\ CommandKeeps /\ cmd.pc # "idle"
    BY <1>3 DEF PauseItems
  <2>3. resumers' \in [Items -> Nat]
    BY <1>3 DEF PauseItems
  <2>4. CommandType' /\ WaitsForItem'
    BY <1>3, <1>d, <1>t DEF PauseItems, CommandPoints
  <2> QED
    BY <2>1, <2>2, <2>3, <2>4
<1>4. CASE ResumeBatch
  <2>1. job' \in [Items -> JobStatuses] /\ item' \in [Items -> JobStatuses]
    BY <1>4 DEF ResumeBatch
  <2>2. batch' \in BatchStatuses /\ CommandKeeps /\ cmd.pc # "idle"
    BY <1>4 DEF ResumeBatch
  <2>3. resumers' \in [Items -> Nat]
    BY <1>4 DEF ResumeBatch
  <2>4. CommandType' /\ WaitsForItem'
    BY <1>4, <1>d, <1>t DEF ResumeBatch, CommandPoints
  <2> QED
    BY <2>1, <2>2, <2>3, <2>4
<1>5. CASE ResumeJobs
  <2>1. job' \in [Items -> JobStatuses] /\ item' \in [Items -> JobStatuses]
    BY <1>5, <1>s DEF ResumeJobs
  <2>2. batch' \in BatchStatuses /\ CommandKeeps /\ cmd.pc # "idle"
    BY <1>5 DEF ResumeJobs
  <2>3. resumers' \in [Items -> Nat]
    BY <1>5 DEF ResumeJobs
  <2>4. CommandType' /\ WaitsForItem'
    BY <1>5, <1>d, <1>t DEF ResumeJobs, CommandPoints
  <2> QED
    BY <2>1, <2>2, <2>3, <2>4
<1>6. CASE ResumeItems
  <2>1. job' \in [Items -> JobStatuses] /\ item' \in [Items -> JobStatuses]
    BY <1>6, <1>s DEF ResumeItems
  <2>2. batch' \in BatchStatuses /\ CommandKeeps /\ cmd.pc # "idle"
    BY <1>6 DEF ResumeItems
  <2>3. resumers' \in [Items -> Nat]
    <3>1. resumers' = [i \in Items |-> IF i = cmd.i THEN resumers[i] + 1 ELSE resumers[i]]
      BY <1>6 DEF ResumeItems
    <3> QED
      BY <3>1
  <2>4. CommandType' /\ WaitsForItem'
    BY <1>6, <1>d, <1>t DEF ResumeItems, CommandPoints
  <2> QED
    BY <2>1, <2>2, <2>3, <2>4
<1>7. CASE RetryJobs
  <2>1. job' \in [Items -> JobStatuses] /\ item' \in [Items -> JobStatuses]
    BY <1>7, <1>s DEF RetryJobs
  <2>2. batch' \in BatchStatuses /\ CommandKeeps /\ cmd.pc # "idle"
    BY <1>7 DEF RetryJobs
  <2>3. resumers' \in [Items -> Nat]
    BY <1>7 DEF RetryJobs
  <2>4. CommandType' /\ WaitsForItem'
    BY <1>7, <1>d, <1>t DEF RetryJobs, CommandPoints
  <2> QED
    BY <2>1, <2>2, <2>3, <2>4
<1>8. CASE RetryItems
  <2>1. job' \in [Items -> JobStatuses] /\ item' \in [Items -> JobStatuses]
    BY <1>8, <1>s DEF RetryItems
  <2>2. batch' \in BatchStatuses /\ CommandKeeps /\ cmd.pc # "idle"
    BY <1>8 DEF RetryItems
  <2>3. resumers' \in [Items -> Nat]
    BY <1>8 DEF RetryItems
  <2>4. CommandType' /\ WaitsForItem'
    BY <1>8, <1>d, <1>t DEF RetryItems, CommandPoints
  <2> QED
    BY <2>1, <2>2, <2>3, <2>4
<1>9. CASE RetryBatch
  <2>1. job' \in [Items -> JobStatuses] /\ item' \in [Items -> JobStatuses]
    BY <1>9 DEF RetryBatch
  <2>2. batch' \in BatchStatuses /\ CommandKeeps /\ cmd.pc # "idle"
    BY <1>9 DEF RetryBatch
  <2>3. resumers' \in [Items -> Nat]
    BY <1>9 DEF RetryBatch
  <2>4. CommandType' /\ WaitsForItem'
    BY <1>9, <1>d, <1>t DEF RetryBatch, CommandPoints
  <2> QED
    BY <2>1, <2>2, <2>3, <2>4
<1>10. CASE OtherJob
  <2>1. job' \in [Items -> JobStatuses] /\ item' \in [Items -> JobStatuses]
    BY <1>10 DEF OtherJob
  <2>2. batch' \in BatchStatuses /\ CommandKeeps /\ cmd.pc # "idle"
    BY <1>10 DEF OtherJob
  <2>3. resumers' \in [Items -> Nat]
    BY <1>10 DEF OtherJob
  <2>4. CommandType' /\ WaitsForItem'
    BY <1>10, <1>d, <1>t DEF OtherJob, CommandPoints
  <2> QED
    BY <2>1, <2>2, <2>3, <2>4
<1>11. CASE OtherItem
  <2>1. job' \in [Items -> JobStatuses] /\ item' \in [Items -> JobStatuses]
    BY <1>11 DEF OtherItem
  <2>2. batch' \in BatchStatuses /\ CommandKeeps /\ cmd.pc # "idle"
    BY <1>11 DEF OtherItem
  <2>3. resumers' \in [Items -> Nat]
    BY <1>11 DEF OtherItem
  <2>4. CommandType' /\ WaitsForItem'
    BY <1>11, <1>d, <1>t DEF OtherItem, CommandPoints
  <2> QED
    BY <2>1, <2>2, <2>3, <2>4
<1>12. CASE PauseOne
  <2>1. job' \in [Items -> JobStatuses] /\ item' \in [Items -> JobStatuses]
    BY <1>12 DEF PauseOne
  <2>2. batch' \in BatchStatuses /\ CommandKeeps /\ cmd.pc # "idle"
    BY <1>12 DEF PauseOne
  <2>3. resumers' \in [Items -> Nat]
    BY <1>12 DEF PauseOne
  <2>4. CommandType' /\ WaitsForItem'
    BY <1>12, <1>d, <1>t DEF PauseOne, CommandPoints
  <2> QED
    BY <2>1, <2>2, <2>3, <2>4
<1>13. CASE PauseOneItem
  <2>1. job' \in [Items -> JobStatuses] /\ item' \in [Items -> JobStatuses]
    BY <1>13 DEF PauseOneItem
  <2>2. batch' \in BatchStatuses /\ CommandKeeps /\ cmd.pc # "idle"
    BY <1>13 DEF PauseOneItem
  <2>3. resumers' \in [Items -> Nat]
    BY <1>13 DEF PauseOneItem
  <2>4. CommandType' /\ WaitsForItem'
    BY <1>13, <1>d, <1>t DEF PauseOneItem, CommandPoints
  <2> QED
    BY <2>1, <2>2, <2>3, <2>4
<1>14. CASE ResumeOne
  <2>1. job' \in [Items -> JobStatuses] /\ item' \in [Items -> JobStatuses]
    BY <1>14 DEF ResumeOne
  <2>2. batch' \in BatchStatuses /\ CommandKeeps /\ cmd.pc # "idle"
    BY <1>14 DEF ResumeOne
  <2>3. resumers' \in [Items -> Nat]
    BY <1>14 DEF ResumeOne
  <2>4. CommandType' /\ WaitsForItem'
    BY <1>14, <1>d, <1>t DEF ResumeOne, CommandPoints
  <2> QED
    BY <2>1, <2>2, <2>3, <2>4
<1>15. CASE DeleteStop
  <2>1. job' \in [Items -> JobStatuses] /\ item' \in [Items -> JobStatuses]
    BY <1>15 DEF DeleteStop
  <2>2. batch' \in BatchStatuses /\ CommandKeeps /\ cmd.pc # "idle"
    BY <1>15 DEF DeleteStop
  <2>3. resumers' \in [Items -> Nat]
    BY <1>15 DEF DeleteStop
  <2>4. CommandType' /\ WaitsForItem'
    <3>1. CASE cmd' = [cmd EXCEPT !.i = @ + 1] /\ cmd.i <= Count /\ cmd.pc = "delete"
      BY <3>1, CountAssumption DEF CommandType, CommandPoints, WaitsForItem
    <3>2. CASE cmd.i \in Active \cup cmd.open /\ Then("deleteWait")
      BY <3>2 DEF Then, CommandType, CommandPoints, WaitsForItem, Active
    <3> QED
      BY <1>15, <1>d, <1>t, <3>1, <3>2 DEF DeleteStop, CommandPoints
  <2> QED
    BY <2>1, <2>2, <2>3, <2>4
<1>16. CASE DeleteWait
  <2>1. job' \in [Items -> JobStatuses] /\ item' \in [Items -> JobStatuses]
    BY <1>16 DEF DeleteWait
  <2>2. batch' \in BatchStatuses /\ CommandKeeps /\ cmd.pc # "idle"
    BY <1>16 DEF DeleteWait
  <2>3. resumers' \in [Items -> Nat]
    BY <1>16 DEF DeleteWait
  <2>4. CommandType' /\ WaitsForItem'
    <3>1. CASE cmd' = [cmd EXCEPT !.pc = "delete", !.i = @ + 1] /\ cmd.i \in Items
      <4>a. cmd.i + 1 \in 0 .. Count + 1
        BY <3>1, CountAssumption DEF Items
      <4>b. cmd = [pc |-> cmd.pc, i |-> cmd.i, open |-> cmd.open]
        BY DEF CommandType
      <4>1. cmd' = [pc |-> "delete", i |-> cmd.i + 1, open |-> cmd.open] /\ cmd.i + 1 \in 0 .. Count + 1
        BY <3>1, <4>a, <4>b
      <4>2. cmd.open \in SUBSET Items /\ "delete" \in CommandPoints
        BY DEF CommandType, CommandPoints
      <4>3. WaitsForItem'
        BY <4>1 DEF WaitsForItem
      <4> HIDE DEF CommandPoints
      <4> QED
        BY <4>1, <4>2, <4>3 DEF CommandType
    <3> QED
      BY <1>16, <1>d, <3>1 DEF DeleteWait, WaitsForItem
  <2> QED
    BY <2>1, <2>2, <2>3, <2>4
<1>17. CASE DeleteRows
  <2>1. job' \in [Items -> JobStatuses] /\ item' \in [Items -> JobStatuses]
    BY <1>17, <1>s DEF DeleteRows
  <2>2. batch' \in BatchStatuses /\ CommandKeeps /\ cmd.pc # "idle"
    BY <1>17 DEF DeleteRows
  <2>3. resumers' \in [Items -> Nat]
    BY <1>17 DEF DeleteRows
  <2>4. CommandType' /\ WaitsForItem'
    BY <1>17, <1>d, <1>t DEF DeleteRows, CommandPoints
  <2> QED
    BY <2>1, <2>2, <2>3, <2>4
<1> QED
  BY <1>1, <1>2, <1>3, <1>4, <1>5, <1>6, <1>7, <1>8, <1>9,
     <1>10, <1>11, <1>12, <1>13, <1>14, <1>15, <1>16, <1>17
  DEF CommandStep

\* A click starts a command, of an item in a state that allows it.
LEMMA ClickIs ==
    ASSUME TypeOK, Clicks
    PROVE  /\ CommandType' /\ ops' \in Nat
           /\ cmd.pc = "idle" /\ batch # "gone"
           /\ cmd'.pc \in {"pauseBatch", "resumeBatch", "retryJobs", "otherJob", "pause", "resume", "cancel",
                           "delete"}
           /\ cmd'.pc = "pause" => cmd'.i \in Items /\ job[cmd'.i] \in Waiting
           /\ UNCHANGED <<columns, temporary, claimed, pc, retrying, resumers>>
<1> USE CountAssumption DEF TypeOK, CommandType, CommandPoints, Click, Budget, Items, Unfinished, Waiting
<1>1. CASE ClickPauseBatch
  BY <1>1 DEF ClickPauseBatch
<1>2. CASE ClickResumeBatch
  <2>1. FirstOpen \in Items
    BY <1>2, FirstOpenIs DEF ClickResumeBatch
  <2> QED
    BY <1>2, <2>1 DEF ClickResumeBatch
<1>3. CASE ClickRetryFailed
  BY <1>3 DEF ClickRetryFailed
<1>4. CASE ClickAlternative
  BY <1>4 DEF ClickAlternative, Items_
<1>5. CASE ClickPause
  BY <1>5 DEF ClickPause
<1>6. CASE ClickResume
  BY <1>6 DEF ClickResume
<1>7. CASE ClickCancel
  BY <1>7 DEF ClickCancel
<1>8. CASE ClickDelete
  BY <1>8 DEF ClickDelete
<1> QED
  BY <1>1, <1>2, <1>3, <1>4, <1>5, <1>6, <1>7, <1>8 DEF Clicks

\* A claim is of an item that has no worker, and whose job waits or lost its worker.
LEMMA ClaimIs ==
    ASSUME Claim
    PROVE  /\ batch # "gone" /\ batch' = "running"
           /\ \E i \in Items :
                /\ pc[i] = "none" /\ job[i] \in Waiting
                /\ job' = [job EXCEPT ![i] = "running"]
                /\ item' = IF item[i] = "queued" THEN [item EXCEPT ![i] = "running"] ELSE item
                /\ claimed' = i
           /\ UNCHANGED <<retried, temporary, pc, retrying, resumers, cmd, ops>>
<1>1. PICK i \in Head \ Active :
        /\ job' = [job EXCEPT ![i] = "running"]
        /\ item' = IF item[i] = "queued" THEN [item EXCEPT ![i] = "running"] ELSE item
        /\ claimed' = i
  BY DEF Claim
<1>2. i \in Items /\ job[i] \in Waiting /\ pc[i] = "none"
  BY HeadIs DEF Active
<1> QED
  BY <1>1, <1>2 DEF Claim

\* Variables keep their types, and a deletion waits for an item.
LEMMA TypeStep ==
    ASSUME TypeOK, WaitsForItem, [Next]_vars
    PROVE  TypeOK' /\ WaitsForItem'
<1>a. ColumnTypes /\ WorkerTypes /\ CommandType /\ ops \in Nat /\ torn \in BOOLEAN
  BY TypeParts
<1>t. torn' \in BOOLEAN
  BY <1>a DEF Next, Tears, vars
<1> SUFFICES ColumnTypes' /\ WorkerTypes' /\ CommandType' /\ ops' \in Nat /\ WaitsForItem'
  BY <1>t, TypeParts DEF TypeOK, ColumnTypes, WorkerTypes, CommandType, WorkerPoints, CommandPoints
<1>1. CASE Claim
  <2>1. ColumnTypes'
    BY <1>1, <1>a, ClaimIs DEF ColumnTypes, JobStatuses, BatchStatuses
  <2>2. claimed' \in 0 .. Count
    BY <1>1, ClaimIs, CountAssumption DEF Items
  <2> QED
    BY <1>1, <1>a, <2>1, <2>2, ClaimIs DEF WorkerTypes, CommandType, WaitsForItem
<1>2. CASE Launch
  <2>1. ColumnTypes' /\ CommandType' /\ WaitsForItem' /\ ops' \in Nat
    BY <1>2, <1>a DEF Launch, columns, ColumnTypes, CommandType, WaitsForItem
  <2>2. WorkerTypes'
    <3>1. claimed' \in 0 .. Count /\ UNCHANGED <<retrying, resumers>>
      BY <1>2, CountAssumption DEF Launch
    <3>2. pc' = [pc EXCEPT ![claimed] = "start"] /\ "start" \in WorkerPoints
      BY <1>2 DEF Launch, WorkerPoints
    <3>3. pc' \in [Items -> WorkerPoints]
      BY <1>a, <3>2 DEF WorkerTypes
    <3> QED
      BY <1>a, <3>1, <3>3 DEF WorkerTypes
  <2> QED
    BY <2>1, <2>2
<1>3. CASE \E i \in Items : WorkerStep(i)
  BY <1>3, <1>a, WorkerKeeps DEF Elsewhere, CommandType, WaitsForItem
<1>4. CASE \E i \in Items : ResumerStarts(i) \/ ResumerGivesUp(i)
  <2>1. PICK i \in Items : ResumerStarts(i) \/ ResumerGivesUp(i)
    BY <1>4
  <2>2. resumers' = [resumers EXCEPT ![i] = @ - 1] /\ resumers[i] > 0
    BY <2>1 DEF ResumerStarts, ResumerGivesUp
  <2>3. resumers' \in [Items -> Nat]
    BY <1>a, <2>2 DEF WorkerTypes
  <2>4. UNCHANGED <<batch, retried, claimed, pc, retrying, cmd, ops>>
    BY <2>1 DEF ResumerStarts, ResumerGivesUp
  <2>5. job' \in [Items -> JobStatuses] /\ item' \in [Items -> JobStatuses] /\ temporary' \in [Items -> BOOLEAN]
    BY <1>a, <2>1 DEF ResumerStarts, ResumerGivesUp, Job, Item, ColumnTypes, JobStatuses
  <2> QED
    BY <1>a, <2>3, <2>4, <2>5 DEF ColumnTypes, WorkerTypes, CommandType, WaitsForItem
<1>5. CASE CommandStep
  BY <1>5, <1>a, CommandKeepsRest DEF CommandKeeps, WorkerTypes
<1>6. CASE Clicks
  BY <1>6, <1>a, ClickIs DEF columns, ColumnTypes, WorkerTypes, WaitsForItem
<1>7. CASE Crash
  <2>1. ColumnTypes'
    BY <1>7, <1>a DEF Crash, ColumnTypes, Requeued, JobStatuses, BatchStatuses
  <2>2. WorkerTypes' /\ ops' \in Nat
    BY <1>7, <1>a, CountAssumption DEF Crash, WorkerTypes, WorkerPoints
  <2>3. CommandType' /\ WaitsForItem'
    BY <1>7, <1>a, CountAssumption DEF Crash, CommandType, CommandPoints, NoCommand, WaitsForItem
  <2> QED
    BY <2>1, <2>2, <2>3
<1>8. CASE UNCHANGED vars
  BY <1>8, <1>a DEF vars, steps, columns, ColumnTypes, WorkerTypes, CommandType, WaitsForItem
<1> QED
  BY <1>1, <1>2, <1>3, <1>4, <1>5, <1>6, <1>7, <1>8 DEF Next, Dispatch

(***************************************************************************)
(* What holds whether or not statements have mixed.                        *)
(***************************************************************************)
\* The status of the playlist is moved only by the worker that moves the playlist on.
LEMMA WorkerBatch ==
    ASSUME NEW i \in Items, WorkerStep(i)
    PROVE  \/ batch' = batch
           \/ pc[i] \in {"retryJobs", "finish"} /\ batch # "gone" /\ batch' # "gone"
<1>1. CASE AdvanceRetryBatch(i) \/ AdvanceFinish(i)
  BY <1>1 DEF AdvanceRetryBatch, AdvanceFinish
<1>2. CASE \/ WorkerStart(i) \/ WorkerProgress(i) \/ WorkerStopped(i) \/ WorkerItemStopped(i)
           \/ WorkerCommit(i) \/ WorkerItem(i) \/ WorkerError(i) \/ WorkerFail(i)
  BY <1>2 DEF WorkerStart, WorkerProgress, WorkerStopped, WorkerItemStopped, WorkerCommit, WorkerItem,
              WorkerError, WorkerFail, columns
<1>3. CASE \/ WorkerFailItem(i) \/ WorkerAfter(i) \/ WorkerUnlist(i) \/ AdvanceRead(i)
           \/ AdvanceRetryJobs(i) \/ AdvanceRetryItems(i)
  BY <1>3 DEF WorkerFailItem, WorkerAfter, WorkerUnlist, AdvanceRead, AdvanceRetryJobs, AdvanceRetryItems,
              columns
<1> QED
  BY <1>1, <1>2, <1>3 DEF WorkerStep, Advance

\* Only a deletion deletes.
LEMMA OnlyDeleteRows ==
    ASSUME CommandStep, batch # "gone", batch' = "gone" PROVE DeleteRows
BY DEF CommandStep, PauseBatch, PauseJobs, PauseItems, ResumeBatch, ResumeJobs, ResumeItems, RetryJobs,
       RetryItems, RetryBatch, OtherJob, OtherItem, PauseOne, PauseOneItem, ResumeOne, DeleteStop, DeleteWait

\* No worker takes up the item that is being launched.
LEMMA LaunchStep ==
    ASSUME TypeOK, WaitsForItem, LaunchIsFree, [Next]_vars PROVE LaunchIsFree'
<1>a. ColumnTypes /\ WorkerTypes /\ CommandType
  BY TypeParts
<1>1. CASE Claim
  BY <1>1, ClaimIs DEF LaunchIsFree
<1>2. CASE Launch \/ Crash
  BY <1>2 DEF Launch, Crash, LaunchIsFree
<1>3. ASSUME NEW i \in Items, WorkerStep(i) PROVE LaunchIsFree'
  <2>1. claimed' = claimed /\ pc[i] # "none" /\ \A k \in Items \ {i} : pc'[k] = pc[k]
    BY <1>a, <1>3, WorkerKeeps DEF Elsewhere
  <2>2. claimed # 0 => claimed \in Items
    BY <1>a, CountAssumption DEF WorkerTypes, Items
  <2> QED
    BY <2>1, <2>2 DEF LaunchIsFree
<1>4. CASE \E i \in Items : ResumerStarts(i) \/ ResumerGivesUp(i)
  BY <1>4 DEF ResumerStarts, ResumerGivesUp, LaunchIsFree
<1>5. CASE CommandStep
  BY <1>a, <1>5, CommandKeepsRest DEF CommandKeeps, LaunchIsFree
<1>6. CASE Clicks
  BY <1>6, ClickIs DEF LaunchIsFree
<1>7. CASE UNCHANGED vars
  BY <1>7 DEF vars, steps, LaunchIsFree
<1> QED
  BY <1>1, <1>2, <1>3, <1>4, <1>5, <1>6, <1>7 DEF Next, Dispatch

\* Nothing moves a deleted playlist.
LEMMA GoneStays ==
    ASSUME TypeOK, WaitsForItem, GoneIsOver, batch = "gone", [Next]_vars
    PROVE  /\ batch' = "gone" /\ cmd'.pc = "idle"
           /\ \A i \in Items : job'[i] = "cancelled" /\ item'[i] = "cancelled"
<1>a. ColumnTypes /\ WorkerTypes /\ CommandType
  BY TypeParts
<1>b. cmd.pc = "idle" /\ \A i \in Items : job[i] = "cancelled" /\ item[i] = "cancelled"
  BY DEF GoneIsOver
<1>1. CASE Dispatch
  BY <1>1, <1>b DEF Dispatch, Claim, Launch, columns
<1>2. ASSUME NEW k \in Items, WorkerStep(k) PROVE batch' = "gone" /\ job' = job /\ item' = item /\ cmd' = cmd
  <2>1. batch' = batch /\ cmd' = cmd
    BY <1>a, <1>2, WorkerBatch, WorkerKeeps DEF Elsewhere
  <2>2. job[k] = "cancelled"
    BY <1>b
  <2>3. CASE \/ WorkerStart(k) \/ WorkerProgress(k) \/ WorkerStopped(k) \/ WorkerItemStopped(k)
             \/ WorkerCommit(k) \/ WorkerItem(k) \/ WorkerError(k) \/ WorkerFail(k)
    BY <2>1, <2>2, <2>3 DEF WorkerStart, WorkerProgress, WorkerStopped, WorkerItemStopped, WorkerCommit,
                            WorkerItem, WorkerError, WorkerFail, columns, Job, Item
  <2>4. CASE \/ WorkerFailItem(k) \/ WorkerAfter(k) \/ WorkerUnlist(k) \/ Advance(k)
    BY <2>1, <2>2, <2>4 DEF WorkerFailItem, WorkerAfter, WorkerUnlist, Advance, AdvanceRead, AdvanceRetryJobs,
                            AdvanceRetryItems, AdvanceRetryBatch, AdvanceFinish, columns, Job, Item
  <2> QED
    BY <1>2, <2>1, <2>3, <2>4 DEF WorkerStep
<1>3. CASE \E k \in Items : ResumerStarts(k) \/ ResumerGivesUp(k)
  BY <1>3, <1>b DEF ResumerStarts, ResumerGivesUp, Job, Item
<1>4. CASE CommandStep
  BY <1>a, <1>b, <1>4, CommandKeepsRest
<1>5. CASE Clicks
  BY <1>5, ClickIs
<1>6. CASE Crash
  BY <1>6, <1>b DEF Crash, Requeued, NoCommand
<1>7. CASE UNCHANGED vars
  BY <1>7, <1>b DEF vars, steps, columns
<1> QED
  BY <1>b, <1>1, <1>2, <1>3, <1>4, <1>5, <1>6, <1>7 DEF Next

\* A playlist is deleted at the end of a command, with all it has stopped.
LEMMA GoneStep ==
    ASSUME TypeOK, WaitsForItem, GoneIsOver, [Next]_vars PROVE GoneIsOver'
<1>a. ColumnTypes /\ WorkerTypes /\ CommandType
  BY TypeParts
<1>1. CASE batch = "gone"
  BY <1>1, GoneStays DEF GoneIsOver
<1>2. CASE batch' # "gone"
  BY <1>2 DEF GoneIsOver
<1>3. CASE DeleteRows
  BY <1>3, <1>a, SetIs DEF DeleteRows, Done, NoCommand, ColumnTypes, JobStatuses, GoneIsOver
<1>4. ASSUME batch # "gone", ~DeleteRows PROVE batch' # "gone"
  <2>1. CASE Dispatch
    BY <1>4, <2>1, ClaimIs DEF Dispatch, Launch, columns
  <2>2. CASE \E i \in Items : WorkerStep(i)
    BY <1>4, <2>2, WorkerBatch
  <2>3. CASE \E i \in Items : ResumerStarts(i) \/ ResumerGivesUp(i)
    BY <1>4, <2>3 DEF ResumerStarts, ResumerGivesUp
  <2>4. CASE CommandStep
    BY <1>4, <2>4, OnlyDeleteRows
  <2>5. CASE Clicks
    BY <1>4, <2>5, ClickIs DEF columns
  <2>6. CASE Crash
    BY <1>4, <2>6 DEF Crash, Requeued
  <2>7. CASE UNCHANGED vars
    BY <1>4, <2>7 DEF vars, steps, columns
  <2> QED
    BY <2>1, <2>2, <2>3, <2>4, <2>5, <2>6, <2>7 DEF Next
<1> QED
  BY <1>1, <1>2, <1>3, <1>4

(***************************************************************************)
(* Steps that mix no statements.                                           *)
(***************************************************************************)
\* Such a step writes no column while another is between its statements.
Apart(self) ==
    /\ ~torn
    /\ columns' = columns \/ ListWriters \ self = {}
    /\ \A i \in ItemWriters \ self : job'[i] = job[i] /\ item'[i] = item[i]

\* What is known of a step that does not tear.
LEMMA NotTorn ==
    ASSUME NEW self, torn \in BOOLEAN, Tears(self), ~torn' PROVE Apart(self)
BY Zenon DEF Tears, Apart

\* While a command is in progress nobody else writes a column.
LEMMA CommandAlone ==
    ASSUME NEW self, 0 \notin self, Apart(self), cmd.pc # "idle"
    PROVE  UNCHANGED <<job, item, batch, retried>>
BY DEF Apart, ListWriters, columns

\* While a worker moves the playlist on nobody else writes a column.
LEMMA ListAlone ==
    ASSUME NEW self, NEW k \in Items, k \notin self, Apart(self),
           pc[k] \in {"retryJobs", "retryItems", "finish"}
    PROVE  UNCHANGED <<job, item, batch, retried>>
BY DEF Apart, ListWriters, columns

\* The steps there are when nothing is mixed.
LEMMA Steps ==
    ASSUME TypeOK, [Next]_vars, ~torn'
    PROVE  \/ Claim /\ Apart({})
           \/ Launch /\ Apart({})
           \/ \E i \in Items : WorkerStep(i) /\ Apart({i})
           \/ \E i \in Items : ResumerStarts(i) /\ Apart({})
           \/ CommandStep /\ Apart({0})
           \/ Clicks /\ Apart({0})
           \/ ~torn /\ UNCHANGED vars
<1>1. torn \in BOOLEAN
  BY DEF TypeOK
<1>2. CASE Dispatch /\ Tears({})
  BY <1>1, <1>2, NotTorn DEF Dispatch
<1>3. ASSUME NEW i \in Items, WorkerStep(i), Tears({i}) PROVE Apart({i})
  BY <1>1, <1>3, NotTorn
<1>4. ASSUME NEW i \in Items, ResumerStarts(i), Tears({}) PROVE Apart({})
  BY <1>1, <1>4, NotTorn
<1>5. CASE (CommandStep \/ Clicks) /\ Tears({0})
  BY <1>1, <1>5, NotTorn
<1>6. CASE UNCHANGED vars
  BY <1>6 DEF vars
<1> QED
  BY <1>2, <1>3, <1>4, <1>5, <1>6 DEF Next

(***************************************************************************)
(* Who is between two statements knows what it wrote.                      *)
(***************************************************************************)
\* Row and item of an item whose worker is between them.
LEMMA ItemKnowsStep ==
    ASSUME TypeOK, WaitsForItem, LaunchIsFree, GoneIsOver, [Next]_vars, ~torn', batch' # "gone",
           NEW i \in Items, ItemKnows(i)
    PROVE  ItemKnows(i)'
<1>a. ColumnTypes /\ WorkerTypes /\ CommandType
  BY TypeParts
<1>g. batch # "gone"
  BY GoneStays
<1> DEFINE Midway == {"item", "failItem", "itemPaused", "itemCancelled"}
<1>1. CASE pc'[i] \in Midway => pc'[i] = pc[i] /\ job'[i] = job[i]
  BY <1>1 DEF ItemKnows
<1>2. ASSUME NEW self, i \notin self, Apart(self), pc'[i] \in Midway => pc'[i] = pc[i]
      PROVE  ItemKnows(i)'
  <2>1. pc'[i] \in Midway => job'[i] = job[i]
    BY <1>2 DEF Apart, ItemWriters
  <2> QED
    BY <1>1, <1>2, <2>1
<1>3. CASE WorkerStep(i)
  <2>1. CASE WorkerCommit(i)
    BY <1>a, <2>1 DEF WorkerCommit, Goto, ItemKnows, ColumnTypes, WorkerTypes
  <2>2. CASE WorkerFail(i)
    BY <1>a, <1>g, <2>2 DEF WorkerFail, Goto, Job, ItemKnows, ColumnTypes, WorkerTypes
  <2>3. CASE WorkerStopped(i)
    BY <1>a, <2>3 DEF WorkerStopped, Goto, ItemKnows, ColumnTypes, WorkerTypes, Stopped, columns
  <2>4. CASE WorkerStart(i) \/ WorkerItemStopped(i) \/ WorkerItem(i) \/ WorkerError(i)
    <3>1. pc'[i] \in {"work", "after", "fail"}
      BY <1>a, <2>4 DEF WorkerStart, WorkerItemStopped, WorkerItem, WorkerError, Goto, WorkerTypes
    <3> QED
      BY <1>1, <3>1
  <2>5. CASE WorkerProgress(i)
    BY <1>1, <2>5 DEF WorkerProgress
  <2>6. CASE WorkerFailItem(i) \/ WorkerAfter(i) \/ WorkerUnlist(i) \/ Advance(i)
    <3>1. pc'[i] \in {"after", "advance", "unlist", "none", "retryJobs", "retryItems", "finish"}
      BY <1>a, <2>6 DEF WorkerFailItem, WorkerAfter, WorkerUnlist, Advance, AdvanceRead, AdvanceRetryJobs,
                        AdvanceRetryItems, AdvanceRetryBatch, AdvanceFinish, Goto, WorkerTypes
    <3> QED
      BY <1>1, <3>1
  <2> QED
    BY <1>3, <2>1, <2>2, <2>3, <2>4, <2>5, <2>6 DEF WorkerStep
<1>4. ASSUME NEW k \in Items, k # i, WorkerStep(k), Apart({k}) PROVE ItemKnows(i)'
  BY <1>a, <1>2, <1>4, WorkerKeeps
<1>5. CASE Claim /\ Apart({})
  BY <1>2, <1>5, ClaimIs
<1>6. CASE Launch /\ Apart({})
  <2>1. pc'[i] = pc[i] \/ pc'[i] = "start"
    BY <1>a, <1>6 DEF Launch, WorkerTypes
  <2> QED
    BY <1>2, <1>6, <2>1
<1>7. ASSUME NEW k \in Items, ResumerStarts(k), Apart({}) PROVE ItemKnows(i)'
  BY <1>2, <1>7 DEF ResumerStarts
<1>8. CASE CommandStep /\ Apart({0})
  <2>1. i \notin {0} /\ pc' = pc
    BY <1>a, <1>8, CommandKeepsRest, CountAssumption DEF CommandKeeps, Items
  <2> QED
    BY <1>2, <1>8, <2>1
<1>9. CASE Clicks
  BY <1>1, <1>9, ClickIs DEF columns
<1>10. CASE UNCHANGED vars
  BY <1>1, <1>10 DEF vars, steps, columns
<1> QED
  BY <1>3, <1>4, <1>5, <1>6, <1>7, <1>8, <1>9, <1>10, Steps

\* Nothing but the row of a completed job completes an item: where the item is completed
\* and the row is not, no command may write the row.
LEMMA ToldAhead ==
    ASSUME TypeOK, NEW i \in Items, Told(i), item[i] = "completed", job[i] # "completed",
           Apart({0}), job'[i] = "cancelled",
           cmd.pc \notin {"cancelItem", "retryItems", "otherItem", "resumeItems"}
    PROVE  FALSE
<1>1. 0 \notin Items /\ job[i] # "cancelled"
  <2>1. ~Agree(i) /\ ~ResumerOwes(i) /\ ~CommandOwes(i)
    BY DEF Agree, Over, ResumerOwes, CommandOwes
  <2>2. job[i] \in {"failed", "queued"}
    BY <2>1 DEF Told, WorkerOwes, RetryOwes
  <2> QED
    BY <2>2, CountAssumption DEF Items
<1>2. CASE WorkerOwes(i)
  BY <1>1, <1>2 DEF WorkerOwes, Apart, ItemWriters
<1>3. CASE RetryOwes(i)
  <2>1. job' = job
    BY <1>1, <1>3, ListAlone DEF RetryOwes
  <2> QED
    BY <1>1, <2>1
<1> QED
  BY <1>2, <1>3 DEF Told, Agree, Over, ResumerOwes, CommandOwes

\* The jobs a command is about.
LEMMA CmdKnowsStep ==
    ASSUME TypeOK, WaitsForItem, [Next]_vars, ~torn', batch # "gone",
           NEW i \in Items, CmdKnows(i), Told(i)
    PROVE  CmdKnows(i)'
<1>a. ColumnTypes /\ WorkerTypes /\ CommandType
  BY TypeParts
<1>1. ASSUME NEW self, 0 \notin self, Apart(self), cmd' = cmd PROVE CmdKnows(i)'
  <2>1. CASE cmd.pc = "idle"
    BY <1>1, <2>1 DEF CmdKnows
  <2>2. CASE cmd.pc # "idle"
    <3>1. job' = job /\ item' = item
      BY <1>1, <2>2, CommandAlone
    <3> QED
      BY <1>1, <3>1 DEF CmdKnows
  <2> QED
    BY <2>1, <2>2
<1>2. CASE Claim /\ Apart({})
  BY <1>1, <1>2, ClaimIs
<1>3. CASE Launch /\ Apart({})
  BY <1>1, <1>3 DEF Launch
<1>4. ASSUME NEW k \in Items, WorkerStep(k), Apart({k}) PROVE CmdKnows(i)'
  <2>1. 0 \notin {k} /\ cmd' = cmd
    BY <1>a, <1>4, WorkerKeeps, CountAssumption DEF Elsewhere, Items
  <2> QED
    BY <1>1, <1>4, <2>1
<1>5. ASSUME NEW k \in Items, ResumerStarts(k), Apart({}) PROVE CmdKnows(i)'
  BY <1>1, <1>5 DEF ResumerStarts
<1>6. CASE Clicks
  BY <1>6, ClickIs DEF CmdKnows, columns
<1>7. CASE UNCHANGED vars
  BY <1>7 DEF vars, steps, columns, CmdKnows
<1>8. CASE CommandStep /\ Apart({0})
  <2> USE DEF CommandType, Then, Done, NoCommand, CmdKnows
  <2>1. CASE PauseJobs
    <3>1. cmd'.pc = "pauseItems" /\ \A j \in Items : job'[j] = IF job[j] \notin Over THEN "paused" ELSE job[j]
      BY <1>a, <2>1, SetIs DEF PauseJobs, ColumnTypes, JobStatuses
    <3> QED
      BY <1>a, <3>1 DEF ColumnTypes, JobStatuses, Over, Waiting
  <2>2. CASE RetryJobs
    <3>1. /\ cmd'.pc = "retryItems" /\ item' = item
          /\ \A j \in Items : job'[j] = IF item[j] = "failed" THEN "queued" ELSE job[j]
      BY <1>a, <2>2, SetIs DEF RetryJobs, ColumnTypes, JobStatuses, Items_
    <3> QED
      BY <3>1
  <2>3. CASE OtherJob
    BY <1>a, <2>3 DEF OtherJob, ColumnTypes
  <2>4. CASE PauseOne
    <3>1. CASE cmd.pc = "cancel" /\ job[cmd.i] = "completed"
      BY <1>a, <2>4, <3>1 DEF PauseOne
    <3>2. CASE cmd.pc = "pause"
      BY <1>a, <2>4, <3>2 DEF PauseOne, ColumnTypes
    <3>3. CASE cmd.pc = "cancel" /\ job[cmd.i] # "completed"
      <4>1. job' = [job EXCEPT ![cmd.i] = "cancelled"] /\ item' = item /\ cmd'.pc = "cancelItem" /\ cmd'.i = cmd.i
        BY <1>a, <2>4, <3>3 DEF PauseOne
      <4>2. ASSUME cmd.i = i PROVE job'[i] = "cancelled" /\ job[i] # "completed"
        BY <1>a, <3>3, <4>1, <4>2 DEF ColumnTypes
      <4>3. ASSUME cmd.i = i, item[i] = "completed" PROVE FALSE
        BY <1>8, <3>3, <4>2, <4>3, ToldAhead
      <4> QED
        BY <4>1, <4>2, <4>3
    <3> QED
      BY <2>4, <3>1, <3>2, <3>3 DEF PauseOne
  <2>5. CASE PauseBatch \/ PauseItems \/ ResumeBatch \/ ResumeJobs \/ ResumeItems \/ RetryItems \/ RetryBatch
    BY <1>a, <2>5 DEF PauseBatch, PauseItems, ResumeBatch, ResumeJobs, ResumeItems, RetryItems, RetryBatch
  <2>6. CASE OtherItem \/ PauseOneItem \/ ResumeOne \/ DeleteRows
    BY <1>a, <2>6 DEF OtherItem, PauseOneItem, ResumeOne, DeleteRows
  <2>8. CASE DeleteWait
    <3>1. cmd'.pc \in {"idle", "delete"}
      <4>1. cmd = [pc |-> cmd.pc, i |-> cmd.i, open |-> cmd.open]
        BY <1>a
      <4>2. CASE cmd' = [cmd EXCEPT !.pc = "delete", !.i = @ + 1]
        BY <4>1, <4>2
      <4> QED
        BY <1>a, <2>8, <4>2 DEF DeleteWait
    <3> QED
      BY <3>1
  <2>7. CASE DeleteStop
    BY <1>a, <2>7 DEF DeleteStop
  <2> QED
    BY <1>8, <2>1, <2>2, <2>3, <2>4, <2>5, <2>6, <2>7, <2>8 DEF CommandStep
<1> QED
  BY <1>2, <1>3, <1>4, <1>5, <1>6, <1>7, <1>8, Steps

\* The items a worker has chosen to retry are items.
LEMMA RetryingFirst ==
    ASSUME TypeOK, NEW k \in Items, retrying[k] # {}
    PROVE  Min(retrying[k]) \in retrying[k] /\ Min(retrying[k]) \in Items
<1>1. retrying[k] \in SUBSET Items /\ retrying[k] \in SUBSET Nat
  BY CountAssumption DEF TypeOK, Items
<1> QED
  BY <1>1, MinIs

\* What a worker has read of the playlist it moves on, and each item it has retried.
LEMMA ListKnowsStep ==
    ASSUME TypeOK, WaitsForItem, LaunchIsFree, [Next]_vars, ~torn', NEW k \in Items, ListKnows(k)
    PROVE  ListKnows(k)'
<1>a. ColumnTypes /\ WorkerTypes /\ CommandType
  BY TypeParts
<1> DEFINE Listing == {"retryJobs", "retryItems", "finish"}
<1>1. CASE pc'[k] \notin Listing
  BY <1>1 DEF ListKnows
<1>2. CASE /\ UNCHANGED <<job, item, batch, retried>>
           /\ pc'[k] = pc[k] /\ retrying'[k] = retrying[k]
  BY <1>2 DEF ListKnows, Items_
<1>3. ASSUME NEW self, k \notin self, Apart(self), pc'[k] = pc[k], retrying'[k] = retrying[k]
      PROVE  ListKnows(k)'
  <2>1. CASE pc[k] \in Listing
    BY <1>2, <1>3, <2>1, ListAlone
  <2> QED
    BY <1>1, <1>3, <2>1
<1>4. CASE WorkerStep(k)
  <2>1. CASE AdvanceRead(k)
    <3>1. CASE Held
      BY <1>1, <1>a, <2>1, <3>1 DEF AdvanceRead, Goto, WorkerTypes
    <3>2. CASE ~Held
      <4>1. /\ retrying'[k] = Retryable /\ UNCHANGED <<job, item, batch, retried>>
            /\ pc'[k] \in {"retryJobs", "finish"}
        BY <1>a, <2>1, <3>2 DEF AdvanceRead, Goto, WorkerTypes, columns
      <4>2. \A j \in Retryable : retried[j] = 0
        BY <1>a DEF Retryable, Items_, ColumnTypes
      <4>3. batch \notin {"paused", "gone"} /\ Items_("queued") = {} /\ Items_("running") = {}
        BY <3>2 DEF Held
      <4> QED
        BY <4>1, <4>2, <4>3 DEF ListKnows, Items_
    <3> QED
      BY <3>1, <3>2
  <2>2. CASE AdvanceRetryJobs(k)
    <3> DEFINE j == Min(retrying[k])
    <3>1. pc[k] = "retryJobs" /\ retrying[k] # {} /\ j \in Items
      BY <2>2, RetryingFirst DEF AdvanceRetryJobs
    <3>2. batch \notin {"paused", "gone"} /\ \A m \in retrying[k] : retried[m] = 0
      BY <3>1 DEF ListKnows
    <3>3. /\ job' = [job EXCEPT ![j] = "queued"] /\ pc' = [pc EXCEPT ![k] = "retryItems"]
          /\ UNCHANGED <<batch, retried, retrying>>
      BY <2>2, <3>2 DEF AdvanceRetryJobs, Job, Goto
    <3> HIDE DEF j
    <3>4. job'[j] = "queued" /\ pc'[k] = "retryItems"
      BY <1>a, <3>1, <3>3 DEF ColumnTypes, WorkerTypes
    <3> QED
      BY <3>1, <3>2, <3>3, <3>4 DEF ListKnows, j
  <2>3. CASE AdvanceRetryItems(k)
    <3> DEFINE j == Min(retrying[k])
    <3>1. /\ pc[k] = "retryItems" /\ pc' = [pc EXCEPT ![k] = "retryJobs"]
          /\ batch \notin {"paused", "gone"} /\ \A m \in retrying[k] : retried[m] = 0
          /\ batch' = batch /\ retried' = [retried EXCEPT ![j] = @ + 1]
          /\ retrying' = [retrying EXCEPT ![k] = @ \ {j}]
      BY <2>3 DEF AdvanceRetryItems, ListKnows, Goto
    <3> HIDE DEF j
    <3>2. pc'[k] = "retryJobs" /\ retrying'[k] = retrying[k] \ {j} /\ retrying[k] \subseteq Items
      BY <1>a, <3>1 DEF WorkerTypes
    <3>3. \A m \in retrying'[k] : retried'[m] = 0
      BY <1>a, <3>1, <3>2 DEF ColumnTypes
    <3> QED
      BY <3>1, <3>2, <3>3 DEF ListKnows
  <2>4. CASE AdvanceRetryBatch(k) \/ AdvanceFinish(k) \/ WorkerAfter(k) \/ WorkerUnlist(k) \/ WorkerFailItem(k)
    <3>1. pc'[k] \in {"unlist", "advance", "none", "after"}
      BY <1>a, <2>4 DEF AdvanceRetryBatch, AdvanceFinish, WorkerAfter, WorkerUnlist, WorkerFailItem, Goto,
                        WorkerTypes
    <3> QED
      BY <1>1, <3>1
  <2>5. CASE WorkerStart(k) \/ WorkerStopped(k) \/ WorkerItemStopped(k) \/ WorkerItem(k) \/ WorkerError(k)
    <3>1. pc'[k] \in {"after", "work", "itemPaused", "itemCancelled", "fail"}
      BY <1>a, <2>5 DEF WorkerStart, WorkerStopped, WorkerItemStopped, WorkerItem, WorkerError, Goto,
                        WorkerTypes
    <3> QED
      BY <1>1, <3>1
  <2>6. CASE WorkerProgress(k) \/ WorkerCommit(k) \/ WorkerFail(k)
    <3>1. pc'[k] \in {"work", "item", "error", "failItem"}
      BY <1>a, <2>6 DEF WorkerProgress, WorkerCommit, WorkerFail, Goto, WorkerTypes
    <3> QED
      BY <1>1, <3>1
  <2> QED
    BY <1>4, <2>1, <2>2, <2>3, <2>4, <2>5, <2>6 DEF WorkerStep, Advance
<1>5. ASSUME NEW i \in Items, i # k, WorkerStep(i), Apart({i}) PROVE ListKnows(k)'
  BY <1>3, <1>5, <1>a, WorkerKeeps
<1>6. CASE Claim /\ Apart({})
  BY <1>3, <1>6, ClaimIs
<1>7. CASE Launch /\ Apart({})
  <2>1. (pc'[k] = pc[k] \/ pc'[k] = "start") /\ retrying' = retrying
    BY <1>7, <1>a DEF Launch, WorkerTypes
  <2> QED
    BY <1>1, <1>3, <1>7, <2>1
<1>8. ASSUME NEW i \in Items, ResumerStarts(i), Apart({}) PROVE ListKnows(k)'
  BY <1>3, <1>8 DEF ResumerStarts
<1>9. CASE CommandStep /\ Apart({0})
  <2>1. k \notin {0} /\ pc' = pc /\ retrying' = retrying
    BY <1>9, <1>a, CommandKeepsRest, CountAssumption DEF CommandKeeps, Items
  <2> QED
    BY <1>3, <1>9, <2>1
<1>10. CASE Clicks
  BY <1>2, <1>10, ClickIs DEF columns
<1>11. CASE UNCHANGED vars
  BY <1>2, <1>11 DEF vars, steps, columns
<1> QED
  BY <1>4, <1>5, <1>6, <1>7, <1>8, <1>9, <1>10, <1>11, Steps

\* An item that a worker retries has not been retried by anybody.
LEMMA RetriedStep ==
    ASSUME TypeOK, WaitsForItem, [Next]_vars, ~torn', \A i \in Items : retried[i] <= 1 /\ ListKnows(i)
    PROVE  \A i \in Items : retried'[i] <= 1
<1>a. ColumnTypes /\ WorkerTypes /\ CommandType
  BY TypeParts
<1>1. CASE retried' = retried
  BY <1>1
<1>2. ASSUME NEW k \in Items, WorkerStep(k) PROVE \A i \in Items : retried'[i] <= 1
  <2>1. CASE AdvanceRetryItems(k)
    <3> DEFINE j == Min(retrying[k])
    <3>1. (pc[k] = "retryItems" /\ retried' = [retried EXCEPT ![j] = @ + 1]) \/ retried' = retried
      BY <2>1 DEF AdvanceRetryItems
    <3>2. pc[k] = "retryItems" => j \in Items /\ retried[j] = 0
      BY RetryingFirst DEF ListKnows
    <3> HIDE DEF j
    <3> QED
      BY <1>a, <3>1, <3>2 DEF ColumnTypes
  <2>2. CASE \/ WorkerStart(k) \/ WorkerProgress(k) \/ WorkerStopped(k) \/ WorkerItemStopped(k)
             \/ WorkerCommit(k) \/ WorkerItem(k) \/ WorkerError(k) \/ WorkerFail(k)
    BY <1>1, <2>2 DEF WorkerStart, WorkerProgress, WorkerStopped, WorkerItemStopped, WorkerCommit,
                      WorkerItem, WorkerError, WorkerFail, columns
  <2>3. CASE \/ WorkerFailItem(k) \/ WorkerAfter(k) \/ WorkerUnlist(k) \/ AdvanceRead(k)
             \/ AdvanceRetryJobs(k) \/ AdvanceRetryBatch(k) \/ AdvanceFinish(k)
    BY <1>1, <2>3 DEF WorkerFailItem, WorkerAfter, WorkerUnlist, AdvanceRead, AdvanceRetryJobs,
                      AdvanceRetryBatch, AdvanceFinish, columns
  <2> QED
    BY <1>2, <2>1, <2>2, <2>3 DEF WorkerStep, Advance
<1>3. CASE Claim \/ Launch \/ CommandStep \/ Clicks
  BY <1>1, <1>3, <1>a, ClaimIs, CommandKeepsRest, ClickIs DEF Launch, CommandKeeps, columns
<1>4. CASE \E k \in Items : ResumerStarts(k)
  BY <1>1, <1>4 DEF ResumerStarts
<1>5. CASE UNCHANGED vars
  BY <1>1, <1>5 DEF vars, steps, columns
<1> QED
  BY <1>2, <1>3, <1>4, <1>5, Steps

(***************************************************************************)
(* Every item whose columns differ is owed a statement.                    *)
(***************************************************************************)
\* A debt lasts as long as the columns of the item and those who owe stay as they are.
LEMMA ToldStays ==
    ASSUME TypeOK, NEW i \in Items, Told(i),
           job'[i] = job[i], item'[i] = item[i], cmd' = cmd, resumers'[i] = resumers[i],
           pc[i] \in {"item", "failItem"} => pc'[i] = pc[i],
           \A k \in Items : pc[k] = "retryItems" /\ Min(retrying[k]) = i =>
                                pc'[k] = pc[k] /\ retrying'[k] = retrying[k]
    PROVE  Told(i)'
<1>1. CASE Agree(i)
  BY <1>1 DEF Agree, Told
<1>2. CASE WorkerOwes(i)
  BY <1>2 DEF WorkerOwes, Told
<1>3. CASE ResumerOwes(i)
  BY <1>3 DEF ResumerOwes, Told
<1>4. CASE CommandOwes(i)
  BY <1>4 DEF CommandOwes, Told
<1>5. CASE RetryOwes(i)
  BY <1>5 DEF RetryOwes, Told
<1> QED
  BY <1>1, <1>2, <1>3, <1>4, <1>5 DEF Told

\* A worker that is not moving the playlist on pays its own debts.
LEMMA ToldByWorker ==
    ASSUME TypeOK, batch # "gone", NEW i \in Items, Told(i), ItemKnows(i), Apart({i}),
           WorkerStep(i), ~Advance(i)
    PROVE  Told(i)'
<1>a. ColumnTypes /\ WorkerTypes
  BY TypeParts
<1>b. cmd' = cmd /\ resumers' = resumers /\ \A k \in Items \ {i} : pc'[k] = pc[k] /\ retrying'[k] = retrying[k]
  BY <1>a, WorkerKeeps DEF Elsewhere
<1>c. ASSUME pc[i] # "retryItems", pc[i] \notin {"item", "failItem"}, job'[i] = job[i], item'[i] = item[i]
      PROVE  Told(i)'
  BY <1>b, <1>c, ToldStays
<1>d. Agree(i)' => Told(i)'
  BY DEF Told
<1>e. RetryOwes(i) \/ CommandOwes(i) => pc[i] = "retryItems" \/ UNCHANGED <<job, item>>
  <2>1. CASE CommandOwes(i)
    <3>1. cmd.pc # "idle" /\ 0 \notin {i}
      BY <2>1, CountAssumption DEF CommandOwes, Items
    <3> QED
      BY <3>1, CommandAlone
  <2>2. CASE RetryOwes(i)
    BY <2>2, ListAlone DEF RetryOwes
  <2> QED
    BY <2>1, <2>2
<1> USE DEF Goto, Job, Item, ColumnTypes, WorkerTypes
<1>1. CASE WorkerStart(i)
  <2>1. /\ pc[i] = "start"
        /\ job'[i] = IF job[i] = "queued" THEN "running" ELSE job[i]
        /\ \/ item'[i] = IF item[i] = "queued" THEN "running" ELSE item[i]
           \/ job'[i] = job[i] /\ item'[i] = item[i]
    BY <1>1, <1>a DEF WorkerStart, Stopped
  <2>2. CASE Agree(i)
    BY <1>d, <2>1, <2>2 DEF Agree, Over, Waiting
  <2>3. CASE ResumerOwes(i)
    BY <1>b, <2>1, <2>3 DEF ResumerOwes, Over, Told
  <2>4. CASE RetryOwes(i) \/ CommandOwes(i)
    BY <1>c, <1>e, <2>1, <2>4
  <2> QED
    BY <2>1, <2>2, <2>3, <2>4 DEF Told, WorkerOwes
<1>2. CASE WorkerProgress(i)
  <2>1. job[i] = "running" /\ job'[i] = "running" /\ item'[i] = "running"
    BY <1>2, <1>a DEF WorkerProgress
  <2> QED
    BY <1>d, <2>1 DEF Agree, Over, Waiting
<1>3. CASE WorkerItemStopped(i)
  <2>1. job'[i] = item'[i] /\ job'[i] \in {"paused", "cancelled"}
    BY <1>3, <1>a DEF WorkerItemStopped, ItemKnows
  <2> QED
    BY <1>d, <2>1 DEF Agree, Over, Waiting
<1>4. CASE WorkerCommit(i)
  <2>1. CASE job[i] = "running"
    <3>1. pc'[i] = "item" /\ job'[i] = "completed"
      BY <1>4, <1>a, <2>1 DEF WorkerCommit
    <3> QED
      BY <3>1 DEF WorkerOwes, Told
  <2>2. CASE job[i] # "running"
    BY <1>4, <1>c, <2>2 DEF WorkerCommit
  <2> QED
    BY <2>1, <2>2
<1>5. CASE WorkerItem(i)
  <2>1. job[i] = "completed" /\ job'[i] = "completed" /\ item'[i] = "completed"
    BY <1>5, <1>a DEF WorkerItem, ItemKnows
  <2> QED
    BY <1>d, <2>1 DEF Agree, Waiting
<1>6. CASE WorkerFail(i)
  <2>1. pc'[i] = "failItem" /\ job'[i] = "failed"
    BY <1>6, <1>a DEF WorkerFail
  <2> QED
    BY <2>1 DEF WorkerOwes, Told
<1>7. CASE WorkerFailItem(i)
  <2>1. job'[i] = "failed" /\ item'[i] = "failed"
    BY <1>7, <1>a DEF WorkerFailItem, ItemKnows
  <2> QED
    BY <1>d, <2>1 DEF Agree, Waiting
<1>8. CASE WorkerStopped(i) \/ WorkerError(i) \/ WorkerAfter(i) \/ WorkerUnlist(i)
  BY <1>8, <1>c DEF WorkerStopped, WorkerError, WorkerAfter, WorkerUnlist, columns
<1> QED
  BY <1>1, <1>2, <1>3, <1>4, <1>5, <1>6, <1>7, <1>8 DEF WorkerStep

\* A worker that moves the playlist on owes the item of the row it has just queued again.
LEMMA ToldByAdvance ==
    ASSUME TypeOK, batch # "gone", NEW i \in Items, Told(i), NEW k \in Items, ListKnows(k),
           WorkerStep(k), Advance(k)
    PROVE  Told(i)'
<1>a. ColumnTypes /\ WorkerTypes
  BY TypeParts
<1>b. cmd' = cmd /\ resumers' = resumers /\ \A m \in Items \ {k} : pc'[m] = pc[m] /\ retrying'[m] = retrying[m]
  BY <1>a, WorkerKeeps DEF Elsewhere
<1>c. pc[k] \in {"advance", "retryJobs", "retryItems", "finish"}
  BY DEF Advance, AdvanceRead, AdvanceRetryJobs, AdvanceRetryItems, AdvanceRetryBatch, AdvanceFinish
<1>1. CASE AdvanceRead(k) \/ AdvanceRetryBatch(k) \/ AdvanceFinish(k)
  <2>1. pc[k] # "retryItems" /\ job' = job /\ item' = item
    BY <1>1 DEF AdvanceRead, AdvanceRetryBatch, AdvanceFinish, columns
  <2> QED
    BY <1>b, <1>c, <2>1, ToldStays
<1> DEFINE j == Min(retrying[k])
<1>2. CASE AdvanceRetryJobs(k)
  <2>1. /\ pc[k] = "retryJobs" /\ j \in Items /\ job' = [job EXCEPT ![j] = "queued"]
        /\ pc' = [pc EXCEPT ![k] = "retryItems"] /\ UNCHANGED <<item, retrying>>
    BY <1>2, RetryingFirst DEF AdvanceRetryJobs, Job, Goto
  <2>2. CASE j = i
    <3>1. pc'[k] = "retryItems" /\ Min(retrying'[k]) = i /\ job'[i] = "queued"
      BY <1>a, <2>1, <2>2 DEF ColumnTypes, WorkerTypes
    <3> QED
      BY <3>1 DEF RetryOwes, Told
  <2>3. CASE j # i
    <3> HIDE DEF j
    <3>1. job'[i] = job[i] /\ item'[i] = item[i]
      BY <1>a, <2>1, <2>3 DEF ColumnTypes
    <3> QED
      BY <1>b, <2>1, <3>1, ToldStays
  <2> QED
    BY <2>2, <2>3
<1>3. CASE AdvanceRetryItems(k)
  <2>1. pc[k] = "retryItems" /\ item' = [item EXCEPT ![j] = "queued"] /\ job' = job /\ job[j] = "queued"
    BY <1>3 DEF AdvanceRetryItems, Item, ListKnows
  <2>2. CASE j = i
    <3>1. job'[i] = "queued" /\ item'[i] = "queued"
      BY <1>a, <2>1, <2>2 DEF ColumnTypes
    <3> QED
      BY <3>1 DEF Agree, Over, Waiting, Told
  <2>3. CASE j # i
    <3>1. job'[i] = job[i] /\ item'[i] = item[i]
      BY <1>a, <2>1, <2>3 DEF ColumnTypes
    <3> QED
      BY <1>b, <1>c, <2>1, <2>3, <3>1, ToldStays
  <2> QED
    BY <2>2, <2>3
<1> QED
  BY <1>1, <1>2, <1>3 DEF Advance

\* Another item's worker leaves the item alone.
LEMMA ToldByOther ==
    ASSUME TypeOK, NEW i \in Items, Told(i), NEW k \in Items, k # i, WorkerStep(k), ~Advance(k)
    PROVE  Told(i)'
<1>a. ColumnTypes /\ WorkerTypes
  BY TypeParts
<1>b. cmd' = cmd /\ resumers' = resumers /\ \A m \in Items \ {k} : pc'[m] = pc[m] /\ retrying'[m] = retrying[m]
  BY <1>a, WorkerKeeps DEF Elsewhere
<1>c. \A f \in [Items -> JobStatuses] : \A s : [f EXCEPT ![k] = s][i] = f[i]
  OBVIOUS
<1>1. job'[i] = job[i] /\ item'[i] = item[i] /\ pc[k] # "retryItems"
  <2>1. CASE WorkerStart(k) \/ WorkerProgress(k) \/ WorkerStopped(k) \/ WorkerItemStopped(k)
    BY <1>a, <1>c, <2>1 DEF WorkerStart, WorkerProgress, WorkerStopped, WorkerItemStopped, Job, Item, columns,
                            ColumnTypes
  <2>2. CASE WorkerCommit(k) \/ WorkerItem(k) \/ WorkerError(k) \/ WorkerFail(k)
    BY <1>a, <1>c, <2>2 DEF WorkerCommit, WorkerItem, WorkerError, WorkerFail, Job, Item, columns, ColumnTypes
  <2>3. CASE WorkerFailItem(k) \/ WorkerAfter(k) \/ WorkerUnlist(k)
    BY <1>a, <1>c, <2>3 DEF WorkerFailItem, WorkerAfter, WorkerUnlist, Job, Item, columns, ColumnTypes
  <2> QED
    BY <2>1, <2>2, <2>3 DEF WorkerStep
<1> QED
  BY <1>b, <1>1, ToldStays

\* A step of nobody's worker pays no debt of a worker or of a command, and makes none.
LEMMA ToldByDispatch ==
    ASSUME TypeOK, LaunchIsFree, batch # "gone", NEW i \in Items, Told(i), Apart({}),
           Claim \/ Launch \/ \E k \in Items : ResumerStarts(k)
    PROVE  Told(i)'
<1>a. ColumnTypes /\ WorkerTypes
  BY TypeParts
<1>b. RetryOwes(i) \/ CommandOwes(i) => UNCHANGED <<job, item>>
  BY CommandAlone, ListAlone DEF RetryOwes, CommandOwes
<1>1. CASE Claim
  <2>1. PICK k \in Items :
            /\ pc[k] = "none" /\ job[k] \in Waiting
            /\ job' = [job EXCEPT ![k] = "running"]
            /\ item' = IF item[k] = "queued" THEN [item EXCEPT ![k] = "running"] ELSE item
            /\ UNCHANGED <<pc, retrying, resumers, cmd>>
    BY <1>1, ClaimIs
  <2>2. CASE k # i
    <3>1. job'[i] = job[i] /\ item'[i] = item[i]
      BY <1>a, <2>1, <2>2 DEF ColumnTypes
    <3> QED
      BY <2>1, <3>1, ToldStays
  <2>3. CASE k = i
    <3>1. job'[i] = "running" /\ item'[i] = IF item[i] = "queued" THEN "running" ELSE item[i]
      BY <1>a, <2>1, <2>3 DEF ColumnTypes
    <3>2. CASE Agree(i)
      BY <2>1, <2>3, <3>1, <3>2 DEF Agree, Over, Waiting, Told
    <3>3. CASE ResumerOwes(i)
      BY <2>1, <3>1, <3>3 DEF ResumerOwes, Over, Told
    <3>4. CASE RetryOwes(i) \/ CommandOwes(i)
      BY <1>b, <2>1, <3>4, ToldStays
    <3> QED
      BY <2>1, <2>3, <3>2, <3>3, <3>4 DEF Told, WorkerOwes
  <2> QED
    BY <2>2, <2>3
<1>2. CASE Launch
  <2>1. /\ UNCHANGED <<job, item, cmd, resumers, retrying>>
        /\ \A k \in Items : pc[k] # "none" => pc'[k] = pc[k]
    BY <1>2, <1>a DEF Launch, columns, LaunchIsFree, WorkerTypes
  <2> QED
    BY <2>1, ToldStays
<1>3. ASSUME NEW k \in Items, ResumerStarts(k) PROVE Told(i)'
  <2>1. /\ pc[k] = "none" /\ resumers' = [resumers EXCEPT ![k] = @ - 1]
        /\ job' = IF job[k] \in {"completed", "cancelled"} THEN job ELSE [job EXCEPT ![k] = "running"]
        /\ item' = IF item[k] \in {"completed", "cancelled"} THEN item ELSE [item EXCEPT ![k] = "running"]
        /\ UNCHANGED <<pc, retrying, cmd>>
    BY <1>3 DEF ResumerStarts, Active, Job, Item
  <2>2. CASE k # i
    <3>1. job'[i] = job[i] /\ item'[i] = item[i] /\ resumers'[i] = resumers[i]
      BY <1>a, <2>1, <2>2 DEF ColumnTypes, WorkerTypes
    <3> QED
      BY <2>1, <3>1, ToldStays
  <2>3. CASE k = i
    <3>1. /\ job'[i] = IF job[i] \in {"completed", "cancelled"} THEN job[i] ELSE "running"
          /\ item'[i] = IF item[i] \in {"completed", "cancelled"} THEN item[i] ELSE "running"
      BY <1>a, <2>1, <2>3 DEF ColumnTypes
    <3>2. CASE Agree(i) \/ ResumerOwes(i)
      BY <3>1, <3>2 DEF Agree, ResumerOwes, Over, Waiting, Told
    <3>3. CASE CommandOwes(i)
      BY <1>b, <2>1, <3>3 DEF CommandOwes, Told
    <3>4. CASE RetryOwes(i)
      BY <1>b, <2>1, <3>4 DEF RetryOwes, Told
    <3> QED
      BY <2>1, <2>3, <3>2, <3>3, <3>4 DEF Told, WorkerOwes
  <2> QED
    BY <2>2, <2>3
<1> QED
  BY <1>1, <1>2, <1>3

\* A command leaves the items alone that a worker owes a statement.
LEMMA CommandLeaves ==
    ASSUME TypeOK, WaitsForItem, CommandStep, Apart({0}), NEW i \in Items, WorkerOwes(i) \/ RetryOwes(i)
    PROVE  Told(i)'
<1>a. pc' = pc /\ retrying' = retrying
  BY TypeParts, CommandKeepsRest DEF CommandKeeps
<1>b. 0 \notin Items
  BY CountAssumption DEF Items
<1>1. CASE WorkerOwes(i)
  <2>1. job'[i] = job[i]
    BY <1>1, <1>b DEF WorkerOwes, Apart, ItemWriters
  <2> QED
    BY <1>a, <1>1, <2>1 DEF WorkerOwes, Told
<1>2. CASE RetryOwes(i)
  <2>1. job' = job
    BY <1>b, <1>2, ListAlone DEF RetryOwes
  <2> QED
    BY <1>a, <1>2, <2>1 DEF RetryOwes, Told
<1> QED
  BY <1>1, <1>2

\* A command pays with a later statement what it owes, and with a resume thread the rest.
LEMMA ToldByCommand ==
    ASSUME TypeOK, WaitsForItem, CommandStep, Apart({0}), NEW i \in Items, CmdKnows(i),
           Agree(i) \/ ResumerOwes(i) \/ CommandOwes(i)
    PROVE  Told(i)'
<1>a. ColumnTypes /\ WorkerTypes /\ CommandType
  BY TypeParts
<1>j. job[i] \in JobStatuses /\ item[i] \in JobStatuses /\ resumers[i] \in Nat
  BY <1>a DEF ColumnTypes, WorkerTypes
<1> DEFINE Answered == Agree(i)' \/ ResumerOwes(i)' \/ CommandOwes(i)'
<1>k. Answered => Told(i)'
  BY DEF Told
<1> SUFFICES Answered
  BY <1>k
<1> DEFINE First == cmd.pc \notin {"cancelItem", "retryItems", "otherItem", "resumeItems"}
<1>f. First => Agree(i) \/ ResumerOwes(i)
  BY DEF CommandOwes
<1>s. ASSUME First, job'[i] = job[i], item'[i] = item[i], resumers'[i] = resumers[i] PROVE Answered
  BY <1>f, <1>s DEF Agree, ResumerOwes
<1> HIDE DEF Answered
<1> USE DEF Then, Done, NoCommand
<1>1. CASE PauseBatch \/ ResumeBatch \/ RetryBatch \/ DeleteWait
  BY <1>1, <1>s DEF PauseBatch, ResumeBatch, RetryBatch, DeleteWait
<1>2. CASE PauseJobs
  <2>1. First /\ item'[i] = item[i] /\ resumers'[i] = resumers[i]
    BY <1>2 DEF PauseJobs
  <2>2. job'[i] = IF job[i] \notin Over THEN "paused" ELSE job[i]
    BY <1>a, <1>2, SetIs DEF PauseJobs, ColumnTypes, JobStatuses
  <2> QED
    BY <1>f, <1>j, <2>1, <2>2 DEF Answered, Agree, ResumerOwes, Over, Waiting, JobStatuses
<1>3. CASE PauseItems
  <2>1. First /\ job'[i] = job[i] /\ resumers'[i] = resumers[i] /\ job[i] \notin Waiting
    BY <1>3 DEF PauseItems, CmdKnows
  <2>2. item'[i] = IF item[i] \notin Over THEN "paused" ELSE item[i]
    BY <1>a, <1>3, SetIs DEF PauseItems, ColumnTypes, JobStatuses
  <2> QED
    BY <1>f, <1>j, <2>1, <2>2 DEF Answered, Agree, ResumerOwes, Over, Waiting, JobStatuses
<1>4. CASE ResumeJobs
  <2>1. First /\ item'[i] = item[i] /\ resumers'[i] = resumers[i] /\ cmd'.pc = "resumeItems"
    BY <1>a, <1>4 DEF ResumeJobs, CommandType
  <2>2. job'[i] = IF job[i] = "paused" THEN "queued" ELSE job[i]
    BY <1>a, <1>4, SetIs DEF ResumeJobs, ColumnTypes, JobStatuses
  <2> QED
    BY <1>f, <1>j, <2>1, <2>2 DEF Answered, Agree, ResumerOwes, CommandOwes, Over, Waiting, JobStatuses
<1>5. CASE ResumeItems
  <2>1. job'[i] = job[i] /\ cmd.pc = "resumeItems"
    BY <1>5 DEF ResumeItems
  <2>2. resumers'[i] = resumers[i] \/ resumers'[i] = resumers[i] + 1
    BY <1>a, <1>5 DEF ResumeItems, WorkerTypes
  <2>3. item'[i] = IF item[i] = "paused" THEN "queued" ELSE item[i]
    BY <1>a, <1>5, SetIs DEF ResumeItems, ColumnTypes, JobStatuses, Items_
  <2>4. CASE Agree(i)
    BY <1>j, <2>1, <2>3, <2>4 DEF Answered, Agree, Over, Waiting, JobStatuses
  <2>5. CASE ResumerOwes(i)
    BY <1>j, <2>1, <2>2, <2>3, <2>5 DEF Answered, Agree, ResumerOwes, Over, Waiting, JobStatuses
  <2>6. CASE CommandOwes(i)
    BY <2>1, <2>3, <2>6 DEF Answered, Agree, CommandOwes, Over, Waiting
  <2> QED
    BY <2>4, <2>5, <2>6
<1>6. CASE RetryJobs
  <2>1. First /\ item'[i] = item[i] /\ resumers'[i] = resumers[i] /\ cmd'.pc = "retryItems"
    BY <1>a, <1>6 DEF RetryJobs, CommandType
  <2>2. job'[i] = IF item[i] = "failed" THEN "queued" ELSE job[i]
    BY <1>a, <1>6, SetIs DEF RetryJobs, ColumnTypes, JobStatuses, Items_
  <2> QED
    BY <1>f, <2>1, <2>2 DEF Answered, Agree, ResumerOwes, CommandOwes
<1>7. CASE RetryItems
  <2>1. cmd.pc = "retryItems" /\ job'[i] = job[i] /\ resumers'[i] = resumers[i]
    BY <1>7 DEF RetryItems
  <2>2. item'[i] = IF item[i] = "failed" THEN "queued" ELSE item[i]
    BY <1>a, <1>7, SetIs DEF RetryItems, ColumnTypes, JobStatuses, Items_
  <2>3. CASE item[i] = "failed"
    BY <2>1, <2>2, <2>3 DEF CmdKnows, Answered, Agree, Over, Waiting
  <2>4. CASE item[i] # "failed"
    BY <2>1, <2>2, <2>4 DEF CommandOwes, Answered, Agree, ResumerOwes
  <2> QED
    BY <2>3, <2>4
<1>8. CASE OtherJob
  <2>1. First /\ item'[i] = item[i] /\ resumers'[i] = resumers[i] /\ cmd'.pc = "otherItem" /\ cmd'.i = cmd.i
    BY <1>a, <1>8 DEF OtherJob, CommandType
  <2>2. job'[i] = IF i = cmd.i THEN "queued" ELSE job[i]
    BY <1>a, <1>8 DEF OtherJob, ColumnTypes
  <2>3. CASE i = cmd.i
    BY <2>1, <2>2, <2>3 DEF Answered, CommandOwes
  <2>4. CASE i # cmd.i
    BY <1>s, <2>1, <2>2, <2>4
  <2> QED
    BY <2>3, <2>4
<1>9. CASE OtherItem
  <2>1. cmd.pc = "otherItem" /\ job'[i] = job[i] /\ resumers'[i] = resumers[i]
    BY <1>9 DEF OtherItem
  <2>2. item'[i] = IF i = cmd.i THEN "queued" ELSE item[i]
    BY <1>a, <1>9 DEF OtherItem, ColumnTypes
  <2>3. CASE i = cmd.i
    BY <2>1, <2>2, <2>3 DEF CmdKnows, Answered, Agree, Over, Waiting
  <2>4. CASE i # cmd.i
    BY <2>1, <2>2, <2>4 DEF CommandOwes, Answered, Agree, ResumerOwes
  <2> QED
    BY <2>3, <2>4
<1>10. CASE PauseOne
  <2>1. First /\ item'[i] = item[i] /\ resumers'[i] = resumers[i]
    BY <1>10 DEF PauseOne
  <2>2. CASE (cmd.pc = "cancel" /\ job[cmd.i] = "completed") \/ i # cmd.i
    <3>1. job'[i] = job[i]
      BY <1>a, <1>10, <2>2 DEF PauseOne, ColumnTypes
    <3> QED
      BY <1>s, <2>1, <3>1
  <2>3. CASE cmd.pc = "pause" /\ i = cmd.i
    <3>1. job'[i] = "paused" /\ job[i] \in Waiting
      BY <1>a, <1>10, <2>3 DEF PauseOne, ColumnTypes, CmdKnows
    <3> QED
      BY <1>f, <2>1, <3>1 DEF Answered, Agree, ResumerOwes, Over, Waiting
  <2>4. CASE cmd.pc = "cancel" /\ job[cmd.i] # "completed" /\ i = cmd.i
    <3>1. job'[i] = "cancelled" /\ cmd'.pc = "cancelItem" /\ cmd'.i = i
      BY <1>a, <1>10, <2>4 DEF PauseOne, ColumnTypes, CommandType
    <3> QED
      BY <1>f, <2>1, <2>4, <3>1 DEF Answered, Agree, ResumerOwes, CommandOwes, Over
  <2> QED
    BY <1>10, <2>2, <2>3, <2>4 DEF PauseOne
<1>11. CASE PauseOneItem
  <2>1. cmd.pc \in {"pauseItem", "cancelItem"} /\ job'[i] = job[i] /\ resumers'[i] = resumers[i]
    BY <1>11 DEF PauseOneItem
  <2>2. CASE i # cmd.i
    <3>1. item'[i] = item[i]
      BY <1>a, <1>11, <2>2 DEF PauseOneItem, ColumnTypes
    <3> QED
      BY <2>1, <2>2, <3>1 DEF CommandOwes, Answered, Agree, ResumerOwes
  <2>3. CASE i = cmd.i /\ cmd.pc = "pauseItem"
    <3>1. job[i] = "paused" /\ item[i] # "completed"
      BY <2>3 DEF CmdKnows, Agree, ResumerOwes, CommandOwes, Over
    <3>2. item'[i] = "paused"
      BY <1>a, <1>11, <2>3, <3>1 DEF PauseOneItem, ColumnTypes
    <3> QED
      BY <2>1, <3>1, <3>2 DEF Answered, Agree, Over, Waiting
  <2>4. CASE i = cmd.i /\ cmd.pc = "cancelItem"
    <3>1. job[i] = "cancelled" /\ item[i] # "completed"
      BY <2>4 DEF CmdKnows
    <3>2. item'[i] = "cancelled"
      BY <1>a, <1>11, <2>4, <3>1 DEF PauseOneItem, ColumnTypes
    <3> QED
      BY <2>1, <3>1, <3>2 DEF Answered, Agree, Over, Waiting
  <2> QED
    BY <2>1, <2>2, <2>3, <2>4
<1>12. CASE ResumeOne
  <2>1. First /\ item'[i] = item[i]
    BY <1>12 DEF ResumeOne
  <2>2. CASE job[cmd.i] \in {"completed", "cancelled"} \/ i # cmd.i
    <3>1. job'[i] = job[i] /\ resumers'[i] = resumers[i]
      BY <1>a, <1>12, <2>2 DEF ResumeOne, ColumnTypes, WorkerTypes
    <3> QED
      BY <1>s, <2>1, <3>1
  <2>3. CASE job[cmd.i] \notin {"completed", "cancelled"} /\ i = cmd.i
    <3>1. job'[i] = "queued" /\ resumers'[i] > 0
      BY <1>a, <1>12, <2>3 DEF ResumeOne, ColumnTypes, WorkerTypes
    <3> QED
      BY <1>f, <1>j, <2>1, <2>3, <3>1 DEF Answered, Agree, ResumerOwes, Over, Waiting, JobStatuses
  <2> QED
    BY <2>2, <2>3
<1>13. CASE DeleteStop
  <2>1. First /\ resumers'[i] = resumers[i]
    BY <1>13 DEF DeleteStop
  <2>2. CASE job' = job /\ item' = item
    BY <1>s, <2>1, <2>2
  <2>3. CASE /\ job[cmd.i] # "completed" /\ cmd.i \in Items /\ job' = [job EXCEPT ![cmd.i] = "cancelled"]
             /\ item' = IF item[cmd.i] = "completed" THEN item ELSE [item EXCEPT ![cmd.i] = "cancelled"]
    <3>1. CASE i # cmd.i
      <4>1. job'[i] = job[i] /\ item'[i] = item[i]
        BY <1>a, <2>3, <3>1 DEF ColumnTypes
      <4> QED
        BY <1>s, <2>1, <4>1
    <3>2. CASE i = cmd.i
      <4>1. item[i] # "completed"
        BY <1>f, <2>1, <2>3, <3>2 DEF Agree, ResumerOwes, Over
      <4>2. job'[i] = "cancelled" /\ item'[i] = "cancelled"
        BY <1>a, <2>3, <3>2, <4>1 DEF ColumnTypes
      <4> QED
        BY <4>2 DEF Answered, Agree, Waiting
    <3> QED
      BY <3>1, <3>2
  <2> QED
    <3>1. cmd.open \in SUBSET Items /\ Active \in SUBSET Items
      BY <1>a DEF CommandType, Active
    <3> QED
      BY <1>13, <2>2, <2>3, <3>1 DEF DeleteStop
<1>14. CASE DeleteRows
  <2>1. job'[i] = "cancelled" /\ item'[i] = "cancelled"
    BY <1>a, <1>14, SetIs DEF DeleteRows, ColumnTypes, JobStatuses
  <2> QED
    BY <2>1 DEF Answered, Agree, Waiting
<1> QED
  BY <1>1, <1>2, <1>3, <1>4, <1>5, <1>6, <1>7, <1>8, <1>9, <1>10, <1>11, <1>12, <1>13, <1>14 DEF CommandStep

\* The debts are told after every step.
LEMMA ToldStep ==
    ASSUME TypeOK, WaitsForItem, LaunchIsFree, [Next]_vars, ~torn', batch # "gone",
           \A k \in Items : ListKnows(k), NEW i \in Items, ItemKnows(i), CmdKnows(i), Told(i)
    PROVE  Told(i)'
<1>1. CASE (Claim \/ Launch \/ \E k \in Items : ResumerStarts(k)) /\ Apart({})
  BY <1>1, ToldByDispatch
<1>2. ASSUME NEW k \in Items, WorkerStep(k), Apart({k}) PROVE Told(i)'
  <2>1. CASE Advance(k)
    BY <1>2, <2>1, ToldByAdvance
  <2>2. CASE k = i /\ ~Advance(k)
    BY <1>2, <2>2, ToldByWorker
  <2>3. CASE k # i /\ ~Advance(k)
    BY <1>2, <2>3, ToldByOther
  <2> QED
    BY <2>1, <2>2, <2>3
<1>3. CASE CommandStep /\ Apart({0})
  BY <1>3, CommandLeaves, ToldByCommand DEF Told
<1>4. CASE Clicks
  <2>1. UNCHANGED <<job, item, pc, retrying, resumers>> /\ cmd.pc = "idle"
    BY <1>4, ClickIs DEF columns
  <2>2. ~CommandOwes(i)
    BY <2>1 DEF CommandOwes
  <2> QED
    BY <2>1, <2>2 DEF Told, Agree, WorkerOwes, ResumerOwes, RetryOwes
<1>5. CASE UNCHANGED vars
  BY <1>5, ToldStays DEF vars, steps, columns
<1> QED
  BY <1>1, <1>2, <1>3, <1>4, <1>5, Steps

(***************************************************************************)
(* The theorems.                                                           *)
(***************************************************************************)
\* The invariant holds at first.
LEMMA PlaylistInit == ASSUME Init PROVE PlaylistInv
<1>1. TypeOK
  <2>1. ColumnTypes /\ WorkerTypes
    BY CountAssumption DEF Init, ColumnTypes, WorkerTypes, WorkerPoints, JobStatuses, BatchStatuses
  <2>a. cmd = [pc |-> "idle", i |-> 0, open |-> {}] /\ torn \in BOOLEAN /\ ops \in Nat
    BY DEF Init, NoCommand
  <2>b. 0 \in 0 .. Count + 1 /\ "idle" \in CommandPoints
    BY CountAssumption DEF CommandPoints
  <2>2. CommandType /\ torn \in BOOLEAN /\ ops \in Nat
    BY <2>a, <2>b DEF CommandType
  <2> QED
    BY <2>1, <2>2, TypeParts
<1>2. \A i \in Items : ItemKnows(i) /\ ListKnows(i) /\ CmdKnows(i) /\ Agree(i)
  BY DEF Init, ItemKnows, ListKnows, CmdKnows, NoCommand, Agree, Over
<1>3. \A i \in Items : retried[i] <= 1 /\ Told(i)
  BY <1>2 DEF Init, Told
<1>4. LaunchIsFree /\ WaitsForItem /\ GoneIsOver
  BY DEF Init, LaunchIsFree, WaitsForItem, GoneIsOver, NoCommand
<1> QED
  BY <1>1, <1>2, <1>3, <1>4 DEF PlaylistInv, Known

\* The invariant is kept by every step: a step that mixes statements ends what is known.
LEMMA PlaylistStep == ASSUME PlaylistInv, [Next]_vars PROVE PlaylistInv'
<1>1. TypeOK /\ LaunchIsFree /\ WaitsForItem /\ GoneIsOver /\ (~torn => Known)
  BY DEF PlaylistInv
<1>2. TypeOK' /\ LaunchIsFree' /\ WaitsForItem' /\ GoneIsOver'
  BY <1>1, TypeStep, LaunchStep, GoneStep
<1>3. ASSUME ~torn' PROVE Known'
  <2>1. ~torn
    BY <1>1, <1>3, Steps DEF Apart
  <2>2. /\ \A i \in Items : retried[i] <= 1 /\ ListKnows(i) /\ Told(i)
        /\ batch # "gone" => \A i \in Items : ItemKnows(i) /\ CmdKnows(i)
    BY <1>1, <2>1 DEF Known
  <2>3. \A i \in Items : retried'[i] <= 1 /\ ListKnows(i)'
    BY <1>1, <1>3, <2>2, RetriedStep, ListKnowsStep
  <2>4. ASSUME NEW i \in Items PROVE Told(i)'
    <3>1. CASE batch = "gone"
      <4>1. job'[i] = "cancelled" /\ item'[i] = "cancelled"
        BY <1>1, <3>1, GoneStays
      <4> QED
        BY <4>1 DEF Told, Agree, Waiting
    <3>2. CASE batch # "gone"
      BY <1>1, <1>3, <2>2, <3>2, ToldStep
    <3> QED
      BY <3>1, <3>2
  <2>5. ASSUME batch' # "gone", NEW i \in Items PROVE ItemKnows(i)' /\ CmdKnows(i)'
    <3>1. batch # "gone"
      BY <1>1, <2>5, GoneStays
    <3> QED
      BY <1>1, <1>3, <2>2, <2>5, <3>1, ItemKnowsStep, CmdKnowsStep
  <2> QED
    BY <2>3, <2>4, <2>5 DEF Known
<1> QED
  BY <1>2, <1>3 DEF PlaylistInv

\* The states are well typed, and what each writer knows is so, whatever the workers, the
\* dispatcher, the resume threads, the commands and crashes do.
THEOREM PlaylistInvariant == Spec => []PlaylistInv
<1>1. Init => PlaylistInv
  BY PlaylistInit
<1>2. PlaylistInv /\ [Next]_vars => PlaylistInv'
  BY PlaylistStep
<1> QED
  BY <1>1, <1>2, PTL DEF Spec

\* As long as the statements of two writers have not mixed, an item is retried once by
\* itself, and in a calm state nobody owes an item a statement: the row of each job and
\* its item tell the same end, for any playlist and any number of slots.
THEOREM PlaylistIsSafe == Spec => []PlaylistSafe
<1>1. PlaylistInv => PlaylistSafe
  <2> SUFFICES ASSUME PlaylistInv PROVE PlaylistSafe
    OBVIOUS
  <2>1. TypeOK /\ (~torn => Known)
    BY DEF PlaylistInv
  <2>2. RetriedOnce
    BY <2>1 DEF Known, RetriedOnce
  <2>3. ASSUME Calm, ~torn, NEW i \in Items PROVE Agree(i)
    <3>1. Told(i)
      BY <2>1, <2>3 DEF Known
    <3>2. cmd.pc = "idle" /\ resumers[i] = 0 /\ \A k \in Items : pc[k] = "none"
      BY <2>3 DEF Calm, Active
    <3> QED
      BY <3>1, <3>2 DEF Told, WorkerOwes, ResumerOwes, CommandOwes, RetryOwes
  <2>4. ColumnsAgree
    BY <2>3 DEF ColumnsAgree, Agree
  <2> QED
    BY <2>1, <2>2, <2>4 DEF PlaylistSafe
<1> QED
  BY <1>1, PlaylistInvariant, PTL

\* Who moves the status of the playlist, and when.
LEMMA BatchMoves ==
    ASSUME PlaylistInv, [Next]_vars, ~torn', batch' # batch
    PROVE  \/ Claim
           \/ cmd.pc # "idle" /\ CommandStep /\ Apart({0})
           \/ \E k \in Items : /\ Apart({k}) /\ WorkerStep(k) /\ ListKnows(k)
                               /\ pc[k] \in {"retryJobs", "finish"}
<1>1. TypeOK /\ WaitsForItem /\ ColumnTypes /\ WorkerTypes /\ CommandType
  BY TypeParts DEF PlaylistInv
<1>2. ~torn /\ \A k \in Items : ListKnows(k)
  BY <1>1, Steps DEF Apart, PlaylistInv, Known
<1>3. ASSUME NEW k \in Items, WorkerStep(k) PROVE pc[k] \in {"retryJobs", "finish"}
  BY <1>3, WorkerBatch
<1>4. ~Launch /\ ~Clicks /\ ~UNCHANGED vars /\ \A k \in Items : ~ResumerStarts(k)
  BY <1>1, ClickIs DEF Launch, columns, vars, steps, ResumerStarts
<1>5. CommandStep => cmd.pc # "idle"
  BY <1>1, CommandKeepsRest
<1> QED
  BY <1>1, <1>2, <1>3, <1>4, <1>5, Steps

\* A worker that ends does not move a paused playlist.
LEMMA PauseHolds ==
    ASSUME PlaylistInv, [Next]_vars, batch = "paused", batch' # "paused"
    PROVE  torn' \/ cmd.pc # "idle" \/ claimed' # 0
<1> SUFFICES ASSUME ~torn' PROVE cmd.pc # "idle" \/ claimed' # 0
  OBVIOUS
<1>1. CASE Claim
  BY <1>1, ClaimIs, CountAssumption DEF Items
<1>2. CASE \E k \in Items : ListKnows(k) /\ pc[k] \in {"retryJobs", "finish"}
  BY <1>2 DEF ListKnows
<1> QED
  BY <1>1, <1>2, BatchMoves

\* Who declares the playlist finished has counted its items.
LEMMA FinishCounts ==
    ASSUME PlaylistInv, [Next]_vars, batch' \in Finished, batch' # batch, ~torn',
           NEW i \in Items, job[i] \in Waiting
    PROVE  resumers[i] > 0
<1>0. TypeOK /\ WaitsForItem /\ Told(i)
  <2>1. TypeOK /\ WaitsForItem
    BY DEF PlaylistInv
  <2> QED
    BY <2>1, Steps DEF PlaylistInv, Known, Apart
<1>1. ~Claim
  BY ClaimIs DEF Finished
<1>2. ~CommandStep
  <2>1. CommandStep => batch' \in {batch, "paused", "running", "queued", "gone"}
    BY DEF CommandStep, PauseBatch, PauseJobs, PauseItems, ResumeBatch, ResumeJobs, ResumeItems, RetryJobs,
           RetryItems, RetryBatch, OtherJob, OtherItem, PauseOne, PauseOneItem, ResumeOne, DeleteStop,
           DeleteWait, DeleteRows
  <2> QED
    BY <2>1 DEF Finished
<1>3. PICK k \in Items : Apart({k}) /\ WorkerStep(k) /\ ListKnows(k) /\ pc[k] \in {"retryJobs", "finish"}
  BY <1>1, <1>2, BatchMoves
<1>4. pc[k] = "finish"
  <2>1. CASE pc[k] = "retryJobs"
    <3>1. AdvanceRetryJobs(k) \/ AdvanceRetryBatch(k)
      BY <1>3, <2>1 DEF WorkerStep, Advance, WorkerStart, WorkerProgress, WorkerStopped, WorkerItemStopped,
           WorkerCommit, WorkerItem, WorkerError, WorkerFail, WorkerFailItem, WorkerAfter, WorkerUnlist,
           AdvanceRead, AdvanceRetryItems, AdvanceFinish
    <3> QED
      BY <3>1 DEF AdvanceRetryJobs, AdvanceRetryBatch, Finished
  <2> QED
    BY <1>3, <2>1
<1>5. Items_("queued") = {} /\ Items_("running") = {}
  BY <1>3, <1>4 DEF ListKnows
<1>6. ~Agree(i) /\ ~WorkerOwes(i)
  BY <1>5 DEF Agree, Items_, Waiting, WorkerOwes
<1>7. columns' # columns /\ ListWriters \ {k} = {}
  BY <1>3 DEF Apart, columns
<1>8. ~CommandOwes(i)
  <2>1. cmd.pc = "idle"
    BY <1>7, CountAssumption DEF ListWriters, Items
  <2> QED
    BY <2>1 DEF CommandOwes
<1>9. ~RetryOwes(i)
  BY <1>4, <1>7 DEF RetryOwes, ListWriters
<1> QED
  BY <1>0, <1>6, <1>8, <1>9 DEF Told, ResumerOwes

\* As long as statements have not mixed, a worker that ends leaves a paused playlist
\* paused, and a playlist is declared finished only when no job of it waits or is being
\* downloaded, but for one resumed on its own a moment ago: with any number of items.
THEOREM BatchTellsTruth == Spec => BatchIsTruthful
<1>1. ASSUME PlaylistInv, [Next]_vars
      PROVE  batch = "paused" /\ batch' # "paused" => torn' \/ cmd.pc # "idle" \/ claimed' # 0
  BY <1>1, PauseHolds
<1>2. ASSUME PlaylistInv, [Next]_vars
      PROVE  batch' \in Finished /\ batch' # batch =>
                 torn' \/ \A i \in Items : job[i] \notin Waiting \/ resumers[i] > 0
  BY <1>2, FinishCounts
<1>3. Spec => PausedStays
  BY <1>1, PlaylistInvariant, PTL DEF Spec, PausedStays
<1>4. Spec => FinishedHasNoneWaiting
  BY <1>2, PlaylistInvariant, PTL DEF Spec, FinishedHasNoneWaiting
<1> QED
  BY <1>3, <1>4 DEF BatchIsTruthful
=============================================================================
