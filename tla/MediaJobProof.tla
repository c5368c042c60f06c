---------------------------- MODULE MediaJobProof ----------------------------
(***************************************************************************)
(* Theorems about MediaJob, for any number of worker identities, attempts, *)
(* commands, crashes, database failures and exits: its states are sound    *)
(* (MediaJobSafe) and its completions are earned (CompletionIsEarned).     *)
(***************************************************************************)
EXTENDS MediaJob, TLAPS

Withdrawn == {"cancelled", "deleting", "gone"}
NoWorkers == \A w \in Workers : pc[w] = "none"

\* A worker thread is listed, from launch to unlisting, until an exit empties the registry.
Listed == Leaving \/ registry \/ NoWorkers

\* A claim is taken with no worker about, and the row cannot be completed before the launch.
ClaimIsFree == dispatcher = "claimed" => Leaving \/ (status # "completed" /\ NoWorkers)

\* The child process of a worker.
ChildIsWatched ==
    \A w \in Workers :
        /\ child[w] = "running" => pc[w] \in {"spawned", "watch", "convert"}
        /\ child[w] # "none" => pc[w] \in ProcessPCs

\* What a command in progress knows of the row: nothing but a command withdraws it.
CommandKnows ==
    /\ cmd.pc # "idle" => status # "deleting"
    /\ cmd.pc \in {"pause", "resume", "stopRead", "stopWrite"} => status # "cancelled"
    /\ cmd.pc \in {"stopKill", "stopWait", "deleteKill", "deleteMark"} =>
           overridden \/ status \in Withdrawn

\* The cleanup and deletion threads are there only for a withdrawn row.
CleanersKnow ==
    /\ cleaner # "off" => overridden \/ status \in Withdrawn
    /\ deleter.pc # "off" => overridden \/ status \in {"deleting", "gone"}

\* Beside a completed row, a worker is recording it or on its way out; the item lags behind
\* only until it has been recorded.
CompletedRests ==
    /\ status = "completed" =>
           \/ Leaving
           \/ \A w \in Workers : pc[w] \in {"none", "record", "item", "unlist", "error"}
    /\ status = "completed" /\ item # "completed" =>
           \/ Leaving \/ torn
           \/ \E w \in Workers : pc[w] \in {"record", "item"}

\* A job left alone since the exit was asked for: nothing that could fail it is under way.
KeptIsAlone ==
    kept =>
        /\ quit # "off" /\ cmd.pc = "idle" /\ resumers.waiting = 0
        /\ \A w \in Workers : pc[w] # "fail"
        /\ status \in {"queued", "running", "completed"}

\* A worker that is about to rename its file has a name for it.
Named == \A w \in Workers : pc[w] = "rename" => final[w] # 0

\* The state of one job.
StateInv ==
    /\ TypeOK /\ Named /\ OneWorker /\ Listed /\ ClaimIsFree /\ ChildIsWatched /\ CommandKnows
    /\ CleanersKnow /\ CompletedRests /\ KeptIsAlone
    /\ orphan => NoRow
    /\ LiveWorkKeepsFiles

\* One worker at most has its download behind it, through the exit too: a process that is
\* started when the registry has been emptied does not come to a good end.
Late(w) == child[w] = "good" \/ pc[w] \in {"convert", "post", "place", "rename", "moved",
                                            "sweep", "commit", "record", "item"}
OneLate == \A v, w \in Workers : Late(v) /\ Late(w) => v = w

\* A worker that has renamed its file to the destination has it there, until a withdrawal.
FileIsThere ==
    \A w \in Workers :
        pc[w] \in {"moved", "sweep", "commit"} =>
            \/ final[w] \in dest \/ overridden \/ status \in {"deleting", "gone"}
            \/ cmd.pc = "deleteRow"

\* The inductive invariant.
MediaInv == StateInv /\ OneLate /\ FileIsThere

(***************************************************************************)
(* What one step of a worker can do, whatever the step.                    *)
(***************************************************************************)
\* It leaves the other workers, the commands and the detached threads alone; a worker that
\* stays keeps its job listed.
Moves(w) ==
    /\ pc[w] # "none"
    /\ \A u \in Workers \ {w} : pc'[u] = pc[u] /\ child'[u] = child[u] /\ final'[u] = final[u]
    /\ UNCHANGED <<dispatcher, cmd, resumers, cleaner, deleter, quit, kept>>
    /\ pc'[w] # "none" /\ registry => registry'
    /\ torn => torn'

\* A step that withdraws no row, and brings one back only as an override.
Respects ==
    /\ overridden => overridden'
    /\ status = "gone" => status' = "gone"
    /\ status \in Withdrawn => overridden' \/ status' = status
    /\ status' \in Withdrawn => status' = status

\* A worker step is the step of one worker that has been launched.
LEMMA WorkerMoves ==
    ASSUME TypeOK, NEW w \in Workers, WorkerStep(w) \/ WorkerDatabaseFails(w)
    PROVE  Moves(w)
<1> USE DEF TypeOK, WorkerPCs, BusyPCs, ProcessPCs, Moves, Goto, Child, row, files, local,
            threads, exit, Elsewhere, ElsewhereBut, KeepProcess
<1>1. CASE WorkerStart(w)
  BY <1>1 DEF WorkerStart
<1>2. CASE WorkerSpawn(w)
  BY <1>2 DEF WorkerSpawn
<1>3. CASE WorkerRegister(w)
  BY <1>3 DEF WorkerRegister
<1>4. CASE WorkerWatch(w)
  BY <1>4 DEF WorkerWatch
<1>5. CASE WorkerItemStopped(w)
  BY <1>5 DEF WorkerItemStopped
<1>6. CASE WorkerExited(w)
  BY <1>6 DEF WorkerExited
<1>7. CASE WorkerBackoff(w)
  BY <1>7 DEF WorkerBackoff
<1>8. CASE WorkerRefresh(w)
  BY <1>8 DEF WorkerRefresh
<1>9. CASE WorkerPost(w)
  BY <1>9 DEF WorkerPost
<1>10. CASE WorkerConvert(w)
  BY <1>10 DEF WorkerConvert
<1>11. CASE WorkerPlace(w)
  BY <1>11 DEF WorkerPlace
<1>12. CASE WorkerRename(w)
  BY <1>12 DEF WorkerRename
<1>13. CASE WorkerMoved(w)
  BY <1>13 DEF WorkerMoved
<1>14. CASE WorkerSweep(w)
  BY <1>14 DEF WorkerSweep
<1>15. CASE WorkerCommit(w)
  BY <1>15 DEF WorkerCommit
<1>16. CASE WorkerRecord(w)
  BY <1>16 DEF WorkerRecord
<1>17. CASE WorkerItem(w)
  BY <1>17 DEF WorkerItem
<1>18. CASE WorkerError(w)
  BY <1>18 DEF WorkerError
<1>19. CASE WorkerFail(w)
  BY <1>19 DEF WorkerFail
<1>20. CASE WorkerFailItem(w)
  BY <1>20 DEF WorkerFailItem
<1>21. CASE WorkerUnlist(w)
  BY <1>21 DEF WorkerUnlist
<1>22. CASE WorkerDatabaseFails(w)
  BY <1>22 DEF WorkerDatabaseFails
<1> QED
  BY <1>1, <1>2, <1>3, <1>4, <1>5, <1>6, <1>7, <1>8, <1>9, <1>10, <1>11,
     <1>12, <1>13, <1>14, <1>15, <1>16, <1>17, <1>18, <1>19, <1>20, <1>21, <1>22 DEF WorkerStep

\* A worker withdraws no row; the failure of one brings a withdrawn row back as an override.
LEMMA WorkerRespects ==
    ASSUME TypeOK, NEW w \in Workers, WorkerStep(w) \/ WorkerDatabaseFails(w)
    PROVE  Respects
<1> USE DEF TypeOK, Statuses, Respects, Withdrawn, Overriding, NoRow, Running, FailRow, Item,
            row, files, local, threads
<1>1. CASE WorkerStart(w)
  BY <1>1 DEF WorkerStart
<1>2. CASE WorkerSpawn(w)
  BY <1>2 DEF WorkerSpawn
<1>3. CASE WorkerRegister(w)
  BY <1>3 DEF WorkerRegister
<1>4. CASE WorkerWatch(w)
  BY <1>4 DEF WorkerWatch
<1>5. CASE WorkerItemStopped(w)
  BY <1>5 DEF WorkerItemStopped
<1>6. CASE WorkerExited(w)
  BY <1>6 DEF WorkerExited
<1>7. CASE WorkerBackoff(w)
  BY <1>7 DEF WorkerBackoff
<1>8. CASE WorkerRefresh(w)
  BY <1>8 DEF WorkerRefresh
<1>9. CASE WorkerPost(w)
  BY <1>9 DEF WorkerPost
<1>10. CASE WorkerConvert(w)
  BY <1>10 DEF WorkerConvert
<1>11. CASE WorkerPlace(w)
  BY <1>11 DEF WorkerPlace
<1>12. CASE WorkerRename(w)
  BY <1>12 DEF WorkerRename
<1>13. CASE WorkerMoved(w)
  BY <1>13 DEF WorkerMoved
<1>14. CASE WorkerSweep(w)
  BY <1>14 DEF WorkerSweep
<1>15. CASE WorkerCommit(w)
  BY <1>15 DEF WorkerCommit
<1>16. CASE WorkerRecord(w)
  BY <1>16 DEF WorkerRecord
<1>17. CASE WorkerItem(w)
  BY <1>17 DEF WorkerItem
<1>18. CASE WorkerError(w)
  BY <1>18 DEF WorkerError
<1>19. CASE WorkerFail(w)
  BY <1>19 DEF WorkerFail
<1>20. CASE WorkerFailItem(w)
  BY <1>20 DEF WorkerFailItem
<1>21. CASE WorkerUnlist(w)
  BY <1>21 DEF WorkerUnlist
<1>22. CASE WorkerDatabaseFails(w)
  BY <1>22 DEF WorkerDatabaseFails
<1> QED
  BY <1>1, <1>2, <1>3, <1>4, <1>5, <1>6, <1>7, <1>8, <1>9, <1>10, <1>11,
     <1>12, <1>13, <1>14, <1>15, <1>16, <1>17, <1>18, <1>19, <1>20, <1>21, <1>22 DEF WorkerStep

\* Where a worker step can lead: the status only along the life of a job, and the worker
\* into the work directory only for a row that is alive, or failed for another reason.
LEMMA WorkerLeads ==
    ASSUME TypeOK, NEW w \in Workers, WorkerStep(w) \/ WorkerDatabaseFails(w)
    PROVE  /\ status' # status =>
                  \/ pc[w] = "start" /\ status = "queued" /\ status' = "running"
                  \/ pc[w] = "commit" /\ pc'[w] = "record" /\ status = "running"
                        /\ status' = "completed" /\ UNCHANGED <<item, dest>>
                  \/ pc[w] = "fail" /\ status' = "failed"
           /\ pc'[w] = "fail" => quit = "off" /\ pc[w] # "fail"
           /\ pc'[w] \in BusyPCs =>
                  pc[w] \in BusyPCs \/ status \notin {"paused", "cancelled", "gone"}
           /\ orphan' => orphan \/ NoRow
<1> USE DEF TypeOK, WorkerPCs, BusyPCs, ProcessPCs, NoRow, Running, FailRow, Goto, row, files,
            Elsewhere, ElsewhereBut, KeepProcess, exit
<1>1. CASE WorkerStart(w)
  BY <1>1 DEF WorkerStart
<1>2. CASE WorkerSpawn(w)
  BY <1>2 DEF WorkerSpawn
<1>3. CASE WorkerRegister(w)
  BY <1>3 DEF WorkerRegister
<1>4. CASE WorkerWatch(w)
  BY <1>4 DEF WorkerWatch
<1>5. CASE WorkerItemStopped(w)
  BY <1>5 DEF WorkerItemStopped
<1>6. CASE WorkerExited(w)
  BY <1>6 DEF WorkerExited
<1>7. CASE WorkerBackoff(w)
  BY <1>7 DEF WorkerBackoff
<1>8. CASE WorkerRefresh(w)
  BY <1>8 DEF WorkerRefresh
<1>9. CASE WorkerPost(w)
  BY <1>9 DEF WorkerPost
<1>10. CASE WorkerConvert(w)
  BY <1>10 DEF WorkerConvert
<1>11. CASE WorkerPlace(w)
  BY <1>11 DEF WorkerPlace
<1>12. CASE WorkerRename(w)
  BY <1>12 DEF WorkerRename
<1>13. CASE WorkerMoved(w)
  BY <1>13 DEF WorkerMoved
<1>14. CASE WorkerSweep(w)
  BY <1>14 DEF WorkerSweep
<1>15. CASE WorkerCommit(w)
  BY <1>15 DEF WorkerCommit
<1>16. CASE WorkerRecord(w)
  BY <1>16 DEF WorkerRecord
<1>17. CASE WorkerItem(w)
  BY <1>17 DEF WorkerItem
<1>18. CASE WorkerError(w)
  BY <1>18 DEF WorkerError
<1>19. CASE WorkerFail(w)
  BY <1>19 DEF WorkerFail
<1>20. CASE WorkerFailItem(w)
  BY <1>20 DEF WorkerFailItem
<1>21. CASE WorkerUnlist(w)
  BY <1>21 DEF WorkerUnlist
<1>22. CASE WorkerDatabaseFails(w)
  BY <1>22 DEF WorkerDatabaseFails
<1> QED
  BY <1>1, <1>2, <1>3, <1>4, <1>5, <1>6, <1>7, <1>8, <1>9, <1>10, <1>11,
     <1>12, <1>13, <1>14, <1>15, <1>16, <1>17, <1>18, <1>19, <1>20, <1>21, <1>22 DEF WorkerStep

\* Types: those of the workers, then the rest.
LEMMA WorkerOwnTypes ==
    ASSUME TypeOK, NEW w \in Workers, WorkerStep(w) \/ WorkerDatabaseFails(w)
    PROVE  /\ pc' \in [Workers -> WorkerPCs]
           /\ child' \in [Workers -> {"none", "running", "good", "bad"}]
           /\ tries' \in [Workers -> 0 .. Attempts]
           /\ seen' \in [Workers -> {"queued", "paused", "cancelled"}]
           /\ final' \in [Workers -> Nat]
<1> USE AttemptsAssumption
    DEF TypeOK, WorkerPCs, BusyPCs, ProcessPCs, Goto, Child, local, Elsewhere, ElsewhereBut, KeepProcess
<1>1. CASE WorkerStart(w)
  BY <1>1 DEF WorkerStart
<1>2. CASE WorkerSpawn(w)
  BY <1>2 DEF WorkerSpawn
<1>3. CASE WorkerRegister(w)
  BY <1>3 DEF WorkerRegister
<1>4. CASE WorkerWatch(w)
  BY <1>4 DEF WorkerWatch
<1>5. CASE WorkerItemStopped(w)
  BY <1>5 DEF WorkerItemStopped
<1>6. CASE WorkerExited(w)
  BY <1>6 DEF WorkerExited
<1>7. CASE WorkerBackoff(w)
  BY <1>7 DEF WorkerBackoff
<1>8. CASE WorkerRefresh(w)
  BY <1>8 DEF WorkerRefresh
<1>9. CASE WorkerPost(w)
  BY <1>9 DEF WorkerPost
<1>10. CASE WorkerConvert(w)
  BY <1>10 DEF WorkerConvert
<1>11. CASE WorkerPlace(w)
  BY <1>11 DEF WorkerPlace, FreeName
<1>12. CASE WorkerRename(w)
  BY <1>12 DEF WorkerRename
<1>13. CASE WorkerMoved(w)
  BY <1>13 DEF WorkerMoved
<1>14. CASE WorkerSweep(w)
  BY <1>14 DEF WorkerSweep
<1>15. CASE WorkerCommit(w)
  BY <1>15 DEF WorkerCommit
<1>16. CASE WorkerRecord(w)
  BY <1>16 DEF WorkerRecord
<1>17. CASE WorkerItem(w)
  BY <1>17 DEF WorkerItem
<1>18. CASE WorkerError(w)
  BY <1>18 DEF WorkerError
<1>19. CASE WorkerFail(w)
  BY <1>19 DEF WorkerFail
<1>20. CASE WorkerFailItem(w)
  BY <1>20 DEF WorkerFailItem
<1>21. CASE WorkerUnlist(w)
  BY <1>21 DEF WorkerUnlist
<1>22. CASE WorkerDatabaseFails(w)
  BY <1>22 DEF WorkerDatabaseFails
<1> QED
  BY <1>1, <1>2, <1>3, <1>4, <1>5, <1>6, <1>7, <1>8, <1>9, <1>10, <1>11,
     <1>12, <1>13, <1>14, <1>15, <1>16, <1>17, <1>18, <1>19, <1>20, <1>21, <1>22 DEF WorkerStep

\* The row, the files and the registries; the names at the destination start at 1.
LEMMA WorkerTypes ==
    ASSUME TypeOK, Named, NEW w \in Workers, WorkerStep(w) \/ WorkerDatabaseFails(w)
    PROVE  /\ status' \in Statuses /\ item' \in Statuses
           /\ error' \in BOOLEAN /\ known' \in Nat
           /\ work' \subseteq {"partial", "file"} /\ dest' \subseteq Nat \ {0}
           /\ registry' \in BOOLEAN /\ extern' \subseteq Workers
           /\ orphan' \in BOOLEAN /\ overridden' \in BOOLEAN /\ torn' \in BOOLEAN
           /\ ops' \in Nat
<1> USE OpsAssumption
    DEF TypeOK, Named, Statuses, NoRow, Running, FailRow, Item, row, files, exit, Elsewhere, ElsewhereBut,
        KeepProcess, Overriding
<1>1. CASE WorkerStart(w)
  BY <1>1 DEF WorkerStart
<1>2. CASE WorkerSpawn(w)
  BY <1>2 DEF WorkerSpawn
<1>3. CASE WorkerRegister(w)
  BY <1>3 DEF WorkerRegister
<1>4. CASE WorkerWatch(w)
  BY <1>4 DEF WorkerWatch
<1>5. CASE WorkerItemStopped(w)
  BY <1>5 DEF WorkerItemStopped
<1>6. CASE WorkerExited(w)
  BY <1>6 DEF WorkerExited
<1>7. CASE WorkerBackoff(w)
  BY <1>7 DEF WorkerBackoff
<1>8. CASE WorkerRefresh(w)
  BY <1>8 DEF WorkerRefresh
<1>9. CASE WorkerPost(w)
  BY <1>9 DEF WorkerPost
<1>10. CASE WorkerConvert(w)
  BY <1>10 DEF WorkerConvert
<1>11. CASE WorkerPlace(w)
  BY <1>11 DEF WorkerPlace
<1>12. CASE WorkerRename(w)
  <2>1. final[w] \in Nat \ {0}
    BY <1>12 DEF WorkerRename
  <2>2. dest' \subseteq Nat \ {0}
    BY <1>12, <2>1 DEF WorkerRename
  <2>3. work' \subseteq {"partial", "file"}
    BY <1>12 DEF WorkerRename
  <2> QED
    BY <1>12, <2>2, <2>3 DEF WorkerRename
<1>13. CASE WorkerMoved(w)
  BY <1>13 DEF WorkerMoved
<1>14. CASE WorkerSweep(w)
  BY <1>14 DEF WorkerSweep
<1>15. CASE WorkerCommit(w)
  BY <1>15 DEF WorkerCommit
<1>16. CASE WorkerRecord(w)
  BY <1>16 DEF WorkerRecord
<1>17. CASE WorkerItem(w)
  BY <1>17 DEF WorkerItem
<1>18. CASE WorkerError(w)
  BY <1>18 DEF WorkerError
<1>19. CASE WorkerFail(w)
  BY <1>19 DEF WorkerFail
<1>20. CASE WorkerFailItem(w)
  BY <1>20 DEF WorkerFailItem
<1>21. CASE WorkerUnlist(w)
  BY <1>21 DEF WorkerUnlist
<1>22. CASE WorkerDatabaseFails(w)
  BY <1>22 DEF WorkerDatabaseFails
<1> QED
  BY <1>1, <1>2, <1>3, <1>4, <1>5, <1>6, <1>7, <1>8, <1>9, <1>10, <1>11,
     <1>12, <1>13, <1>14, <1>15, <1>16, <1>17, <1>18, <1>19, <1>20, <1>21, <1>22 DEF WorkerStep

\* Its child process runs under its eyes, and only a finished download leads on.
LEMMA WorkerWatches ==
    ASSUME TypeOK, ChildIsWatched, NEW w \in Workers, WorkerStep(w) \/ WorkerDatabaseFails(w)
    PROVE  /\ child'[w] = "running" => pc'[w] \in {"spawned", "watch", "convert"}
           /\ child'[w] # "none" => pc'[w] \in ProcessPCs
           /\ Late(w)' => Late(w)
<1> USE DEF TypeOK, WorkerPCs, BusyPCs, ProcessPCs, ChildIsWatched, Late, Goto, Child,
            Elsewhere,
            ElsewhereBut, KeepProcess
<1>1. CASE WorkerStart(w)
  BY <1>1 DEF WorkerStart
<1>2. CASE WorkerSpawn(w)
  BY <1>2 DEF WorkerSpawn
<1>3. CASE WorkerRegister(w)
  BY <1>3 DEF WorkerRegister
<1>4. CASE WorkerWatch(w)
  BY <1>4 DEF WorkerWatch
<1>5. CASE WorkerItemStopped(w)
  BY <1>5 DEF WorkerItemStopped
<1>6. CASE WorkerExited(w)
  BY <1>6 DEF WorkerExited
<1>7. CASE WorkerBackoff(w)
  BY <1>7 DEF WorkerBackoff
<1>8. CASE WorkerRefresh(w)
  BY <1>8 DEF WorkerRefresh
<1>9. CASE WorkerPost(w)
  BY <1>9 DEF WorkerPost
<1>10. CASE WorkerConvert(w)
  BY <1>10 DEF WorkerConvert
<1>11. CASE WorkerPlace(w)
  BY <1>11 DEF WorkerPlace
<1>12. CASE WorkerRename(w)
  BY <1>12 DEF WorkerRename
<1>13. CASE WorkerMoved(w)
  BY <1>13 DEF WorkerMoved
<1>14. CASE WorkerSweep(w)
  BY <1>14 DEF WorkerSweep
<1>15. CASE WorkerCommit(w)
  BY <1>15 DEF WorkerCommit
<1>16. CASE WorkerRecord(w)
  BY <1>16 DEF WorkerRecord
<1>17. CASE WorkerItem(w)
  BY <1>17 DEF WorkerItem
<1>18. CASE WorkerError(w)
  BY <1>18 DEF WorkerError
<1>19. CASE WorkerFail(w)
  BY <1>19 DEF WorkerFail
<1>20. CASE WorkerFailItem(w)
  BY <1>20 DEF WorkerFailItem
<1>21. CASE WorkerUnlist(w)
  BY <1>21 DEF WorkerUnlist
<1>22. CASE WorkerDatabaseFails(w)
  BY <1>22 DEF WorkerDatabaseFails
<1> QED
  BY <1>1, <1>2, <1>3, <1>4, <1>5, <1>6, <1>7, <1>8, <1>9, <1>10, <1>11,
     <1>12, <1>13, <1>14, <1>15, <1>16, <1>17, <1>18, <1>19, <1>20, <1>21, <1>22 DEF WorkerStep

\* Beside a completed row the item is touched only to complete it.
LEMMA WorkerRecords ==
    ASSUME TypeOK, NEW w \in Workers, WorkerStep(w) \/ WorkerDatabaseFails(w),
           status = "completed", pc[w] \in {"none", "record", "item", "unlist", "error"}
    PROVE  /\ pc'[w] \in {"none", "record", "item", "unlist", "error"}
           /\ item' \in {item, "completed"}
           /\ pc[w] \in {"record", "item"} =>
                  torn' \/ pc'[w] \in {"record", "item"} \/ item' = "completed"
           /\ dest' = dest
<1> USE DEF TypeOK, WorkerPCs, BusyPCs, ProcessPCs, Running, Goto, row, files, Elsewhere,
            ElsewhereBut,
            KeepProcess
<1>1. CASE WorkerStart(w)
  BY <1>1 DEF WorkerStart
<1>2. CASE WorkerSpawn(w)
  BY <1>2 DEF WorkerSpawn
<1>3. CASE WorkerRegister(w)
  BY <1>3 DEF WorkerRegister
<1>4. CASE WorkerWatch(w)
  BY <1>4 DEF WorkerWatch
<1>5. CASE WorkerItemStopped(w)
  BY <1>5 DEF WorkerItemStopped
<1>6. CASE WorkerExited(w)
  BY <1>6 DEF WorkerExited
<1>7. CASE WorkerBackoff(w)
  BY <1>7 DEF WorkerBackoff
<1>8. CASE WorkerRefresh(w)
  BY <1>8 DEF WorkerRefresh
<1>9. CASE WorkerPost(w)
  BY <1>9 DEF WorkerPost
<1>10. CASE WorkerConvert(w)
  BY <1>10 DEF WorkerConvert
<1>11. CASE WorkerPlace(w)
  BY <1>11 DEF WorkerPlace
<1>12. CASE WorkerRename(w)
  BY <1>12 DEF WorkerRename
<1>13. CASE WorkerMoved(w)
  BY <1>13 DEF WorkerMoved
<1>14. CASE WorkerSweep(w)
  BY <1>14 DEF WorkerSweep
<1>15. CASE WorkerCommit(w)
  BY <1>15 DEF WorkerCommit
<1>16. CASE WorkerRecord(w)
  BY <1>16 DEF WorkerRecord
<1>17. CASE WorkerItem(w)
  BY <1>17 DEF WorkerItem
<1>18. CASE WorkerError(w)
  BY <1>18 DEF WorkerError
<1>19. CASE WorkerFail(w)
  BY <1>19 DEF WorkerFail
<1>20. CASE WorkerFailItem(w)
  BY <1>20 DEF WorkerFailItem
<1>21. CASE WorkerUnlist(w)
  BY <1>21 DEF WorkerUnlist
<1>22. CASE WorkerDatabaseFails(w)
  BY <1>22 DEF WorkerDatabaseFails
<1> QED
  BY <1>1, <1>2, <1>3, <1>4, <1>5, <1>6, <1>7, <1>8, <1>9, <1>10, <1>11,
     <1>12, <1>13, <1>14, <1>15, <1>16, <1>17, <1>18, <1>19, <1>20, <1>21, <1>22 DEF WorkerStep

\* A worker that has renamed its file keeps it until it is recorded, and takes away no other.
LEMMA WorkerFiles ==
    ASSUME TypeOK, NEW w \in Workers, WorkerStep(w) \/ WorkerDatabaseFails(w)
    PROVE  /\ pc'[w] = "rename" => final'[w] # 0
           /\ pc'[w] \in {"moved", "sweep", "commit"} =>
                  /\ final'[w] = final[w]
                  /\ \/ pc[w] = "rename" /\ final[w] \in dest'
                     \/ pc[w] \in {"moved", "sweep"} /\ dest' = dest
           /\ dest' # dest => Late(w)
<1> USE DEF TypeOK, WorkerPCs, BusyPCs, ProcessPCs, Late, Running, Goto, row, files, local,
            Elsewhere,
            ElsewhereBut, KeepProcess
<1>1. CASE WorkerStart(w)
  BY <1>1 DEF WorkerStart
<1>2. CASE WorkerSpawn(w)
  BY <1>2 DEF WorkerSpawn
<1>3. CASE WorkerRegister(w)
  BY <1>3 DEF WorkerRegister
<1>4. CASE WorkerWatch(w)
  BY <1>4 DEF WorkerWatch
<1>5. CASE WorkerItemStopped(w)
  BY <1>5 DEF WorkerItemStopped
<1>6. CASE WorkerExited(w)
  BY <1>6 DEF WorkerExited
<1>7. CASE WorkerBackoff(w)
  BY <1>7 DEF WorkerBackoff
<1>8. CASE WorkerRefresh(w)
  BY <1>8 DEF WorkerRefresh
<1>9. CASE WorkerPost(w)
  BY <1>9 DEF WorkerPost
<1>10. CASE WorkerConvert(w)
  BY <1>10 DEF WorkerConvert
<1>11. CASE WorkerPlace(w)
  BY <1>11 DEF WorkerPlace, FreeName
<1>12. CASE WorkerRename(w)
  BY <1>12 DEF WorkerRename
<1>13. CASE WorkerMoved(w)
  BY <1>13 DEF WorkerMoved
<1>14. CASE WorkerSweep(w)
  BY <1>14 DEF WorkerSweep
<1>15. CASE WorkerCommit(w)
  BY <1>15 DEF WorkerCommit
<1>16. CASE WorkerRecord(w)
  BY <1>16 DEF WorkerRecord
<1>17. CASE WorkerItem(w)
  BY <1>17 DEF WorkerItem
<1>18. CASE WorkerError(w)
  BY <1>18 DEF WorkerError
<1>19. CASE WorkerFail(w)
  BY <1>19 DEF WorkerFail
<1>20. CASE WorkerFailItem(w)
  BY <1>20 DEF WorkerFailItem
<1>21. CASE WorkerUnlist(w)
  BY <1>21 DEF WorkerUnlist
<1>22. CASE WorkerDatabaseFails(w)
  BY <1>22 DEF WorkerDatabaseFails
<1> QED
  BY <1>1, <1>2, <1>3, <1>4, <1>5, <1>6, <1>7, <1>8, <1>9, <1>10, <1>11,
     <1>12, <1>13, <1>14, <1>15, <1>16, <1>17, <1>18, <1>19, <1>20, <1>21, <1>22 DEF WorkerStep

\* The commands keep their shape.
LEMMA CommandTypes ==
    ASSUME TypeOK, NEW p \in CommandPCs
    PROVE  /\ NoCommand \in Commands /\ [cmd EXCEPT !.pc = p] \in Commands
           /\ [cmd EXCEPT !.known = known, !.pc = p] \in Commands
BY DEF TypeOK, Commands, CommandPCs, NoCommand

\* A click starts a command and spends one of the bounded operations.
LEMMA ClickTypes ==
    ASSUME TypeOK, NEW shown, NEW first \in CommandPCs, NEW partial \in BOOLEAN,
           NEW storage \in BOOLEAN, Click(shown, first, partial, storage)
    PROVE  TypeOK'
<1>1. cmd' \in Commands
  BY DEF Click, Commands, CommandPCs, NoCommand
<1>2. ops' \in Nat
  BY DEF Click, TypeOK
<1>3. kept' \in BOOLEAN
  BY DEF Click
<1> QED
  BY <1>1, <1>2, <1>3 DEF Click, TypeOK, row, files, local

\* A step of any actor keeps every type, as long as the files about to be renamed have names.
LEMMA TypeStep == ASSUME TypeOK, Named, [Next]_vars PROVE TypeOK'
<1> USE DEF row, files, local, threads, exit, NoRow
<1>1. CASE DispatcherStep
  <2>1. CASE Claim
    BY <2>1 DEF Claim, TypeOK, Statuses
  <2>2. ASSUME NEW w \in Workers, Launch(w) PROVE TypeOK'
    <3>1. pc' \in [Workers -> WorkerPCs]
      BY <2>2 DEF Launch, TypeOK, WorkerPCs
    <3>2. tries' \in [Workers -> 0 .. Attempts]
      BY <2>2, AttemptsAssumption DEF Launch, TypeOK
    <3>3. registry' \in BOOLEAN
      BY <2>2 DEF Launch, TypeOK
    <3> QED
      BY <2>2, <3>1, <3>2, <3>3 DEF Launch, TypeOK
  <2> QED
    BY <1>1, <2>1, <2>2 DEF DispatcherStep
<1>2. ASSUME NEW w \in Workers, WorkerStep(w) \/ WorkerDatabaseFails(w) PROVE TypeOK'
  <2>1. UNCHANGED <<dispatcher, cmd, resumers, cleaner, deleter, quit, kept>>
    BY <1>2, WorkerMoves DEF Moves
  <2> QED
    BY <1>2, <2>1, WorkerOwnTypes, WorkerTypes DEF TypeOK
<1>3. ASSUME NEW w \in Workers, ChildStep(w) PROVE TypeOK'
  <2>1. CASE ChildWrites(w)
    BY <2>1 DEF ChildWrites, TypeOK
  <2>2. CASE ChildExits(w)
    <3>1. child' \in [Workers -> {"none", "running", "good", "bad"}]
      BY <2>2 DEF ChildExits, Child, TypeOK
    <3>2. work' \subseteq {"partial", "file"}
      BY <2>2 DEF ChildExits, TypeOK
    <3> QED
      BY <2>2, <3>1, <3>2 DEF ChildExits, TypeOK
  <2> QED
    BY <1>3, <2>1, <2>2 DEF ChildStep
<1>4. CASE Clicks
  <2>1. \E shown \in SUBSET Statuses, first \in CommandPCs, partial, storage \in BOOLEAN :
            Click(shown, first, partial, storage)
    BY <1>4 DEF Clicks, ClickPause, ClickResume, ClickStop, ClickDelete, ClickClear, CommandPCs,
                Statuses
  <2> QED
    BY <2>1, ClickTypes
<1>5. CASE CommandStep
  <2> USE CommandTypes DEF CommandKeeps, Done, Next1, NoKill, Remove, CommandPCs
  <2>1. CASE PauseWrite
    BY <2>1 DEF PauseWrite, TypeOK, Statuses
  <2>2. CASE CommandKills
    <3>1. child' \in [Workers -> {"none", "running", "good", "bad"}]
      BY <2>2 DEF CommandKills, Kill, TypeOK
    <3>2. cmd' \in Commands
      BY <2>2 DEF CommandKills
    <3> QED
      BY <2>2, <3>1, <3>2 DEF CommandKills, TypeOK
  <2>3. CASE ResumeWrite
    <3>1. resumers' \in [waiting : Nat, writing : Nat]
      BY <2>3 DEF ResumeWrite, TypeOK
    <3> QED
      BY <2>3, <3>1 DEF ResumeWrite, TypeOK, Statuses
  <2>4. CASE StopRead
    <3>1. cmd' \in Commands
      BY <2>4 DEF StopRead
    <3> QED
      BY <2>4, <3>1 DEF StopRead, TypeOK
  <2>5. CASE StopWrite
    BY <2>5 DEF StopWrite, TypeOK, Statuses
  <2>6. CASE StopWait
    BY <2>6 DEF StopWait, TypeOK
  <2>7. CASE DeleteRead
    <3>1. cmd' \in Commands
      BY <2>7 DEF DeleteRead
    <3> QED
      BY <2>7, <3>1 DEF DeleteRead, TypeOK
  <2>8. CASE DeleteMark
    <3>1. deleter' \in [pc : {"off", "wait", "remove", "purge"}, storage : BOOLEAN, known : Nat]
      BY <2>8 DEF DeleteMark, Commands, TypeOK
    <3> QED
      BY <2>8, <3>1 DEF DeleteMark, TypeOK, Statuses
  <2>9. CASE DeleteStorage
    BY <2>9 DEF DeleteStorage, TypeOK
  <2>10. CASE DeleteRow
    BY <2>10 DEF DeleteRow, TypeOK, Statuses
  <2>11. CASE ClearFinished
    BY <2>11 DEF ClearFinished, TypeOK, Statuses
  <2> QED
    BY <1>5, <2>1, <2>2, <2>3, <2>4, <2>5, <2>6, <2>7, <2>8, <2>9, <2>10, <2>11 DEF CommandStep
<1>6. CASE ResumerStep
  <2> USE DEF ThreadKeeps, FailRow, Item, Overriding, TypeOK, Statuses
  <2>1. CASE ResumerStarts
    BY <2>1 DEF ResumerStarts
  <2>2. CASE ResumerItem
    BY <2>2 DEF ResumerItem
  <2>3. CASE ResumerGivesUp
    BY <2>3 DEF ResumerGivesUp
  <2> QED
    BY <1>6, <2>1, <2>2, <2>3 DEF ResumerStep
<1>7. CASE CleanerStep \/ DeleterStep
  <2> USE DEF ThreadKeeps, Remove, DeleterOff, TypeOK, Statuses
  <2>1. CASE CleanerWaits
    BY <2>1 DEF CleanerWaits
  <2>2. CASE CleanerRemoves
    BY <2>2 DEF CleanerRemoves
  <2>3. CASE DeleterWaits
    BY <2>3 DEF DeleterWaits
  <2>4. CASE DeleterRemoves
    BY <2>4 DEF DeleterRemoves
  <2>5. CASE DeleterPurges
    BY <2>5 DEF DeleterPurges
  <2> QED
    BY <1>7, <2>1, <2>2, <2>3, <2>4, <2>5 DEF CleanerStep, DeleterStep
<1>8. CASE QuitAsked \/ QuitKills \/ QuitRequeuesRow \/ QuitRequeuesItem
  <2> USE DEF QuitKeeps, AfterRestart
  <2>1. CASE QuitAsked
    <3>1. kept' \in BOOLEAN
      BY <2>1 DEF QuitAsked
    <3>2. ops' \in Nat
      BY <2>1, OpsAssumption DEF QuitAsked, TypeOK
    <3> QED
      BY <2>1, <3>1, <3>2 DEF QuitAsked, TypeOK
  <2>2. CASE QuitKills
    <3>1. child' \in [Workers -> {"none", "running", "good", "bad"}]
      BY <2>2 DEF QuitKills, Kill, TypeOK
    <3> QED
      BY <2>2, <3>1 DEF QuitKills, TypeOK
  <2>3. CASE QuitRequeuesRow
    BY <2>3 DEF QuitRequeuesRow, TypeOK, Statuses
  <2>4. CASE QuitRequeuesItem
    BY <2>4 DEF QuitRequeuesItem, TypeOK, Statuses
  <2> QED
    BY <1>8, <2>1, <2>2, <2>3, <2>4
<1>9. CASE Restart /\ ops' \in Nat
  <2> USE DEF Restart
  <2>1. /\ pc' \in [Workers -> WorkerPCs] /\ tries' \in [Workers -> 0 .. Attempts]
        /\ seen' \in [Workers -> {"queued", "paused", "cancelled"}]
        /\ final' \in [Workers -> Nat]
        /\ child' \in [Workers -> {"none", "running", "good", "bad"}]
    BY <1>9, AttemptsAssumption DEF WorkerPCs
  <2>2. cmd' \in Commands
    BY <1>9 DEF NoCommand, Commands, CommandPCs
  <2>3. deleter' \in [pc : {"off", "wait", "remove", "purge"}, storage : BOOLEAN, known : Nat]
    BY <1>9 DEF DeleterOff
  <2>4. status' \in Statuses /\ item' \in Statuses
    BY <1>9 DEF AfterRestart, TypeOK, Statuses
  <2>5. resumers' \in [waiting : Nat, writing : Nat]
    BY <1>9
  <2> QED
    BY <1>9, <2>1, <2>2, <2>3, <2>4, <2>5 DEF TypeOK
<1>10. CASE UNCHANGED vars
  BY <1>10 DEF vars, TypeOK
<1>11. Crash \/ QuitLeaves => Restart /\ ops' \in Nat
  BY OpsAssumption DEF Crash, QuitLeaves, TypeOK
<1> QED
  BY <1>1, <1>2, <1>3, <1>4, <1>5, <1>6, <1>7, <1>8, <1>9, <1>10, <1>11 DEF Next, QuitStep

\* A name for every file that is about to be renamed.
LEMMA NamedStep ==
    ASSUME TypeOK, Named, [Next]_vars
    PROVE  Named'
<1> USE DEF TypeOK, Named, WorkerPCs, row, files, local, threads, exit, NoRow
<1>1. CASE DispatcherStep
  <2> USE DEF Claim, Launch
  <2>1. CASE Claim
    BY <2>1 DEF Claim
  <2>2. ASSUME NEW w \in Workers, Launch(w) PROVE Named'
    BY <2>2 DEF Launch
  <2> QED
    BY <1>1, <2>1, <2>2 DEF DispatcherStep
<1>2. ASSUME NEW w \in Workers, WorkerStep(w) \/ WorkerDatabaseFails(w) PROVE Named'
  BY <1>2, WorkerMoves, WorkerFiles DEF Moves
<1>3. ASSUME NEW w \in Workers, ChildStep(w) PROVE Named'
  BY <1>3
  DEF    ChildStep, ChildWrites, ChildExits, Child
<1>4. CASE Clicks
  BY <1>4
  DEF    Clicks, ClickPause, ClickResume, ClickStop, ClickDelete, ClickClear, Click, NoCommand
<1>5. CASE CommandStep
  BY <1>5
  DEF    CommandStep, PauseWrite, CommandKills, ResumeWrite, StopRead, StopWrite, StopWait,
         DeleteRead, DeleteMark, DeleteStorage, DeleteRow, ClearFinished, CommandKeeps,
         Done, Next1, NoKill, NoCommand, Kill, Remove
<1>6. CASE ResumerStep
  BY <1>6
  DEF    ResumerStep, ResumerStarts, ResumerItem, ResumerGivesUp, ThreadKeeps, FailRow, Item,
         Overriding
<1>7. CASE CleanerStep \/ DeleterStep
  BY <1>7
  DEF    CleanerStep, CleanerWaits, CleanerRemoves, DeleterStep, DeleterWaits, DeleterRemoves,
         DeleterPurges, DeleterOff, ThreadKeeps, JobActive, Remove
<1>8. CASE QuitAsked \/ QuitKills \/ QuitRequeuesRow \/ QuitRequeuesItem
  BY <1>8
  DEF    QuitAsked, QuitKills, QuitRequeuesRow, QuitRequeuesItem, QuitKeeps, Kill, AfterRestart
<1>9. CASE Restart
  BY <1>9
  DEF    Restart, NoCommand, DeleterOff, AfterRestart
<1>10. CASE UNCHANGED vars
  BY <1>10
  DEF    vars
<1> QED
  BY <1>1, <1>2, <1>3, <1>4, <1>5, <1>6, <1>7, <1>8, <1>9, <1>10
  DEF Next, QuitStep, QuitLeaves, Crash

\* One worker at a time, and the registry knows of it: only a launch puts a worker on, and it
\* does so when none is listed.
LEMMA AloneStep ==
    ASSUME TypeOK, OneWorker, Listed, ClaimIsFree, [Next]_vars
    PROVE  OneWorker' /\ Listed' /\ ClaimIsFree'
<1> USE DEF TypeOK, Statuses, OneWorker, Listed, ClaimIsFree, NoWorkers, Leaving, row,
            files, local, threads, exit, NoRow
<1>1. CASE DispatcherStep
  BY <1>1
  DEF    DispatcherStep, Claim, Launch
<1>2. ASSUME NEW w \in Workers, WorkerStep(w) \/ WorkerDatabaseFails(w)
      PROVE OneWorker' /\ Listed' /\ ClaimIsFree'
  BY <1>2, WorkerMoves, WorkerLeads DEF Moves
<1>3. ASSUME NEW w \in Workers, ChildStep(w) PROVE OneWorker' /\ Listed' /\ ClaimIsFree'
  BY <1>3
  DEF    ChildStep, ChildWrites, ChildExits, Child
<1>4. CASE Clicks
  BY <1>4
  DEF    Clicks, ClickPause, ClickResume, ClickStop, ClickDelete, ClickClear, Click, NoCommand
<1>5. CASE CommandStep
  BY <1>5
  DEF    CommandStep, PauseWrite, CommandKills, ResumeWrite, StopRead, StopWrite, StopWait,
         DeleteRead, DeleteMark, DeleteStorage, DeleteRow, ClearFinished, CommandKeeps,
         Done, Next1, NoKill, NoCommand, Kill, Remove
<1>6. CASE ResumerStep
  BY <1>6
  DEF    ResumerStep, ResumerStarts, ResumerItem, ResumerGivesUp, ThreadKeeps, FailRow, Item,
         Overriding
<1>7. CASE CleanerStep \/ DeleterStep
  BY <1>7
  DEF    CleanerStep, CleanerWaits, CleanerRemoves, DeleterStep, DeleterWaits, DeleterRemoves,
         DeleterPurges, DeleterOff, ThreadKeeps, JobActive, Remove
<1>8. CASE QuitAsked \/ QuitKills \/ QuitRequeuesRow \/ QuitRequeuesItem
  BY <1>8
  DEF    QuitAsked, QuitKills, QuitRequeuesRow, QuitRequeuesItem, QuitKeeps, Kill, AfterRestart
<1>9. CASE Restart
  BY <1>9
  DEF    Restart, NoCommand, DeleterOff, AfterRestart
<1>10. CASE UNCHANGED vars
  BY <1>10
  DEF    vars
<1> QED
  BY <1>1, <1>2, <1>3, <1>4, <1>5, <1>6, <1>7, <1>8, <1>9, <1>10
  DEF Next, QuitStep, QuitLeaves, Crash

\* A process runs under its worker; one that outlives it has lost its row.
LEMMA ChildStaysWatched ==
    ASSUME TypeOK, ChildIsWatched, orphan => NoRow, [Next]_vars
    PROVE  ChildIsWatched' /\ (orphan => NoRow)'
<1> USE DEF TypeOK, Statuses, ChildIsWatched, ProcessPCs, row, files, local, threads, exit,
            NoRow
<1>1. CASE DispatcherStep
  BY <1>1
  DEF    DispatcherStep, Claim, Launch
<1>2. ASSUME NEW w \in Workers, WorkerStep(w) \/ WorkerDatabaseFails(w)
      PROVE ChildIsWatched' /\ (orphan => NoRow)'
  <2>1. ChildIsWatched'
    BY <1>2, WorkerMoves, WorkerWatches DEF Moves
  <2>2. (orphan => NoRow)'
    <3>1. orphan' => orphan \/ NoRow
      BY <1>2, WorkerLeads
    <3>2. status = "gone" => status' = "gone"
      BY <1>2, WorkerRespects DEF Respects
    <3> QED
      BY <3>1, <3>2
  <2> QED
    BY <2>1, <2>2
<1>3. ASSUME NEW w \in Workers, ChildStep(w) PROVE ChildIsWatched' /\ (orphan => NoRow)'
  BY <1>3
  DEF    ChildStep, ChildWrites, ChildExits, Child
<1>4. CASE Clicks
  <2> USE DEF Click, NoCommand
  <2>1. CASE ClickPause
    BY <2>1 DEF ClickPause
  <2>2. CASE ClickResume
    BY <2>2 DEF ClickResume
  <2>3. CASE ClickStop
    BY <2>3 DEF ClickStop
  <2>4. CASE ClickDelete
    BY <2>4 DEF ClickDelete
  <2>5. CASE ClickClear
    BY <2>5 DEF ClickClear
  <2> QED
    BY <1>4, <2>1, <2>2, <2>3, <2>4, <2>5 DEF Clicks
<1>5. CASE CommandStep
  BY <1>5
  DEF    CommandStep, PauseWrite, CommandKills, ResumeWrite, StopRead, StopWrite, StopWait,
         DeleteRead, DeleteMark, DeleteStorage, DeleteRow, ClearFinished, CommandKeeps,
         Done, Next1, NoKill, NoCommand, Kill, Remove
<1>6. CASE ResumerStep
  BY <1>6
  DEF    ResumerStep, ResumerStarts, ResumerItem, ResumerGivesUp, ThreadKeeps, FailRow, Item,
         Overriding
<1>7. CASE CleanerStep \/ DeleterStep
  BY <1>7
  DEF    CleanerStep, CleanerWaits, CleanerRemoves, DeleterStep, DeleterWaits, DeleterRemoves,
         DeleterPurges, DeleterOff, ThreadKeeps, JobActive, Remove
<1>8. CASE QuitAsked \/ QuitKills \/ QuitRequeuesRow \/ QuitRequeuesItem
  <2> USE DEF QuitKeeps, Kill, AfterRestart
  <2>1. CASE QuitAsked
    BY <2>1 DEF QuitAsked
  <2>2. CASE QuitKills
    BY <2>2 DEF QuitKills
  <2>3. CASE QuitRequeuesRow
    BY <2>3 DEF QuitRequeuesRow
  <2>4. CASE QuitRequeuesItem
    BY <2>4 DEF QuitRequeuesItem
  <2> QED
    BY <1>8, <2>1, <2>2, <2>3, <2>4
<1>9. CASE Restart
  BY <1>9
  DEF    Restart, NoCommand, DeleterOff, AfterRestart
<1>10. CASE UNCHANGED vars
  BY <1>10
  DEF    vars
<1> QED
  BY <1>1, <1>2, <1>3, <1>4, <1>5, <1>6, <1>7, <1>8, <1>9, <1>10
  DEF Next, QuitStep, QuitLeaves, Crash

\* What the commands and the detached threads know of the row stays true: whoever brings a
\* withdrawn row back leaves a mark in overridden.
LEMMA WithdrawnStep ==
    ASSUME TypeOK, CommandKnows, CleanersKnow, [Next]_vars
    PROVE  CommandKnows' /\ CleanersKnow'
<1> USE DEF TypeOK, Commands, Statuses, CommandKnows, CleanersKnow, Withdrawn, row, files,
            local, threads, exit, NoRow
<1>1. CASE DispatcherStep
  BY <1>1
  DEF    DispatcherStep, Claim, Launch
<1>2. ASSUME NEW w \in Workers, WorkerStep(w) \/ WorkerDatabaseFails(w)
      PROVE CommandKnows' /\ CleanersKnow'
  BY <1>2, WorkerMoves, WorkerRespects DEF Moves, Respects
<1>3. ASSUME NEW w \in Workers, ChildStep(w) PROVE CommandKnows' /\ CleanersKnow'
  BY <1>3
  DEF    ChildStep, ChildWrites, ChildExits, Child
<1>4. CASE Clicks
  <2> USE DEF Click, NoCommand
  <2>1. CASE ClickPause
    BY <2>1 DEF ClickPause
  <2>2. CASE ClickResume
    BY <2>2 DEF ClickResume
  <2>3. CASE ClickStop
    BY <2>3 DEF ClickStop
  <2>4. CASE ClickDelete
    BY <2>4 DEF ClickDelete
  <2>5. CASE ClickClear
    BY <2>5 DEF ClickClear
  <2> QED
    BY <1>4, <2>1, <2>2, <2>3, <2>4, <2>5 DEF Clicks
<1>5. CASE CommandStep
  <2> USE DEF CommandKeeps, Done, Next1, NoKill, NoCommand, Kill, Remove
  <2>1. CASE PauseWrite
    BY <2>1 DEF PauseWrite
  <2>2. CASE CommandKills
    <3>1. cmd'.pc \in {"idle", "stopWait", "deleteMark"}
      BY <2>2 DEF CommandKills
    <3>2. cmd'.pc # "idle" => cmd.pc \in {"stopKill", "deleteKill"}
      BY <2>2 DEF CommandKills
    <3> QED
      BY <2>2, <3>1, <3>2 DEF CommandKills
  <2>3. CASE ResumeWrite
    BY <2>3 DEF ResumeWrite
  <2>4. CASE StopRead
    <3>1. \/ cmd'.pc = "idle"
          \/ /\ cmd'.pc \in {"stopWrite", "deleteStopWrite"}
             /\ cmd'.pc = "stopWrite" => cmd.pc = "stopRead"
      BY <2>4 DEF StopRead
    <3> QED
      BY <2>4, <3>1 DEF StopRead
  <2>5. CASE StopWrite
    BY <2>5 DEF StopWrite
  <2>6. CASE StopWait
    BY <2>6 DEF StopWait
  <2>7. CASE DeleteRead
    BY <2>7 DEF DeleteRead
  <2>8. CASE DeleteMark
    BY <2>8 DEF DeleteMark
  <2>9. CASE DeleteStorage
    BY <2>9 DEF DeleteStorage
  <2>10. CASE DeleteRow
    BY <2>10 DEF DeleteRow
  <2>11. CASE ClearFinished
    BY <2>11 DEF ClearFinished
  <2> QED
    BY <1>5, <2>1, <2>2, <2>3, <2>4, <2>5, <2>6, <2>7, <2>8, <2>9, <2>10, <2>11 DEF CommandStep
<1>6. CASE ResumerStep
  BY <1>6
  DEF    ResumerStep, ResumerStarts, ResumerItem, ResumerGivesUp, ThreadKeeps, FailRow, Item,
         Overriding
<1>7. CASE CleanerStep \/ DeleterStep
  BY <1>7
  DEF    CleanerStep, CleanerWaits, CleanerRemoves, DeleterStep, DeleterWaits, DeleterRemoves,
         DeleterPurges, DeleterOff, ThreadKeeps, JobActive, Remove
<1>8. CASE QuitAsked \/ QuitKills \/ QuitRequeuesRow \/ QuitRequeuesItem
  BY <1>8
  DEF    QuitAsked, QuitKills, QuitRequeuesRow, QuitRequeuesItem, QuitKeeps, Kill, AfterRestart
<1>9. CASE Restart
  BY <1>9
  DEF    Restart, NoCommand, DeleterOff, AfterRestart
<1>10. CASE UNCHANGED vars
  BY <1>10
  DEF    vars
<1> QED
  BY <1>1, <1>2, <1>3, <1>4, <1>5, <1>6, <1>7, <1>8, <1>9, <1>10
  DEF Next, QuitStep, QuitLeaves, Crash

\* The item of a completed row is on its way: with one worker at a time, no other can write it.
LEMMA CompletedStep ==
    ASSUME TypeOK, OneWorker, Listed, ClaimIsFree, CompletedRests, [Next]_vars
    PROVE  CompletedRests'
<1> USE DEF TypeOK, Statuses, OneWorker, Listed, ClaimIsFree, NoWorkers, CompletedRests,
            Leaving, row, files, local, threads, exit, NoRow
<1>1. CASE DispatcherStep
  BY <1>1
  DEF    DispatcherStep, Claim, Launch
<1>2. ASSUME NEW w \in Workers, WorkerStep(w) \/ WorkerDatabaseFails(w) PROVE CompletedRests'
  BY <1>2, WorkerMoves, WorkerLeads, WorkerRecords DEF Moves
<1>3. ASSUME NEW w \in Workers, ChildStep(w) PROVE CompletedRests'
  BY <1>3
  DEF    ChildStep, ChildWrites, ChildExits, Child
<1>4. CASE Clicks
  BY <1>4
  DEF    Clicks, ClickPause, ClickResume, ClickStop, ClickDelete, ClickClear, Click, NoCommand
<1>5. CASE CommandStep
  BY <1>5
  DEF    CommandStep, PauseWrite, CommandKills, ResumeWrite, StopRead, StopWrite, StopWait,
         DeleteRead, DeleteMark, DeleteStorage, DeleteRow, ClearFinished, CommandKeeps,
         Done, Next1, NoKill, NoCommand, Kill, Remove
<1>6. CASE ResumerStep
  BY <1>6
  DEF    ResumerStep, ResumerStarts, ResumerItem, ResumerGivesUp, ThreadKeeps, FailRow, Item,
         Overriding
<1>7. CASE CleanerStep \/ DeleterStep
  BY <1>7
  DEF    CleanerStep, CleanerWaits, CleanerRemoves, DeleterStep, DeleterWaits, DeleterRemoves,
         DeleterPurges, DeleterOff, ThreadKeeps, JobActive, Remove
<1>8. CASE QuitAsked \/ QuitKills \/ QuitRequeuesRow \/ QuitRequeuesItem
  BY <1>8
  DEF    QuitAsked, QuitKills, QuitRequeuesRow, QuitRequeuesItem, QuitKeeps, Kill, AfterRestart
<1>9. CASE Restart
  BY <1>9
  DEF    Restart, NoCommand, DeleterOff, AfterRestart
<1>10. CASE UNCHANGED vars
  BY <1>10
  DEF    vars
<1> QED
  BY <1>1, <1>2, <1>3, <1>4, <1>5, <1>6, <1>7, <1>8, <1>9, <1>10
  DEF Next, QuitStep, QuitLeaves, Crash

\* A job that was left alone at the exit stays what it was.
LEMMA KeptStep ==
    ASSUME TypeOK, KeptIsAlone, [Next]_vars
    PROVE  KeptIsAlone'
<1> USE DEF TypeOK, Statuses, KeptIsAlone, row, files, local, threads, exit, NoRow
<1>1. CASE DispatcherStep
  <2> USE DEF Claim, Launch
  <2>1. CASE Claim
    BY <2>1 DEF Claim
  <2>2. ASSUME NEW w \in Workers, Launch(w) PROVE KeptIsAlone'
    BY <2>2 DEF Launch
  <2> QED
    BY <1>1, <2>1, <2>2 DEF DispatcherStep
<1>2. ASSUME NEW w \in Workers, WorkerStep(w) \/ WorkerDatabaseFails(w) PROVE KeptIsAlone'
  BY <1>2, WorkerMoves, WorkerLeads DEF Moves
<1>3. ASSUME NEW w \in Workers, ChildStep(w) PROVE KeptIsAlone'
  BY <1>3
  DEF    ChildStep, ChildWrites, ChildExits, Child
<1>4. CASE Clicks
  BY <1>4
  DEF    Clicks, ClickPause, ClickResume, ClickStop, ClickDelete, ClickClear, Click, NoCommand
<1>5. CASE CommandStep
  <2> USE DEF CommandKeeps, Done, Next1, NoKill, NoCommand, Kill, Remove
  <2>1. CASE PauseWrite
    BY <2>1 DEF PauseWrite
  <2>2. CASE CommandKills
    BY <2>2 DEF CommandKills
  <2>3. CASE ResumeWrite
    BY <2>3 DEF ResumeWrite
  <2>4. CASE StopRead
    BY <2>4 DEF StopRead
  <2>5. CASE StopWrite
    BY <2>5 DEF StopWrite
  <2>6. CASE StopWait
    BY <2>6 DEF StopWait
  <2>7. CASE DeleteRead
    BY <2>7 DEF DeleteRead
  <2>8. CASE DeleteMark
    BY <2>8 DEF DeleteMark
  <2>9. CASE DeleteStorage
    BY <2>9 DEF DeleteStorage
  <2>10. CASE DeleteRow
    BY <2>10 DEF DeleteRow
  <2>11. CASE ClearFinished
    BY <2>11 DEF ClearFinished
  <2> QED
    BY <1>5, <2>1, <2>2, <2>3, <2>4, <2>5, <2>6, <2>7, <2>8, <2>9, <2>10, <2>11 DEF CommandStep
<1>6. CASE ResumerStep
  <2> USE DEF ThreadKeeps, FailRow, Item, Overriding
  <2>1. CASE ResumerStarts
    BY <2>1 DEF ResumerStarts
  <2>2. CASE ResumerItem
    BY <2>2 DEF ResumerItem
  <2>3. CASE ResumerGivesUp
    BY <2>3 DEF ResumerGivesUp
  <2> QED
    BY <1>6, <2>1, <2>2, <2>3 DEF ResumerStep
<1>7. CASE CleanerStep \/ DeleterStep
  BY <1>7
  DEF    CleanerStep, CleanerWaits, CleanerRemoves, DeleterStep, DeleterWaits, DeleterRemoves,
         DeleterPurges, DeleterOff, ThreadKeeps, JobActive, Remove
<1>8. CASE QuitAsked \/ QuitKills \/ QuitRequeuesRow \/ QuitRequeuesItem
  BY <1>8
  DEF    QuitAsked, QuitKills, QuitRequeuesRow, QuitRequeuesItem, QuitKeeps, Kill, AfterRestart
<1>9. CASE Restart
  BY <1>9
  DEF    Restart, NoCommand, DeleterOff, AfterRestart
<1>10. CASE UNCHANGED vars
  BY <1>10
  DEF    vars
<1> QED
  BY <1>1, <1>2, <1>3, <1>4, <1>5, <1>6, <1>7, <1>8, <1>9, <1>10
  DEF Next, QuitStep, QuitLeaves, Crash

\* Live work keeps its files: a thread goes from waiting to removing when no worker is listed,
\* and a worker that starts later does not pass the withdrawn row.
LEMMA LiveStep ==
    ASSUME StateInv, CleanersKnow', [Next]_vars
    PROVE  LiveWorkKeepsFiles'
<1> USE DEF StateInv, TypeOK, Statuses, Listed, NoWorkers, CommandKnows, CleanersKnow,
            Withdrawn, LiveWorkKeepsFiles, Leaving, BusyPCs, ProcessPCs, row, files, local,
            threads, exit, NoRow
<1>1. CASE DispatcherStep
  <2> USE DEF Claim, Launch
  <2>1. CASE Claim
    BY <2>1 DEF Claim
  <2>2. ASSUME NEW w \in Workers, Launch(w) PROVE LiveWorkKeepsFiles'
    BY <2>2 DEF Launch
  <2> QED
    BY <1>1, <2>1, <2>2 DEF DispatcherStep
<1>2. ASSUME NEW w \in Workers, WorkerStep(w) \/ WorkerDatabaseFails(w)
      PROVE LiveWorkKeepsFiles'
  BY <1>2, WorkerMoves, WorkerRespects, WorkerLeads DEF Moves, Respects
<1>3. ASSUME NEW w \in Workers, ChildStep(w) PROVE LiveWorkKeepsFiles'
  BY <1>3
  DEF    ChildStep, ChildWrites, ChildExits, Child
<1>4. CASE Clicks
  BY <1>4
  DEF    Clicks, ClickPause, ClickResume, ClickStop, ClickDelete, ClickClear, Click, NoCommand
<1>5. CASE CommandStep
  <2> USE DEF CommandKeeps, Done, Next1, NoKill, NoCommand, Kill, Remove
  <2>1. CASE PauseWrite
    BY <2>1 DEF PauseWrite
  <2>2. CASE CommandKills
    BY <2>2 DEF CommandKills
  <2>3. CASE ResumeWrite
    BY <2>3 DEF ResumeWrite
  <2>4. CASE StopRead
    BY <2>4 DEF StopRead
  <2>5. CASE StopWrite
    BY <2>5 DEF StopWrite
  <2>6. CASE StopWait
    BY <2>6 DEF StopWait
  <2>7. CASE DeleteRead
    BY <2>7 DEF DeleteRead
  <2>8. CASE DeleteMark
    BY <2>8 DEF DeleteMark
  <2>9. CASE DeleteStorage
    BY <2>9 DEF DeleteStorage
  <2>10. CASE DeleteRow
    BY <2>10 DEF DeleteRow
  <2>11. CASE ClearFinished
    BY <2>11 DEF ClearFinished
  <2> QED
    BY <1>5, <2>1, <2>2, <2>3, <2>4, <2>5, <2>6, <2>7, <2>8, <2>9, <2>10, <2>11 DEF CommandStep
<1>6. CASE ResumerStep
  <2> USE DEF ThreadKeeps, FailRow, Item, Overriding
  <2>1. CASE ResumerStarts
    BY <2>1 DEF ResumerStarts
  <2>2. CASE ResumerItem
    BY <2>2 DEF ResumerItem
  <2>3. CASE ResumerGivesUp
    BY <2>3 DEF ResumerGivesUp
  <2> QED
    BY <1>6, <2>1, <2>2, <2>3 DEF ResumerStep
<1>7. CASE CleanerStep \/ DeleterStep
  BY <1>7
  DEF    CleanerStep, CleanerWaits, CleanerRemoves, DeleterStep, DeleterWaits, DeleterRemoves,
         DeleterPurges, DeleterOff, ThreadKeeps, JobActive, Remove
<1>8. CASE QuitAsked \/ QuitKills \/ QuitRequeuesRow \/ QuitRequeuesItem
  BY <1>8
  DEF    QuitAsked, QuitKills, QuitRequeuesRow, QuitRequeuesItem, QuitKeeps, Kill, AfterRestart
<1>9. CASE Restart
  BY <1>9
  DEF    Restart, NoCommand, DeleterOff, AfterRestart
<1>10. CASE UNCHANGED vars
  BY <1>10
  DEF    vars
<1> QED
  BY <1>1, <1>2, <1>3, <1>4, <1>5, <1>6, <1>7, <1>8, <1>9, <1>10
  DEF Next, QuitStep, QuitLeaves, Crash

\* One late worker, also when the exit has emptied the registry and a second one is let in.
LEMMA LateStep ==
    ASSUME StateInv, OneLate, [Next]_vars
    PROVE  OneLate'
<1> USE DEF StateInv, TypeOK, OneWorker, ChildIsWatched, OneLate, Late, Leaving, BusyPCs,
            ProcessPCs, row, files, local, threads, exit, NoRow
<1>1. CASE DispatcherStep
  BY <1>1
  DEF    DispatcherStep, Claim, Launch
<1>2. ASSUME NEW w \in Workers, WorkerStep(w) \/ WorkerDatabaseFails(w) PROVE OneLate'
  BY <1>2, WorkerMoves, WorkerWatches DEF Moves
<1>3. ASSUME NEW w \in Workers, ChildStep(w) PROVE OneLate'
  BY <1>3
  DEF    ChildStep, ChildWrites, ChildExits, Child
<1>4. CASE Clicks
  BY <1>4
  DEF    Clicks, ClickPause, ClickResume, ClickStop, ClickDelete, ClickClear, Click, NoCommand
<1>5. CASE CommandStep
  <2> USE DEF CommandKeeps, Done, Next1, NoKill, NoCommand, Kill, Remove
  <2>1. CASE PauseWrite
    BY <2>1 DEF PauseWrite
  <2>2. CASE CommandKills
    BY <2>2 DEF CommandKills
  <2>3. CASE ResumeWrite
    BY <2>3 DEF ResumeWrite
  <2>4. CASE StopRead
    BY <2>4 DEF StopRead
  <2>5. CASE StopWrite
    BY <2>5 DEF StopWrite
  <2>6. CASE StopWait
    BY <2>6 DEF StopWait
  <2>7. CASE DeleteRead
    BY <2>7 DEF DeleteRead
  <2>8. CASE DeleteMark
    BY <2>8 DEF DeleteMark
  <2>9. CASE DeleteStorage
    BY <2>9 DEF DeleteStorage
  <2>10. CASE DeleteRow
    BY <2>10 DEF DeleteRow
  <2>11. CASE ClearFinished
    BY <2>11 DEF ClearFinished
  <2> QED
    BY <1>5, <2>1, <2>2, <2>3, <2>4, <2>5, <2>6, <2>7, <2>8, <2>9, <2>10, <2>11 DEF CommandStep
<1>6. CASE ResumerStep
  BY <1>6
  DEF    ResumerStep, ResumerStarts, ResumerItem, ResumerGivesUp, ThreadKeeps, FailRow, Item,
         Overriding
<1>7. CASE CleanerStep \/ DeleterStep
  BY <1>7
  DEF    CleanerStep, CleanerWaits, CleanerRemoves, DeleterStep, DeleterWaits, DeleterRemoves,
         DeleterPurges, DeleterOff, ThreadKeeps, JobActive, Remove
<1>8. CASE QuitAsked \/ QuitKills \/ QuitRequeuesRow \/ QuitRequeuesItem
  <2> USE DEF QuitKeeps, Kill, AfterRestart
  <2>1. CASE QuitAsked
    BY <2>1 DEF QuitAsked
  <2>2. CASE QuitKills
    BY <2>2 DEF QuitKills
  <2>3. CASE QuitRequeuesRow
    BY <2>3 DEF QuitRequeuesRow
  <2>4. CASE QuitRequeuesItem
    BY <2>4 DEF QuitRequeuesItem
  <2> QED
    BY <1>8, <2>1, <2>2, <2>3, <2>4
<1>9. CASE Restart
  BY <1>9
  DEF    Restart, NoCommand, DeleterOff, AfterRestart
<1>10. CASE UNCHANGED vars
  BY <1>10
  DEF    vars
<1> QED
  BY <1>1, <1>2, <1>3, <1>4, <1>5, <1>6, <1>7, <1>8, <1>9, <1>10
  DEF Next, QuitStep, QuitLeaves, Crash

\* The renamed file stays: the cleanup takes no finished file, and the deletion threads work for
\* a withdrawn row.
LEMMA FileStep ==
    ASSUME MediaInv, [Next]_vars
    PROVE  FileIsThere'
<1> USE DEF MediaInv, StateInv, TypeOK, Statuses, CommandKnows, CleanersKnow, Withdrawn,
            OneLate, FileIsThere, Late, row, files, local, threads, exit, NoRow
<1>1. CASE DispatcherStep
  BY <1>1
  DEF    DispatcherStep, Claim, Launch
<1>2. ASSUME NEW w \in Workers, WorkerStep(w) \/ WorkerDatabaseFails(w) PROVE FileIsThere'
  BY <1>2, WorkerMoves, WorkerRespects, WorkerFiles DEF Moves, Respects
<1>3. ASSUME NEW w \in Workers, ChildStep(w) PROVE FileIsThere'
  BY <1>3
  DEF    ChildStep, ChildWrites, ChildExits, Child
<1>4. CASE Clicks
  BY <1>4
  DEF    Clicks, ClickPause, ClickResume, ClickStop, ClickDelete, ClickClear, Click, NoCommand
<1>5. CASE CommandStep
  <2> USE DEF CommandKeeps, Done, Next1, NoKill, NoCommand, Kill, Remove
  <2>1. CASE PauseWrite
    BY <2>1 DEF PauseWrite
  <2>2. CASE CommandKills
    BY <2>2 DEF CommandKills
  <2>3. CASE ResumeWrite
    BY <2>3 DEF ResumeWrite
  <2>4. CASE StopRead
    BY <2>4 DEF StopRead
  <2>5. CASE StopWrite
    BY <2>5 DEF StopWrite
  <2>6. CASE StopWait
    BY <2>6 DEF StopWait
  <2>7. CASE DeleteRead
    BY <2>7 DEF DeleteRead
  <2>8. CASE DeleteMark
    BY <2>8 DEF DeleteMark
  <2>9. CASE DeleteStorage
    BY <2>9 DEF DeleteStorage
  <2>10. CASE DeleteRow
    BY <2>10 DEF DeleteRow
  <2>11. CASE ClearFinished
    BY <2>11 DEF ClearFinished
  <2> QED
    BY <1>5, <2>1, <2>2, <2>3, <2>4, <2>5, <2>6, <2>7, <2>8, <2>9, <2>10, <2>11 DEF CommandStep
<1>6. CASE ResumerStep
  BY <1>6
  DEF    ResumerStep, ResumerStarts, ResumerItem, ResumerGivesUp, ThreadKeeps, FailRow, Item,
         Overriding
<1>7. CASE CleanerStep \/ DeleterStep
  BY <1>7
  DEF    CleanerStep, CleanerWaits, CleanerRemoves, DeleterStep, DeleterWaits, DeleterRemoves,
         DeleterPurges, DeleterOff, ThreadKeeps, JobActive, Remove
<1>8. CASE QuitAsked \/ QuitKills \/ QuitRequeuesRow \/ QuitRequeuesItem
  BY <1>8
  DEF    QuitAsked, QuitKills, QuitRequeuesRow, QuitRequeuesItem, QuitKeeps, Kill, AfterRestart
<1>9. CASE Restart
  BY <1>9
  DEF    Restart, NoCommand, DeleterOff, AfterRestart
<1>10. CASE UNCHANGED vars
  BY <1>10
  DEF    vars
<1> QED
  BY <1>1, <1>2, <1>3, <1>4, <1>5, <1>6, <1>7, <1>8, <1>9, <1>10
  DEF Next, QuitStep, QuitLeaves, Crash

(***************************************************************************)
(* The theorems.                                                           *)
(***************************************************************************)
\* The initial state has its types, ...
LEMMA InitTypes == ASSUME Init PROVE TypeOK
<1>1. /\ child \in [Workers -> {"none", "running", "good", "bad"}]
      /\ pc \in [Workers -> WorkerPCs] /\ tries \in [Workers -> 0 .. Attempts]
      /\ seen \in [Workers -> {"queued", "paused", "cancelled"}] /\ final \in [Workers -> Nat]
  BY AttemptsAssumption DEF Init, WorkerPCs
<1>2. cmd \in Commands
  BY DEF Init, NoCommand, Commands, CommandPCs
<1>3. deleter \in [pc : {"off", "wait", "remove", "purge"}, storage : BOOLEAN, known : Nat]
  BY DEF Init, DeleterOff
<1>4. resumers \in [waiting : Nat, writing : Nat]
  BY DEF Init
<1> QED
  BY <1>1, <1>2, <1>3, <1>4 DEF Init, TypeOK, Statuses

\* ... and satisfies the invariant, ...
LEMMA InitState == ASSUME Init PROVE MediaInv
<1>1. cmd.pc = "idle" /\ deleter.pc = "off"
  BY DEF Init, NoCommand, DeleterOff
<1>2. /\ OneWorker /\ Named /\ Listed /\ ClaimIsFree /\ ChildIsWatched /\ OneLate /\ FileIsThere
      /\ LiveWorkKeepsFiles
  BY <1>1
  DEF Init, OneWorker, Named, Listed, NoWorkers, ClaimIsFree, ChildIsWatched, OneLate, Late,
              FileIsThere, LiveWorkKeepsFiles
<1>3. CommandKnows /\ CleanersKnow /\ CompletedRests /\ KeptIsAlone /\ (orphan => NoRow)
  BY <1>1 DEF Init, CommandKnows, CleanersKnow, CompletedRests, KeptIsAlone
<1> QED
  BY <1>2, <1>3, InitTypes DEF MediaInv, StateInv

\* ... which every step preserves.
LEMMA StateStep == ASSUME MediaInv, [Next]_vars PROVE MediaInv'
<1> USE DEF MediaInv, StateInv
<1>1. TypeOK' /\ Named'
  BY TypeStep, NamedStep
<1>2. OneWorker' /\ Listed' /\ ClaimIsFree'
  BY AloneStep
<1>3. ChildIsWatched' /\ (orphan => NoRow)'
  BY ChildStaysWatched
<1>4. CommandKnows' /\ CleanersKnow'
  BY WithdrawnStep
<1>5. CompletedRests' /\ KeptIsAlone'
  BY CompletedStep, KeptStep
<1>6. LiveWorkKeepsFiles'
  BY <1>4, LiveStep
<1>7. OneLate' /\ FileIsThere'
  BY LateStep, FileStep
<1> QED
  BY <1>1, <1>2, <1>3, <1>4, <1>5, <1>6, <1>7

\* The invariant holds of every behaviour of the media job.
THEOREM MediaInvariant == Spec => []MediaInv
<1>1. Init => MediaInv
  BY InitState
<1>2. MediaInv /\ [Next]_vars => MediaInv'
  BY StateStep
<1> QED
  BY <1>1, <1>2, PTL DEF Spec

\* In every state: one worker at a time, no process without its worker, no files taken from
\* live work, a completed job's item completed when all is quiet, and no exit that fails a job.
THEOREM JobIsSound == Spec => []MediaJobSafe
<1>1. MediaInv => MediaJobSafe
  <2> SUFFICES ASSUME MediaInv PROVE MediaJobSafe
    OBVIOUS
  <2> USE DEF MediaInv, StateInv
  <2>1. ProcessHasWorker
    BY DEF ChildIsWatched, ProcessPCs, Listed, NoWorkers, ProcessHasWorker, Leaving, TypeOK
  <2>2. CompletedItem
    BY DEF CompletedRests, Listed, NoWorkers, CompletedItem, Quiet
  <2>3. ExitIsNotAFailure
    BY DEF KeptIsAlone, ExitIsNotAFailure
  <2> QED
    BY <2>1, <2>2, <2>3 DEF MediaJobSafe
<1> QED
  BY <1>1, MediaInvariant, PTL

\* The worker completes a running row over its file, and leaves the files of a completed row.
LEMMA WorkerEarns ==
    ASSUME MediaInv, NEW w \in Workers, WorkerStep(w) \/ WorkerDatabaseFails(w),
           status' = "completed"
    PROVE  /\ status \in {"running", "completed"}
           /\ \/ dest' # {} \/ overridden \/ cmd.pc = "deleteRow"
              \/ status = "completed" /\ (dest = {} \/ Leaving)
<1> USE DEF MediaInv, StateInv
<1>1. CASE status = "completed"
  <2>1. Leaving \/ pc[w] \in {"none", "record", "item", "unlist", "error"}
    BY <1>1 DEF CompletedRests
  <2> QED
    BY <1>1, <2>1, WorkerRecords
<1>2. CASE status # "completed"
  <2>1. pc[w] = "commit" /\ status = "running" /\ dest' = dest
    BY <1>2, WorkerLeads
  <2> QED
    BY <2>1 DEF FileIsThere
<1> QED
  BY <1>1, <1>2

\* A completion is earned: nobody but a worker that finishes a running job completes it, over
\* a finished file; what was paused, cancelled or deleted is not completed; and the file of a
\* completed job goes only by a deletion.
THEOREM CompletionsAreEarned == Spec => CompletionIsEarned
<1> DEFINE HasFile == status' = "completed" =>
                         \/ dest' # {} \/ cmd.pc \in {"deleteStorage", "deleteRow"} \/ overridden
                         \/ status = "completed" /\ (dest = {} \/ Leaving)
           NotStopped == (status \in {"paused", "cancelled", "deleting"}) => status' # "completed"
<1>1. MediaInv /\ [Next]_vars => [HasFile]_vars /\ [NotStopped]_vars
  <2> SUFFICES ASSUME MediaInv, Next, status' = "completed"
               PROVE  HasFile /\ status \in {"running", "completed"}
    OBVIOUS
  <2> USE DEF row, files, NoRow
  <2>1. ASSUME NEW w \in Workers, WorkerStep(w) \/ WorkerDatabaseFails(w)
        PROVE  HasFile /\ status \in {"running", "completed"}
    BY <2>1, WorkerEarns
  <2>2. CASE DispatcherStep
    BY <2>2 DEF DispatcherStep, Claim, Launch
  <2>3. ASSUME NEW w \in Workers, ChildStep(w)
        PROVE  HasFile /\ status \in {"running", "completed"}
    BY <2>3 DEF ChildStep, ChildWrites, ChildExits
  <2>4. CASE Clicks
    BY <2>4 DEF Clicks, ClickPause, ClickResume, ClickStop, ClickDelete, ClickClear, Click
  <2>5. CASE CommandStep
    BY <2>5
    DEF CommandStep, PauseWrite, CommandKills, ResumeWrite, StopRead, StopWrite, StopWait,
                DeleteRead, DeleteMark, DeleteStorage, DeleteRow, ClearFinished
  <2>6. CASE ResumerStep
    BY <2>6 DEF ResumerStep, ResumerStarts, ResumerItem, ResumerGivesUp, FailRow
  <2>7. CASE CleanerStep \/ DeleterStep
    <3> USE DEF Remove, MediaInv, StateInv, TypeOK, CleanersKnow, DeleterOff
    <3>1. CASE CleanerWaits
      BY <3>1 DEF CleanerWaits
    <3>2. CASE CleanerRemoves
      BY <3>2 DEF CleanerRemoves
    <3>3. CASE DeleterWaits
      BY <3>3 DEF DeleterWaits
    <3>4. CASE DeleterRemoves
      BY <3>4 DEF DeleterRemoves
    <3>5. CASE DeleterPurges
      BY <3>5 DEF DeleterPurges
    <3> QED
      BY <2>7, <3>1, <3>2, <3>3, <3>4, <3>5 DEF CleanerStep, DeleterStep
  <2>8. CASE QuitAsked \/ QuitKills \/ QuitRequeuesRow \/ QuitRequeuesItem
    BY <2>8 DEF QuitAsked, QuitKills, QuitRequeuesRow, QuitRequeuesItem, QuitKeeps, AfterRestart
  <2>9. CASE Restart
    BY <2>9 DEF Restart, AfterRestart
  <2> QED
    BY <2>1, <2>2, <2>3, <2>4, <2>5, <2>6, <2>7, <2>8, <2>9
    DEF Next, QuitStep, QuitLeaves, Crash
<1>2. Spec => [][HasFile]_vars /\ [][NotStopped]_vars
  BY <1>1, MediaInvariant, PTL DEF Spec
<1> QED
  BY <1>2 DEF CompletionIsEarned, CompletedHasFile, StoppedNeverCompletes
=============================================================================
