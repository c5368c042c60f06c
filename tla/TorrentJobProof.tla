--------------------------- MODULE TorrentJobProof ---------------------------
(***************************************************************************)
(* Theorems about TorrentJob, for any finite set of schedules and any      *)
(* number of days, commands and crashes: its states are sound              *)
(* (TorrentSafe) and what was decided about it stands (DecisionsStand).    *)
(***************************************************************************)
EXTENDS TorrentJob, FiniteSetTheorems, TLAPS

Withdrawn == {"cancelled", "completed", "deleting", "gone"}

\* The worker is listed from launch to unlisting, and aria2c lives and ends under its eyes.
Watched ==
    /\ pc = "none" <=> registry = "none"
    /\ child # "none" => pc \in {"register", "watch", "poll"}
    /\ orphan = "rowless" => NoRow

\* Who is about to clean up works for a row that is over, or a thread has written over it;
\* who removes files does it with no worker listed; and no command is under way for a tombstone.
CleanUp ==
    \/ cleaner # "off" \/ deleter.pc # "off"
    \/ cmd.pc \in {"stopKill", "deleteKill", "deleteMark"}
    \/ due # <<>> /\ turn = "kill" /\ Current.action = "cancel"
CleanersKnow ==
    /\ CleanUp => overridden \/ status \in Withdrawn
    /\ cleaner = "remove" \/ deleter.pc = "remove" => registry = "none" \/ overridden \/ NoRow
    /\ cmd.pc # "idle" => status # "deleting"

\* Once aria2c has ended well, the download is whole until its job is deleted.
GoodIsWhole ==
    child = "good" \/ pc = "complete" =>
        \/ data = "whole" \/ overridden \/ NoRow
        \/ cmd.pc = "deleteRow" /\ cmd.storage

JobInv == TypeOK /\ Watched /\ CleanersKnow /\ GoodIsWhole

\* A schedule is in hand while the scheduler is between its action and its row.
InHand(s) == turn # "act" /\ Current.id = s
\* The orders that were read and not yet carried out.
Waiting(k) == k \in 1 .. Len(due) /\ (k = 1 => turn = "act")

\* The scheduler reads no schedule twice, and one that it has carried out is in hand or off.
ScheduleInv ==
    /\ turn # "act" => due # <<>>
    /\ \A j, k \in 1 .. Len(due) : due[j].id = due[k].id => j = k
    /\ \A k \in 1 .. Len(due) : plan[due[k].id].action # "unused"
    /\ \A s \in Schedules : plan[s].action = "unused" => ran[s] = 0
    /\ \A s \in Schedules : plan[s].enabled => plan[s].action \in ScheduleActions
    /\ ~crashed =>
         /\ \A s \in Schedules : ran[s] <= 1
         /\ \A s \in Schedules : plan[s].enabled /\ ran[s] # 0 => InHand(s)
         /\ \A k \in 1 .. Len(due) : Waiting(k) => ran[due[k].id] = 0

(***************************************************************************)
(* Types.                                                                  *)
(***************************************************************************)
\* The commands keep their shape.
LEMMA CommandTypes ==
    ASSUME TypeOK, NEW p \in CommandPCs
    PROVE  NoCommand \in Commands /\ [cmd EXCEPT !.pc = p] \in Commands
BY DEF TypeOK, Commands, CommandPCs, NoCommand

\* The order at the head of the list is one of a schedule.
LEMMA CurrentTypes == ASSUME TypeOK, due # <<>> PROVE Current \in Orders /\ Tail(due) \in Seq(Orders)
BY DEF TypeOK, Current

\* What is due is read once each, whatever the order of the times.
LEMMA ReadOnce ==
    ASSUME TypeOK, ScheduleInv, SchedulerReads
    PROVE  /\ due' \in Seq(Orders)
           /\ \A k \in 1 .. Len(due') : due'[k].id \in Due
           /\ \A j, k \in 1 .. Len(due') : due'[j].id = due'[k].id => j = k
<1> DEFINE N == Cardinality(Due)
<1>1. PICK order \in [1 .. N -> Due] :
         /\ {order[k] : k \in DOMAIN order} = Due
         /\ due' = [k \in DOMAIN order |-> [id |-> order[k], action |-> plan[order[k]].action,
                                           daily |-> plan[order[k]].daily]]
  BY DEF SchedulerReads
<1>2. IsFiniteSet(Due) /\ N \in Nat
  BY SchedulesAssumption, FS_Subset, FS_CardinalityType DEF Due
<1>3. IsFiniteSet(1 .. N) /\ Cardinality(1 .. N) = N
  BY <1>2, FS_Interval
<1>4. order \in Injection(1 .. N, Due)
  <2>1. order \in Surjection(1 .. N, Due)
    BY <1>1 DEF Surjection
  <2> QED
    BY <1>2, <1>3, <2>1, FS_SurjSameCardinalityImpliesInj
<1>5. \A k \in 1 .. N : [id |-> order[k], action |-> plan[order[k]].action,
                         daily |-> plan[order[k]].daily] \in Orders
  BY <1>1 DEF Due, Orders, TypeOK, Rows, ScheduleInv
<1>6. due' \in [1 .. N -> Orders]
  BY <1>1, <1>5
<1>7. due' \in Seq(Orders) /\ Len(due') = N
  BY <1>2, <1>6
<1>8. \A k \in 1 .. N : due'[k].id = order[k]
  BY <1>1
<1>9. \A j, k \in 1 .. N : order[j] = order[k] => j = k
  BY <1>4 DEF Injection, IsInjective
<1> QED
  BY <1>1, <1>7, <1>8, <1>9

\* A step of any actor keeps every type.
LEMMA TypeStep ==
    ASSUME TypeOK, ScheduleInv, [Next]_vars
    PROVE  TypeOK'
<1> USE DEF TypeOK, Statuses, job, process, threads, scheduler, history, NoRow
<1>1. CASE WorkerStep
  <2> USE DEF Goto, WorkerKeeps, Fail, Overriding
  <2>1. CASE WorkerStart
    BY <2>1 DEF WorkerStart
  <2>2. CASE WorkerSpawn
    BY <2>2 DEF WorkerSpawn
  <2>3. CASE WorkerRegister
    BY <2>3 DEF WorkerRegister
  <2>4. CASE WorkerWatch
    <3>1. orphan' \in {"none", "rowless", "unwatched"}
      BY <2>4 DEF WorkerWatch
    <3> QED
      BY <2>4, <3>1 DEF WorkerWatch
  <2>5. CASE WorkerPoll
    BY <2>5 DEF WorkerPoll
  <2>6. CASE WorkerComplete
    <3>1. overridden' \in BOOLEAN
      BY <2>6 DEF WorkerComplete
    <3>2. status' \in Statuses
      BY <2>6 DEF WorkerComplete
    <3> QED
      BY <2>6, <3>1, <3>2 DEF WorkerComplete
  <2>7. CASE WorkerError
    BY <2>7 DEF WorkerError
  <2>8. CASE WorkerFail
    <3>1. overridden' \in BOOLEAN
      BY <2>8 DEF WorkerFail
    <3>2. status' \in Statuses
      BY <2>8 DEF WorkerFail
    <3> QED
      BY <2>8, <3>1, <3>2 DEF WorkerFail
  <2>9. CASE WorkerUnlist
    BY <2>9 DEF WorkerUnlist
  <2>10. CASE WorkerBreaks
    BY <2>10 DEF WorkerBreaks
  <2> QED
    BY <1>1, <2>1, <2>2, <2>3, <2>4, <2>5, <2>6, <2>7, <2>8, <2>9, <2>10 DEF WorkerStep
<1>2. CASE Aria2
  <2>1. CASE Aria2Writes
    BY <2>1 DEF Aria2Writes
  <2>2. CASE Aria2Exits
    BY <2>2 DEF Aria2Exits
  <2> QED
    BY <1>2, <2>1, <2>2 DEF Aria2
<1>3. CASE Clicks
  <2> USE DEF Click
  <2>1. CASE ClickPause
    <3>1. cmd' \in Commands
      BY <2>1 DEF ClickPause, Commands, CommandPCs
    <3> QED
      BY <2>1, <3>1 DEF ClickPause
  <2>2. CASE ClickResume
    <3>1. cmd' \in Commands
      BY <2>2 DEF ClickResume, Commands, CommandPCs
    <3> QED
      BY <2>2, <3>1 DEF ClickResume
  <2>3. CASE ClickStop
    <3>1. cmd' \in Commands
      BY <2>3 DEF ClickStop, Commands, CommandPCs
    <3> QED
      BY <2>3, <3>1 DEF ClickStop
  <2>4. CASE ClickDelete
    <3>1. cmd' \in Commands
      BY <2>4 DEF ClickDelete, Commands, CommandPCs
    <3> QED
      BY <2>4, <3>1 DEF ClickDelete
  <2>5. CASE ClickSchedule
    <3>1. plan' \in [Schedules -> Rows]
      BY <2>5 DEF ClickSchedule, Rows, ScheduleActions
    <3> QED
      BY <2>5, <3>1 DEF ClickSchedule
  <2>6. CASE ClickUnschedule
    <3>1. plan' \in [Schedules -> Rows]
      BY <2>6 DEF ClickUnschedule, Row, Rows, ScheduleActions
    <3> QED
      BY <2>6, <3>1 DEF ClickUnschedule
  <2> QED
    BY <1>3, <2>1, <2>2, <2>3, <2>4, <2>5, <2>6 DEF Clicks
<1>4. CASE CommandStep
  <2> USE DEF CommandKeeps, Then, Done, NoCommand, Write, Kill, Disabled, Row, Overriding
  <2>1. CASE PauseWrite
    <3>1. cmd' \in Commands
      BY <2>1, CommandTypes DEF PauseWrite, CommandPCs
    <3>2. overridden' \in BOOLEAN
      BY <2>1 DEF PauseWrite
    <3> QED
      BY <2>1, <3>1, <3>2 DEF PauseWrite
  <2>2. CASE CommandKills
    <3>1. cmd' \in Commands
      BY <2>2, CommandTypes DEF CommandKills, CommandPCs
    <3> QED
      BY <2>2, <3>1 DEF CommandKills
  <2>3. CASE ResumeWrite
    <3>1. cmd' \in Commands
      BY <2>3, CommandTypes DEF ResumeWrite, CommandPCs
    <3> QED
      BY <2>3, <3>1 DEF ResumeWrite
  <2>4. CASE StopRead
    <3>1. cmd' \in Commands
      BY <2>4, CommandTypes DEF StopRead, CommandPCs
    <3> QED
      BY <2>4, <3>1 DEF StopRead
  <2>5. CASE StopWrite
    <3>1. cmd' \in Commands
      BY <2>5, CommandTypes DEF StopWrite, CommandPCs
    <3>2. plan' \in [Schedules -> Rows]
      BY <2>5 DEF StopWrite, Rows, ScheduleActions
    <3> QED
      BY <2>5, <3>1, <3>2 DEF StopWrite
  <2>6. CASE StopKills
    <3>1. cmd' \in Commands
      BY <2>6, CommandTypes DEF StopKills, CommandPCs
    <3> QED
      BY <2>6, <3>1 DEF StopKills
  <2>7. CASE DeleteRead
    <3>1. cmd' \in Commands
      BY <2>7, CommandTypes DEF DeleteRead, CommandPCs
    <3> QED
      BY <2>7, <3>1 DEF DeleteRead
  <2>8. CASE DeleteMark
    <3>1. cmd' \in Commands
      BY <2>8, CommandTypes DEF DeleteMark, CommandPCs
    <3>2. deleter' \in [pc : {"off", "wait", "remove", "purge"}, storage : BOOLEAN]
      BY <2>8 DEF DeleteMark, Commands
    <3> QED
      BY <2>8, <3>1, <3>2 DEF DeleteMark
  <2>9. CASE DeleteFiles
    <3>1. cmd' \in Commands
      BY <2>9, CommandTypes DEF DeleteFiles, CommandPCs
    <3> QED
      BY <2>9, <3>1 DEF DeleteFiles
  <2>10. CASE DeleteRow
    <3>1. cmd' \in Commands
      BY <2>10, CommandTypes DEF DeleteRow, CommandPCs
    <3>2. plan' \in [Schedules -> Rows]
      BY <2>10 DEF DeleteRow, Rows, ScheduleActions
    <3> QED
      BY <2>10, <3>1, <3>2 DEF DeleteRow
  <2>11. CASE ResumeRead
    <3>1. cmd' \in Commands
      BY <2>11, CommandTypes DEF ResumeRead, CommandPCs
    <3> QED
      BY <2>11, <3>1 DEF ResumeRead
  <2> QED
    BY <1>4, <2>1, <2>2, <2>3, <2>4, <2>5, <2>6, <2>7, <2>8, <2>9, <2>10, <2>11 DEF CommandStep
<1>5. CASE ThreadStep
  <2> USE DEF ThreadKeeps, LaunchEffect, Fail, Overriding, DeleterOff, Row
  <2>1. CASE ResumerStarts
    <3>1. overridden' \in BOOLEAN
      BY <2>1 DEF ResumerStarts
    <3>2. status' \in Statuses
      BY <2>1 DEF ResumerStarts
    <3> QED
      BY <2>1, <3>1, <3>2 DEF ResumerStarts
  <2>2. CASE ResumerGivesUp
    <3>1. overridden' \in BOOLEAN
      BY <2>2 DEF ResumerGivesUp
    <3>2. status' \in Statuses
      BY <2>2 DEF ResumerGivesUp
    <3> QED
      BY <2>2, <3>1, <3>2 DEF ResumerGivesUp
  <2>3. CASE CleanerWaits
    BY <2>3 DEF CleanerWaits
  <2>4. CASE CleanerRemoves
    BY <2>4 DEF CleanerRemoves
  <2>5. CASE DeleterWaits
    BY <2>5 DEF DeleterWaits
  <2>6. CASE DeleterRemoves
    BY <2>6 DEF DeleterRemoves
  <2>7. CASE DeleterPurges
    <3>1. plan' \in [Schedules -> Rows]
      BY <2>7 DEF DeleterPurges, Rows, ScheduleActions
    <3> QED
      BY <2>7, <3>1 DEF DeleterPurges
  <2> QED
    BY <1>5, <2>1, <2>2, <2>3, <2>4, <2>5, <2>6, <2>7 DEF ThreadStep
<1>6. CASE SchedulerStep
  <2> USE DEF SchedulerKeeps, Action, Count1, Turn, LaunchEffect, Kill, Disabled, Overriding
  <2>1. CASE SchedulerReads
    <3>1. due' \in Seq(Orders)
      BY <2>1, ReadOnce
    <3>2. turn' = "act" /\ UNCHANGED <<job, process, pc, threads, now, plan, ran, history, ops>>
      BY <2>1 DEF SchedulerReads
    <3> QED
      BY <3>1, <3>2
  <2>2. CASE ScheduledResume
    <3>1. ran' \in [Schedules -> Nat]
      BY <2>2, CurrentTypes DEF ScheduledResume, Orders
    <3>2. overridden' \in BOOLEAN
      BY <2>2 DEF ScheduledResume
    <3>3. status' \in Statuses
      BY <2>2 DEF ScheduledResume
    <3>4. turn' \in {"failed", "launch"}
      BY <2>2 DEF ScheduledResume
    <3>5. UNCHANGED <<data, process, pc, threads, now, due, plan, refused, crashed, ops>>
      BY <2>2 DEF ScheduledResume
    <3> QED
      BY <3>1, <3>2, <3>3, <3>4, <3>5
  <2>3. CASE ScheduledLaunch
    <3>1. overridden' \in BOOLEAN
      BY <2>3 DEF ScheduledLaunch
    <3>2. refused' \in BOOLEAN
      BY <2>3 DEF ScheduledLaunch
    <3> QED
      BY <2>3, <3>1, <3>2 DEF ScheduledLaunch
  <2>4. CASE ScheduledPause
    <3>1. ran' \in [Schedules -> Nat]
      BY <2>4, CurrentTypes DEF ScheduledPause, Orders
    <3> QED
      BY <2>4, <3>1 DEF ScheduledPause
  <2>5. CASE ScheduledCancel
    <3>1. ran' \in [Schedules -> Nat]
      BY <2>5, CurrentTypes DEF ScheduledCancel, Orders
    <3>2. plan' \in [Schedules -> Rows]
      BY <2>5 DEF ScheduledCancel, Rows
    <3> QED
      BY <2>5, <3>1, <3>2 DEF ScheduledCancel
  <2>6. CASE ScheduledKill
    BY <2>6 DEF ScheduledKill
  <2>7. CASE SchedulerUpdatesRow
    <3>1. Current.id \in Schedules /\ Current.daily \in BOOLEAN /\ Tail(due) \in Seq(Orders)
      BY <2>7, CurrentTypes DEF SchedulerUpdatesRow, ScheduleInv, Orders
    <3>2. ran' \in [Schedules -> Nat]
      BY <2>7, <3>1 DEF SchedulerUpdatesRow
    <3>3. plan' \in [Schedules -> Rows]
      <4>1. \A s \in Schedules : [plan[s] EXCEPT !.runAt = @ + 1] \in Rows
        <5> SUFFICES ASSUME NEW s \in Schedules PROVE [plan[s] EXCEPT !.runAt = @ + 1] \in Rows
          OBVIOUS
        <5>1. plan[s] \in Rows
          OBVIOUS
        <5>2. plan[s].runAt + 1 \in Nat
          BY <5>1 DEF Rows
        <5> QED
          BY <5>1, <5>2 DEF Rows
      <4>2. \A s \in Schedules : [plan[s] EXCEPT !.enabled = FALSE] \in Rows
        BY DEF Rows
      <4>3. \/ plan' = plan
            \/ plan' = [plan EXCEPT ![Current.id] = [plan[Current.id] EXCEPT !.runAt = @ + 1]]
            \/ plan' = [plan EXCEPT ![Current.id] = [plan[Current.id] EXCEPT !.enabled = FALSE]]
        BY <2>7, <3>1 DEF SchedulerUpdatesRow
      <4> QED
        BY <3>1, <4>1, <4>2, <4>3
    <3> QED
      BY <2>7, <3>1, <3>2, <3>3 DEF SchedulerUpdatesRow
  <2> QED
    BY <1>6, <2>1, <2>2, <2>3, <2>4, <2>5, <2>6, <2>7 DEF SchedulerStep
<1>7. CASE NextDay
  BY <1>7, DaysAssumption DEF NextDay
<1>8. CASE Crash
  <2>1. cmd' \in Commands
    BY <1>8, CommandTypes DEF Crash, CommandPCs
  <2>2. deleter' \in [pc : {"off", "wait", "remove", "purge"}, storage : BOOLEAN]
    BY <1>8 DEF Crash, DeleterOff
  <2> QED
    BY <1>8, <2>1, <2>2 DEF Crash
<1>9. CASE UNCHANGED vars
  BY <1>9 DEF vars
<1> QED
  BY <1>1, <1>2, <1>3, <1>4, <1>5, <1>6, <1>7, <1>8, <1>9 DEF Next

\* aria2c has its worker: nobody else takes the job off the list.
LEMMA WatchedStep ==
    ASSUME TypeOK, Watched, [Next]_vars
    PROVE  Watched'
<1> USE DEF TypeOK, Watched, job, process, threads, scheduler, history, NoRow
<1>1. CASE WorkerStep
  <2> USE DEF Goto, WorkerKeeps, Fail, Overriding
  <2>1. CASE WorkerStart
    BY <2>1 DEF WorkerStart
  <2>2. CASE WorkerSpawn
    BY <2>2 DEF WorkerSpawn
  <2>3. CASE WorkerRegister
    BY <2>3 DEF WorkerRegister
  <2>4. CASE WorkerWatch
    BY <2>4 DEF WorkerWatch
  <2>5. CASE WorkerPoll
    BY <2>5 DEF WorkerPoll
  <2>6. CASE WorkerComplete
    BY <2>6 DEF WorkerComplete
  <2>7. CASE WorkerError
    BY <2>7 DEF WorkerError
  <2>8. CASE WorkerFail
    BY <2>8 DEF WorkerFail
  <2>9. CASE WorkerUnlist
    BY <2>9 DEF WorkerUnlist
  <2>10. CASE WorkerBreaks
    BY <2>10 DEF WorkerBreaks
  <2> QED
    BY <1>1, <2>1, <2>2, <2>3, <2>4, <2>5, <2>6, <2>7, <2>8, <2>9, <2>10 DEF WorkerStep
<1>2. CASE Aria2
  <2>1. CASE Aria2Writes
    BY <2>1 DEF Aria2Writes
  <2>2. CASE Aria2Exits
    BY <2>2 DEF Aria2Exits
  <2> QED
    BY <1>2, <2>1, <2>2 DEF Aria2
<1>3. CASE Clicks
  <2> USE DEF Click
  <2>1. CASE ClickPause
    BY <2>1 DEF ClickPause
  <2>2. CASE ClickResume
    BY <2>2 DEF ClickResume
  <2>3. CASE ClickStop
    BY <2>3 DEF ClickStop
  <2>4. CASE ClickDelete
    BY <2>4 DEF ClickDelete
  <2>5. CASE ClickSchedule
    BY <2>5 DEF ClickSchedule
  <2>6. CASE ClickUnschedule
    BY <2>6 DEF ClickUnschedule
  <2> QED
    BY <1>3, <2>1, <2>2, <2>3, <2>4, <2>5, <2>6 DEF Clicks
<1>4. CASE CommandStep
  <2> USE DEF CommandKeeps, Then, Done, NoCommand, Write, Kill, Disabled, Row, Overriding
  <2>1. CASE PauseWrite
    BY <2>1 DEF PauseWrite
  <2>2. CASE CommandKills
    BY <2>2 DEF CommandKills
  <2>3. CASE ResumeWrite
    BY <2>3 DEF ResumeWrite
  <2>4. CASE StopRead
    BY <2>4 DEF StopRead
  <2>5. CASE StopWrite
    BY <2>5 DEF StopWrite
  <2>6. CASE StopKills
    BY <2>6 DEF StopKills
  <2>7. CASE DeleteRead
    BY <2>7 DEF DeleteRead
  <2>8. CASE DeleteMark
    BY <2>8 DEF DeleteMark
  <2>9. CASE DeleteFiles
    BY <2>9 DEF DeleteFiles
  <2>10. CASE DeleteRow
    BY <2>10 DEF DeleteRow
  <2>11. CASE ResumeRead
    BY <2>11 DEF ResumeRead
  <2> QED
    BY <1>4, <2>1, <2>2, <2>3, <2>4, <2>5, <2>6, <2>7, <2>8, <2>9, <2>10, <2>11 DEF CommandStep
<1>5. CASE ThreadStep
  <2> USE DEF ThreadKeeps, LaunchEffect, Fail, Overriding, DeleterOff, Row
  <2>1. CASE ResumerStarts
    BY <2>1 DEF ResumerStarts
  <2>2. CASE ResumerGivesUp
    BY <2>2 DEF ResumerGivesUp
  <2>3. CASE CleanerWaits
    BY <2>3 DEF CleanerWaits
  <2>4. CASE CleanerRemoves
    BY <2>4 DEF CleanerRemoves
  <2>5. CASE DeleterWaits
    BY <2>5 DEF DeleterWaits
  <2>6. CASE DeleterRemoves
    BY <2>6 DEF DeleterRemoves
  <2>7. CASE DeleterPurges
    BY <2>7 DEF DeleterPurges
  <2> QED
    BY <1>5, <2>1, <2>2, <2>3, <2>4, <2>5, <2>6, <2>7 DEF ThreadStep
<1>6. CASE SchedulerStep
  <2> USE DEF SchedulerKeeps, Action, Count1, Turn, LaunchEffect, Kill, Disabled, Overriding
  <2>1. CASE SchedulerReads
    BY <2>1 DEF SchedulerReads
  <2>2. CASE ScheduledResume
    BY <2>2 DEF ScheduledResume
  <2>3. CASE ScheduledLaunch
    BY <2>3 DEF ScheduledLaunch
  <2>4. CASE ScheduledPause
    BY <2>4 DEF ScheduledPause
  <2>5. CASE ScheduledCancel
    BY <2>5 DEF ScheduledCancel
  <2>6. CASE ScheduledKill
    BY <2>6 DEF ScheduledKill
  <2>7. CASE SchedulerUpdatesRow
    BY <2>7 DEF SchedulerUpdatesRow
  <2> QED
    BY <1>6, <2>1, <2>2, <2>3, <2>4, <2>5, <2>6, <2>7 DEF SchedulerStep
<1>7. CASE NextDay
  BY <1>7 DEF NextDay
<1>8. CASE Crash
  BY <1>8 DEF Crash, NoCommand, DeleterOff
<1>9. CASE UNCHANGED vars
  BY <1>9 DEF vars
<1> QED
  BY <1>1, <1>2, <1>3, <1>4, <1>5, <1>6, <1>7, <1>8, <1>9 DEF Next

\* What the clean-up threads know stays true: whoever writes over the end of a job, or starts
\* its worker again, leaves a mark in overridden.
LEMMA CleanersStep ==
    ASSUME TypeOK, ScheduleInv, Watched, CleanersKnow, [Next]_vars
    PROVE  CleanersKnow'
<1> USE DEF TypeOK, Commands, Statuses, Ended, Watched, CleanersKnow, CleanUp, Withdrawn,
            Current, job, process, threads, scheduler, history, NoRow
<1>1. CASE WorkerStep
  <2> USE DEF Goto, WorkerKeeps, Fail, Overriding
  <2>1. CASE WorkerStart
    BY <2>1 DEF WorkerStart
  <2>2. CASE WorkerSpawn
    BY <2>2 DEF WorkerSpawn
  <2>3. CASE WorkerRegister
    BY <2>3 DEF WorkerRegister
  <2>4. CASE WorkerWatch
    BY <2>4 DEF WorkerWatch
  <2>5. CASE WorkerPoll
    BY <2>5 DEF WorkerPoll
  <2>6. CASE WorkerComplete
    BY <2>6 DEF WorkerComplete
  <2>7. CASE WorkerError
    BY <2>7 DEF WorkerError
  <2>8. CASE WorkerFail
    BY <2>8 DEF WorkerFail
  <2>9. CASE WorkerUnlist
    BY <2>9 DEF WorkerUnlist
  <2>10. CASE WorkerBreaks
    BY <2>10 DEF WorkerBreaks
  <2> QED
    BY <1>1, <2>1, <2>2, <2>3, <2>4, <2>5, <2>6, <2>7, <2>8, <2>9, <2>10 DEF WorkerStep
<1>2. CASE Aria2
  BY <1>2
  DEF Aria2, Aria2Writes, Aria2Exits
<1>3. CASE Clicks
  <2> USE DEF Click
  <2>1. CASE ClickPause
    BY <2>1 DEF ClickPause
  <2>2. CASE ClickResume
    BY <2>2 DEF ClickResume
  <2>3. CASE ClickStop
    BY <2>3 DEF ClickStop
  <2>4. CASE ClickDelete
    BY <2>4 DEF ClickDelete
  <2>5. CASE ClickSchedule
    BY <2>5 DEF ClickSchedule
  <2>6. CASE ClickUnschedule
    BY <2>6 DEF ClickUnschedule
  <2> QED
    BY <1>3, <2>1, <2>2, <2>3, <2>4, <2>5, <2>6 DEF Clicks
<1>4. CASE CommandStep
  <2> USE DEF CommandKeeps, Then, Done, NoCommand, Write, Kill, Disabled, Row, Overriding
  <2>1. CASE PauseWrite
    BY <2>1 DEF PauseWrite
  <2>2. CASE CommandKills
    BY <2>2 DEF CommandKills
  <2>3. CASE ResumeWrite
    BY <2>3 DEF ResumeWrite
  <2>4. CASE StopRead
    BY <2>4 DEF StopRead
  <2>5. CASE StopWrite
    BY <2>5 DEF StopWrite
  <2>6. CASE StopKills
    BY <2>6 DEF StopKills
  <2>7. CASE DeleteRead
    BY <2>7 DEF DeleteRead
  <2>8. CASE DeleteMark
    BY <2>8 DEF DeleteMark
  <2>9. CASE DeleteFiles
    BY <2>9 DEF DeleteFiles
  <2>10. CASE DeleteRow
    BY <2>10 DEF DeleteRow
  <2>11. CASE ResumeRead
    BY <2>11 DEF ResumeRead
  <2> QED
    BY <1>4, <2>1, <2>2, <2>3, <2>4, <2>5, <2>6, <2>7, <2>8, <2>9, <2>10, <2>11 DEF CommandStep
<1>5. CASE ThreadStep
  <2> USE DEF ThreadKeeps, LaunchEffect, Fail, Overriding, DeleterOff, Row
  <2>1. CASE ResumerStarts
    BY <2>1 DEF ResumerStarts
  <2>2. CASE ResumerGivesUp
    BY <2>2 DEF ResumerGivesUp
  <2>3. CASE CleanerWaits
    BY <2>3 DEF CleanerWaits
  <2>4. CASE CleanerRemoves
    BY <2>4 DEF CleanerRemoves
  <2>5. CASE DeleterWaits
    BY <2>5 DEF DeleterWaits
  <2>6. CASE DeleterRemoves
    BY <2>6 DEF DeleterRemoves
  <2>7. CASE DeleterPurges
    BY <2>7 DEF DeleterPurges
  <2> QED
    BY <1>5, <2>1, <2>2, <2>3, <2>4, <2>5, <2>6, <2>7 DEF ThreadStep
<1>6. CASE SchedulerStep
  <2> USE DEF SchedulerKeeps, Action, Count1, Turn, LaunchEffect, Kill, Disabled, Overriding
  <2>1. CASE SchedulerReads
    BY <2>1 DEF SchedulerReads
  <2>2. CASE ScheduledResume
    BY <2>2 DEF ScheduledResume
  <2>3. CASE ScheduledLaunch
    BY <2>3 DEF ScheduledLaunch
  <2>4. CASE ScheduledPause
    BY <2>4 DEF ScheduledPause
  <2>5. CASE ScheduledCancel
    BY <2>5 DEF ScheduledCancel
  <2>6. CASE ScheduledKill
    <3>1. due # <<>>
      BY <2>6 DEF ScheduledKill, ScheduleInv
    <3> QED
      BY <2>6, <3>1 DEF ScheduledKill
  <2>7. CASE SchedulerUpdatesRow
    BY <2>7 DEF SchedulerUpdatesRow
  <2> QED
    BY <1>6, <2>1, <2>2, <2>3, <2>4, <2>5, <2>6, <2>7 DEF SchedulerStep
<1>7. CASE NextDay
  BY <1>7 DEF NextDay
<1>8. CASE Crash
  BY <1>8 DEF Crash, NoCommand, DeleterOff
<1>9. CASE UNCHANGED vars
  BY <1>9 DEF vars
<1> QED
  BY <1>1, <1>2, <1>3, <1>4, <1>5, <1>6, <1>7, <1>8, <1>9 DEF Next

\* A download that ended well stays whole: the threads that remove files find no worker.
LEMMA WholeStep ==
    ASSUME TypeOK, Watched, CleanersKnow, GoodIsWhole, [Next]_vars
    PROVE  GoodIsWhole'
<1> USE DEF TypeOK, Commands, Watched, CleanersKnow, GoodIsWhole, job, process, threads,
            scheduler, history, NoRow
<1>1. CASE WorkerStep
  <2> USE DEF Goto, WorkerKeeps, Fail, Overriding
  <2>1. CASE WorkerStart
    BY <2>1 DEF WorkerStart
  <2>2. CASE WorkerSpawn
    BY <2>2 DEF WorkerSpawn
  <2>3. CASE WorkerRegister
    BY <2>3 DEF WorkerRegister
  <2>4. CASE WorkerWatch
    BY <2>4 DEF WorkerWatch
  <2>5. CASE WorkerPoll
    BY <2>5 DEF WorkerPoll
  <2>6. CASE WorkerComplete
    BY <2>6 DEF WorkerComplete
  <2>7. CASE WorkerError
    BY <2>7 DEF WorkerError
  <2>8. CASE WorkerFail
    BY <2>8 DEF WorkerFail
  <2>9. CASE WorkerUnlist
    BY <2>9 DEF WorkerUnlist
  <2>10. CASE WorkerBreaks
    BY <2>10 DEF WorkerBreaks
  <2> QED
    BY <1>1, <2>1, <2>2, <2>3, <2>4, <2>5, <2>6, <2>7, <2>8, <2>9, <2>10 DEF WorkerStep
<1>2. CASE Aria2
  <2>1. CASE Aria2Writes
    BY <2>1 DEF Aria2Writes
  <2>2. CASE Aria2Exits
    BY <2>2 DEF Aria2Exits
  <2> QED
    BY <1>2, <2>1, <2>2 DEF Aria2
<1>3. CASE Clicks
  <2> USE DEF Click
  <2>1. CASE ClickPause
    BY <2>1 DEF ClickPause
  <2>2. CASE ClickResume
    BY <2>2 DEF ClickResume
  <2>3. CASE ClickStop
    BY <2>3 DEF ClickStop
  <2>4. CASE ClickDelete
    BY <2>4 DEF ClickDelete
  <2>5. CASE ClickSchedule
    BY <2>5 DEF ClickSchedule
  <2>6. CASE ClickUnschedule
    BY <2>6 DEF ClickUnschedule
  <2> QED
    BY <1>3, <2>1, <2>2, <2>3, <2>4, <2>5, <2>6 DEF Clicks
<1>4. CASE CommandStep
  <2> USE DEF CommandKeeps, Then, Done, NoCommand, Write, Kill, Disabled, Row, Overriding
  <2>1. CASE PauseWrite
    BY <2>1 DEF PauseWrite
  <2>2. CASE CommandKills
    BY <2>2 DEF CommandKills
  <2>3. CASE ResumeWrite
    BY <2>3 DEF ResumeWrite
  <2>4. CASE StopRead
    BY <2>4 DEF StopRead
  <2>5. CASE StopWrite
    BY <2>5 DEF StopWrite
  <2>6. CASE StopKills
    BY <2>6 DEF StopKills
  <2>7. CASE DeleteRead
    BY <2>7 DEF DeleteRead
  <2>8. CASE DeleteMark
    BY <2>8 DEF DeleteMark
  <2>9. CASE DeleteFiles
    BY <2>9 DEF DeleteFiles
  <2>10. CASE DeleteRow
    BY <2>10 DEF DeleteRow
  <2>11. CASE ResumeRead
    BY <2>11 DEF ResumeRead
  <2> QED
    BY <1>4, <2>1, <2>2, <2>3, <2>4, <2>5, <2>6, <2>7, <2>8, <2>9, <2>10, <2>11 DEF CommandStep
<1>5. CASE ThreadStep
  <2> USE DEF ThreadKeeps, LaunchEffect, Fail, Overriding, DeleterOff, Row
  <2>1. CASE ResumerStarts
    BY <2>1 DEF ResumerStarts
  <2>2. CASE ResumerGivesUp
    BY <2>2 DEF ResumerGivesUp
  <2>3. CASE CleanerWaits
    BY <2>3 DEF CleanerWaits
  <2>4. CASE CleanerRemoves
    BY <2>4 DEF CleanerRemoves
  <2>5. CASE DeleterWaits
    BY <2>5 DEF DeleterWaits
  <2>6. CASE DeleterRemoves
    BY <2>6 DEF DeleterRemoves
  <2>7. CASE DeleterPurges
    BY <2>7 DEF DeleterPurges
  <2> QED
    BY <1>5, <2>1, <2>2, <2>3, <2>4, <2>5, <2>6, <2>7 DEF ThreadStep
<1>6. CASE SchedulerStep
  <2> USE DEF SchedulerKeeps, Action, Count1, Turn, LaunchEffect, Kill, Disabled, Overriding
  <2>1. CASE SchedulerReads
    BY <2>1 DEF SchedulerReads
  <2>2. CASE ScheduledResume
    BY <2>2 DEF ScheduledResume
  <2>3. CASE ScheduledLaunch
    BY <2>3 DEF ScheduledLaunch
  <2>4. CASE ScheduledPause
    BY <2>4 DEF ScheduledPause
  <2>5. CASE ScheduledCancel
    BY <2>5 DEF ScheduledCancel
  <2>6. CASE ScheduledKill
    BY <2>6 DEF ScheduledKill
  <2>7. CASE SchedulerUpdatesRow
    BY <2>7 DEF SchedulerUpdatesRow
  <2> QED
    BY <1>6, <2>1, <2>2, <2>3, <2>4, <2>5, <2>6, <2>7 DEF SchedulerStep
<1>7. CASE NextDay
  BY <1>7 DEF NextDay
<1>8. CASE Crash
  BY <1>8 DEF Crash, NoCommand, DeleterOff
<1>9. CASE UNCHANGED vars
  BY <1>9 DEF vars
<1> QED
  BY <1>1, <1>2, <1>3, <1>4, <1>5, <1>6, <1>7, <1>8, <1>9 DEF Next

(***************************************************************************)
(* The schedules.                                                          *)
(***************************************************************************)
\* What has been read is orders of schedules.
LEMMA DueTypes ==
    ASSUME due \in Seq(Orders)
    PROVE  /\ \A k \in 1 .. Len(due) : due[k].id \in Schedules
           /\ due # <<>> => 1 \in 1 .. Len(due) /\ Current.id \in Schedules /\ Current = due[1]
<1>1. ASSUME NEW k \in 1 .. Len(due) PROVE due[k].id \in Schedules
  <2>1. due[k] \in Orders
    OBVIOUS
  <2> QED
    BY <2>1 DEF Orders
<1>2. due # <<>> => 1 \in 1 .. Len(due)
  OBVIOUS
<1> QED
  BY <1>1, <1>2 DEF Current

\* Whoever is not the scheduler can only switch schedules off.
LEMMA OthersSwitchOff ==
    ASSUME ScheduleInv, UNCHANGED <<due, turn, ran, crashed>>,
           \A s \in Schedules : plan'[s].enabled => plan[s].enabled /\ plan'[s].action = plan[s].action,
           \A s \in Schedules : plan'[s].action = "unused" => plan[s].action = "unused",
           due \in Seq(Orders)
    PROVE  ScheduleInv'
<1>1. \A k \in 1 .. Len(due) : due[k].id \in Schedules
  BY DueTypes
<1> QED
  BY <1>1 DEF ScheduleInv, InHand, Waiting, Current

\* The action of an order that had been waiting is counted, and the order is in hand.
LEMMA TakenInHand ==
    ASSUME TypeOK, ScheduleInv, due # <<>>, turn = "act", turn' # "act", Count1,
           UNCHANGED <<due, crashed>>,
           \A s \in Schedules : plan'[s].enabled => plan[s].enabled /\ plan'[s].action = plan[s].action,
           \A s \in Schedules : plan'[s].action = "unused" => plan[s].action = "unused"
    PROVE  ScheduleInv'
<1> DEFINE id == Current.id
<1>1. /\ id \in Schedules /\ 1 \in 1 .. Len(due) /\ due[1].id = id
      /\ \A k \in 1 .. Len(due) : due[k].id \in Schedules
  BY DueTypes DEF TypeOK
<1>2. /\ ran'[id] = ran[id] + 1 /\ ran[id] \in Nat
      /\ \A s \in Schedules : s # id => ran'[s] = ran[s]
  BY <1>1 DEF Count1, TypeOK
<1>3. plan[id].action # "unused"
  BY <1>1 DEF ScheduleInv
<1>4. ~crashed => ran[id] = 0 /\ \A k \in 1 .. Len(due) : ran[due[k].id] = 0
  BY <1>1 DEF ScheduleInv, Waiting
<1>5. \A k \in 1 .. Len(due) : due[k].id = id => k = 1
  BY <1>1 DEF ScheduleInv
<1>6. \A s \in Schedules : plan'[s].action = "unused" => ran'[s] = 0
  BY <1>2, <1>3 DEF ScheduleInv
<1>7. ~crashed' => \A s \in Schedules : ran'[s] <= 1
  BY <1>2, <1>4 DEF ScheduleInv
<1>8. ~crashed' => \A s \in Schedules : plan'[s].enabled /\ ran'[s] # 0 => s = id
  BY <1>2 DEF ScheduleInv, InHand
<1>9. ~crashed' => \A k \in 1 .. Len(due) : k # 1 => ran'[due[k].id] = 0
  BY <1>1, <1>2, <1>4, <1>5
<1>10. /\ turn' # "act" => due' # <<>>
       /\ \A j, k \in 1 .. Len(due') : due'[j].id = due'[k].id => j = k
       /\ \A k \in 1 .. Len(due') : plan'[due'[k].id].action # "unused"
  BY <1>1 DEF ScheduleInv
<1>11. \A s \in Schedules : plan'[s].enabled => plan'[s].action \in ScheduleActions
  BY DEF ScheduleInv
<1>12. \A s \in Schedules : s = id => InHand(s)'
  BY DEF InHand, Current
<1>13. \A k : Waiting(k)' => k \in 1 .. Len(due) /\ k # 1
  BY DEF Waiting
<1> QED
  BY <1>6, <1>7, <1>8, <1>9, <1>10, <1>11, <1>12, <1>13 DEF ScheduleInv

\* Whose row is updated was in hand; it is off, or has its next day before it.
LEMMA RowUpdated == ASSUME TypeOK, ScheduleInv, SchedulerUpdatesRow PROVE ScheduleInv'
<1> DEFINE id == Current.id
           n  == Len(due) - 1
<1>1. /\ due # <<>> /\ id \in Schedules /\ due[1].id = id
      /\ \A k \in 1 .. Len(due) : due[k].id \in Schedules
  BY DueTypes DEF SchedulerUpdatesRow, ScheduleInv, TypeOK
<1>2. /\ Len(due') = n /\ n \in Nat
      /\ \A k \in 1 .. n : due'[k] = due[k + 1] /\ k + 1 \in 1 .. Len(due)
  BY <1>1 DEF SchedulerUpdatesRow, TypeOK
<1>3. turn' = "act" /\ turn # "act" /\ crashed' = crashed
  BY DEF SchedulerUpdatesRow, Turn, history
<1>4. /\ \A s \in Schedules : s # id => plan'[s] = plan[s] /\ ran'[s] = ran[s]
      /\ ran'[id] \in {0, ran[id]}
      /\ plan'[id].action = plan[id].action
  BY <1>1 DEF SchedulerUpdatesRow, TypeOK, Rows
<1>5. plan'[id].enabled => plan[id].enabled /\ ran'[id] = 0
  <2>1. CASE ~Exists(id)
    BY <1>1, <2>1 DEF SchedulerUpdatesRow, Exists, ScheduleInv, ScheduleActions
  <2>2. CASE Exists(id) /\ Current.daily /\ turn = "done"
    BY <1>1, <2>2 DEF SchedulerUpdatesRow, TypeOK, Rows
  <2>3. CASE Exists(id) /\ ~(Current.daily /\ turn = "done")
    BY <1>1, <2>3 DEF SchedulerUpdatesRow, TypeOK, Rows
  <2> QED
    BY <2>1, <2>2, <2>3
<1>6. \A j, k \in 1 .. n : due'[j].id = due'[k].id => j = k
  <2> SUFFICES ASSUME NEW j \in 1 .. n, NEW k \in 1 .. n, due'[j].id = due'[k].id PROVE j = k
    OBVIOUS
  <2>1. j + 1 = k + 1
    BY <1>2 DEF ScheduleInv
  <2> QED
    BY <1>2, <2>1
<1>7. \A k \in 1 .. n : due'[k].id \in Schedules /\ due'[k].id # id
  <2> SUFFICES ASSUME NEW k \in 1 .. n PROVE due'[k].id \in Schedules /\ due'[k].id # id
    OBVIOUS
  <2>1. k + 1 # 1 /\ 1 \in 1 .. Len(due)
    BY <1>2
  <2> QED
    BY <1>1, <1>2, <2>1 DEF ScheduleInv
<1>8. \A k \in 1 .. n : plan'[due'[k].id].action # "unused"
  BY <1>2, <1>4, <1>7 DEF ScheduleInv
<1>9. /\ \A s \in Schedules : plan'[s].action = "unused" => ran'[s] = 0
      /\ \A s \in Schedules : plan'[s].enabled => plan'[s].action \in ScheduleActions
  BY <1>4, <1>5 DEF ScheduleInv
<1>10. ~crashed => \A s \in Schedules : ran'[s] <= 1
  BY <1>1, <1>4 DEF ScheduleInv
<1>11. ~crashed => \A s \in Schedules : plan'[s].enabled => ran'[s] = 0
  BY <1>4, <1>5 DEF ScheduleInv, InHand
<1>12. ~crashed => \A k \in 1 .. n : ran'[due'[k].id] = 0
  <2> SUFFICES ASSUME ~crashed, NEW k \in 1 .. n PROVE ran'[due'[k].id] = 0
    OBVIOUS
  <2>1. Waiting(k + 1)
    BY <1>2 DEF Waiting
  <2> QED
    BY <1>2, <1>4, <1>7, <2>1 DEF ScheduleInv
<1> QED
  BY <1>2, <1>3, <1>6, <1>8, <1>9, <1>10, <1>11, <1>12 DEF ScheduleInv, Waiting

\* Every step keeps the scheduler's books.
LEMMA ScheduleStep == ASSUME TypeOK, ScheduleInv, [Next]_vars PROVE ScheduleInv'
<1> DEFINE OnlyOff ==
             /\ \A s \in Schedules : plan'[s].enabled =>
                    plan[s].enabled /\ plan'[s].action = plan[s].action
             /\ \A s \in Schedules : plan'[s].action = "unused" => plan[s].action = "unused"
<1>1. ASSUME UNCHANGED <<due, turn, ran, crashed>>, OnlyOff PROVE ScheduleInv'
  BY <1>1, OthersSwitchOff DEF TypeOK
<1>2. CASE WorkerStep
  BY <1>1, <1>2
  DEF WorkerStep, WorkerStart, WorkerSpawn, WorkerRegister, WorkerWatch, WorkerPoll,
     WorkerBreaks, WorkerComplete, WorkerError, WorkerFail, WorkerUnlist, WorkerKeeps, scheduler,
     history
<1>3. CASE Aria2
  BY <1>1, <1>3 DEF Aria2, Aria2Writes, Aria2Exits, scheduler, history
<1>4. CASE Clicks
  <2>1. CASE ClickPause \/ ClickResume \/ ClickStop \/ ClickDelete
    BY <1>1, <2>1 DEF ClickPause, ClickResume, ClickStop, ClickDelete, Click, scheduler, history
  <2>2. CASE ClickSchedule
    <3>1. PICK s \in Schedules : /\ plan[s].action = "unused"
                                 /\ \E a \in ScheduleActions, daily \in BOOLEAN :
                                      plan' = [plan EXCEPT ![s] = [action |-> a, daily |-> daily,
                                                 enabled |-> TRUE, runAt |-> now]]
      BY <2>2 DEF ClickSchedule, ScheduleActions
    <3>2. plan'[s].action \in ScheduleActions /\ \A t \in Schedules : t # s => plan'[t] = plan[t]
      BY <3>1 DEF TypeOK
    <3>3. UNCHANGED <<due, turn, ran, crashed>>
      BY <2>2 DEF ClickSchedule, history
    <3>4. ran[s] = 0 /\ \A k \in 1 .. Len(due) : due[k].id \in Schedules /\ due[k].id # s
      BY <3>1, DueTypes DEF ScheduleInv, TypeOK
    <3>5. plan'[s].action # "unused"
      BY <3>2 DEF ScheduleActions
    <3> QED
      BY <3>2, <3>3, <3>4, <3>5 DEF ScheduleInv, InHand, Waiting, Current
  <2>3. CASE ClickUnschedule
    <3>1. OnlyOff
      BY <2>3 DEF ClickUnschedule, Row, TypeOK
    <3> QED
      BY <1>1, <2>3, <3>1 DEF ClickUnschedule, history
  <2> QED
    BY <1>4, <2>1, <2>2, <2>3 DEF Clicks
<1>5. CASE CommandStep
  <2>1. UNCHANGED <<due, turn, ran, crashed>>
    BY <1>5
    DEF CommandStep, PauseWrite, CommandKills, ResumeRead, ResumeWrite, StopRead, StopWrite, StopKills,
       DeleteRead, DeleteMark, DeleteFiles, DeleteRow, CommandKeeps, scheduler, history
  <2>2. plan' \in {plan, Disabled, [s \in Schedules |-> Row("gone")]}
    BY <1>5
    DEF CommandStep, PauseWrite, CommandKills, ResumeRead, ResumeWrite, StopRead, StopWrite, StopKills,
       DeleteRead, DeleteMark, DeleteFiles, DeleteRow, CommandKeeps, scheduler
  <2>3. OnlyOff
    BY <2>2 DEF Disabled, Row, TypeOK, Rows
  <2> QED
    BY <1>1, <2>1, <2>3
<1>6. CASE ThreadStep
  <2>1. UNCHANGED <<due, turn, ran, crashed>>
    BY <1>6 DEF ThreadStep, ResumerStarts, ResumerGivesUp, CleanerWaits, CleanerRemoves,
       DeleterWaits, DeleterRemoves, DeleterPurges, ThreadKeeps, scheduler
  <2>2. plan' \in {plan, [s \in Schedules |-> Row("gone")]}
    BY <1>6 DEF ThreadStep, ResumerStarts, ResumerGivesUp, CleanerWaits, CleanerRemoves,
       DeleterWaits, DeleterRemoves, DeleterPurges, ThreadKeeps, scheduler
  <2>3. OnlyOff
    BY <2>2 DEF Row
  <2> QED
    BY <1>1, <2>1, <2>3
<1>7. CASE SchedulerStep
  <2>1. CASE SchedulerReads
    <3>1. /\ due' \in Seq(Orders) /\ due = <<>>
          /\ \A k \in 1 .. Len(due') : due'[k].id \in Due
          /\ \A j, k \in 1 .. Len(due') : due'[j].id = due'[k].id => j = k
      BY <2>1, ReadOnce DEF SchedulerReads
    <3>2. turn' = "act" /\ turn = "act" /\ UNCHANGED <<plan, ran, crashed>>
      BY <2>1 DEF SchedulerReads, ScheduleInv, history
    <3>3. ~crashed => \A s \in Schedules : plan[s].enabled => ran[s] = 0
      BY <3>2 DEF ScheduleInv, InHand
    <3>4. \A k \in 1 .. Len(due') : /\ plan[due'[k].id].action # "unused"
                                    /\ ~crashed => ran[due'[k].id] = 0
      BY <3>1, <3>3 DEF Due, ScheduleInv, ScheduleActions
    <3> QED
      BY <3>1, <3>2, <3>3, <3>4 DEF ScheduleInv, Waiting
  <2>2. CASE ScheduledResume \/ ScheduledPause \/ ScheduledCancel
    <3>1. /\ due # <<>> /\ turn = "act" /\ turn' # "act" /\ Count1
          /\ UNCHANGED <<due, crashed>>
      BY <2>2 DEF ScheduledResume, ScheduledPause, ScheduledCancel, Action, Turn, SchedulerKeeps
    <3>2. plan' \in {plan, Disabled}
      BY <2>2 DEF ScheduledResume, ScheduledPause, ScheduledCancel
    <3>3. OnlyOff
      BY <3>2 DEF Disabled, TypeOK, Rows
    <3> QED
      BY <3>1, <3>3, TakenInHand
  <2>3. CASE ScheduledLaunch \/ ScheduledKill
    <3>1. turn # "act" /\ turn' # "act" /\ UNCHANGED <<due, plan, ran, crashed>>
      BY <2>3 DEF ScheduledLaunch, ScheduledKill, SchedulerKeeps, Turn
    <3> QED
      BY <3>1 DEF ScheduleInv, InHand, Waiting, Current
  <2>4. CASE SchedulerUpdatesRow
    BY <2>4, RowUpdated
  <2> QED
    BY <1>7, <2>1, <2>2, <2>3, <2>4 DEF SchedulerStep
<1>8. CASE NextDay
  BY <1>1, <1>8 DEF NextDay, history
<1>9. CASE Crash
  BY <1>9 DEF Crash, ScheduleInv, Waiting
<1>10. CASE UNCHANGED vars
  BY <1>1, <1>10 DEF vars, scheduler, history
<1> QED
  BY <1>2, <1>3, <1>4, <1>5, <1>6, <1>7, <1>8, <1>9, <1>10 DEF Next

(***************************************************************************)
(* The theorems.                                                           *)
(***************************************************************************)
\* The inductive invariant.
TorrentInv == JobInv /\ ScheduleInv

\* It holds at the start ...
LEMMA InitState == ASSUME Init PROVE TorrentInv
<1>1. cmd.pc = "idle" /\ deleter.pc = "off" /\ cmd \in Commands
  BY DEF Init, NoCommand, DeleterOff, Commands, CommandPCs
<1>2. \A s \in Schedules : plan[s] \in Rows /\ plan[s].action = "unused" /\ ~plan[s].enabled
  BY DEF Init, Row, Rows, ScheduleActions
<1>3. due = <<>> /\ Len(due) = 0 /\ due \in Seq(Orders)
  BY DEF Init
<1>4. plan \in [Schedules -> Rows] /\ ran \in [Schedules -> Nat]
  BY <1>2 DEF Init
<1>5. deleter \in [pc : {"off", "wait", "remove", "purge"}, storage : BOOLEAN] /\ now \in 1 .. Days
  BY DaysAssumption DEF Init, DeleterOff
<1>6. TypeOK
  BY <1>1, <1>3, <1>4, <1>5 DEF Init, TypeOK, Statuses
<1>7. ScheduleInv
  BY <1>2, <1>3 DEF Init, ScheduleInv
<1>8. Watched /\ CleanersKnow /\ GoodIsWhole
  BY <1>1, <1>3 DEF Init, Watched, CleanersKnow, CleanUp, GoodIsWhole
<1> QED
  BY <1>6, <1>7, <1>8 DEF TorrentInv, JobInv

\* ... and is preserved by every step.
LEMMA InvStep == ASSUME TorrentInv, [Next]_vars PROVE TorrentInv'
<1> USE DEF TorrentInv, JobInv
<1>1. TypeOK' /\ ScheduleInv'
  BY TypeStep, ScheduleStep
<1>2. Watched' /\ CleanersKnow' /\ GoodIsWhole'
  BY WatchedStep, CleanersStep, WholeStep
<1> QED
  BY <1>1, <1>2

\* The invariant holds of every behaviour of the torrent job.
THEOREM TorrentInvariant == Spec => []TorrentInv
<1>1. Init => TorrentInv
  BY InitState
<1>2. TorrentInv /\ [Next]_vars => TorrentInv'
  BY InvStep
<1> QED
  BY <1>1, <1>2, PTL DEF Spec

\* In every state: no aria2c without its worker, and no action of a schedule carried out twice
\* for one of its times, unless the program died in between.
THEOREM JobIsSound == Spec => []TorrentSafe
<1>1. TorrentInv => TorrentSafe
  BY DEF TorrentInv, JobInv, Watched, ScheduleInv, TorrentSafe, ProcessHasWorker,
     ScheduleRunsOnce
<1> QED
  BY <1>1, TorrentInvariant, PTL

\* Only a worker completes a job, after a download that ended well.
LEMMA OnlyWorkersComplete ==
    ASSUME Next, status' = "completed", status # "completed"
    PROVE  WorkerComplete
<1> USE DEF NoRow, job, Ended, Write, Fail
<1>1. CASE WorkerStep
  BY <1>1 DEF WorkerStep, WorkerStart, WorkerSpawn, WorkerRegister, WorkerWatch, WorkerPoll,
     WorkerBreaks, WorkerComplete, WorkerError, WorkerFail, WorkerUnlist
<1>2. CASE Aria2 \/ Clicks \/ NextDay
  BY <1>2
  DEF Aria2, Aria2Writes, Aria2Exits, Clicks, ClickPause, ClickResume, ClickStop, ClickDelete,
     Click, ClickSchedule, ClickUnschedule, NextDay
<1>3. CASE CommandStep
  BY <1>3
  DEF CommandStep, PauseWrite, CommandKills, ResumeRead, ResumeWrite, StopRead, StopWrite, StopKills,
     DeleteRead, DeleteMark, DeleteFiles, DeleteRow
<1>4. CASE ThreadStep
  BY <1>4
  DEF ThreadStep, ResumerStarts, ResumerGivesUp, CleanerWaits, CleanerRemoves, DeleterWaits,
     DeleterRemoves, DeleterPurges
<1>5. CASE SchedulerStep
  BY <1>5 DEF SchedulerStep, SchedulerReads, ScheduledResume, ScheduledLaunch, ScheduledPause,
     ScheduledCancel, ScheduledKill, SchedulerUpdatesRow
<1>6. CASE Crash
  BY <1>6 DEF Crash
<1> QED
  BY <1>1, <1>2, <1>3, <1>4, <1>5, <1>6 DEF Next

\* What has ended is started only by an order that was on its way: no order is accepted
\* for it, and a launch uses one up.
LEMMA EndedIsFinal ==
    ASSUME TorrentInv, Next, status \in Ended
    PROVE  /\ status' \notin {"queued", "running"}
           /\ OnTheWay' <= OnTheWay
           /\ Launched => OnTheWay' < OnTheWay
<1> USE DEF OnTheWay, Launched, Ended, NoRow, job, process, threads, scheduler
<1>1. resumers \in Nat /\ (pc = "none" <=> registry = "none")
  BY DEF TorrentInv, JobInv, TypeOK, Watched
<1>2. CASE WorkerStep
  <2>1. UNCHANGED <<cmd, resumers, turn>> /\ ~Launched
    BY <1>1, <1>2 DEF WorkerStep, WorkerStart, WorkerSpawn, WorkerRegister, WorkerWatch, WorkerPoll,
     WorkerBreaks, WorkerComplete, WorkerError, WorkerFail, WorkerUnlist, WorkerKeeps
  <2>2. status' \notin {"queued", "running"}
    BY <1>2 DEF WorkerStep, WorkerStart, WorkerSpawn, WorkerRegister, WorkerWatch, WorkerPoll,
     WorkerBreaks, WorkerComplete, WorkerError, WorkerFail, WorkerUnlist, Fail
  <2> QED
    BY <1>1, <2>1, <2>2
<1>3. CASE Aria2 \/ NextDay
  BY <1>1, <1>3 DEF Aria2, Aria2Writes, Aria2Exits, NextDay
<1>4. CASE Clicks
  <2>1. UNCHANGED <<status, registry, resumers, turn>> /\ cmd'.pc # "resumeWrite"
    BY <1>4 DEF Clicks, ClickPause, ClickResume, ClickStop, ClickDelete, Click, ClickSchedule,
       ClickUnschedule
  <2> QED
    BY <1>1, <2>1
<1>5. CASE CommandStep
  <2>1. UNCHANGED <<registry, turn>>
    BY <1>5 DEF CommandStep, PauseWrite, CommandKills, ResumeRead, ResumeWrite, StopRead, StopWrite,
       StopKills, DeleteRead, DeleteMark, DeleteFiles, DeleteRow, CommandKeeps
  <2>2. status' \notin {"queued", "running"}
    BY <1>5 DEF CommandStep, PauseWrite, CommandKills, ResumeRead, ResumeWrite, StopRead, StopWrite,
       StopKills, DeleteRead, DeleteMark, DeleteFiles, DeleteRow, Write
  <2>3. CASE ResumeWrite
    <3>1. cmd.pc = "resumeWrite" /\ resumers' = resumers + 1 /\ cmd'.pc = "idle"
      BY <2>3 DEF ResumeWrite, Done, NoCommand
    <3> QED
      BY <1>1, <2>1, <2>2, <3>1
  <2>4. CASE ~ResumeWrite
    <3>1. resumers' = resumers /\ cmd'.pc # "resumeWrite"
      BY <1>5, <2>4 DEF CommandStep, PauseWrite, CommandKills, ResumeRead, StopRead, StopWrite,
         StopKills, DeleteRead, DeleteMark, DeleteFiles, DeleteRow, CommandKeeps, Done, Then, NoCommand,
         TorrentInv, JobInv, TypeOK, Commands
    <3> QED
      BY <1>1, <2>1, <2>2, <3>1
  <2> QED
    BY <2>3, <2>4
<1>6. CASE ThreadStep
  <2>1. CASE ResumerStarts
    BY <1>1, <2>1 DEF ResumerStarts, ThreadKeeps
  <2>2. CASE ResumerGivesUp
    BY <1>1, <2>2 DEF ResumerGivesUp, ThreadKeeps, Fail
  <2>3. CASE CleanerWaits \/ CleanerRemoves \/ DeleterWaits \/ DeleterRemoves \/ DeleterPurges
    BY <1>1, <2>3 DEF CleanerWaits, CleanerRemoves, DeleterWaits, DeleterRemoves, DeleterPurges,
       ThreadKeeps
  <2> QED
    BY <1>6, <2>1, <2>2, <2>3 DEF ThreadStep
<1>7. CASE SchedulerStep
  <2>1. CASE ScheduledLaunch
    BY <1>1, <2>1 DEF ScheduledLaunch, SchedulerKeeps, Turn
  <2>2. CASE SchedulerReads \/ SchedulerUpdatesRow
    BY <1>1, <2>2 DEF SchedulerReads, SchedulerUpdatesRow, Turn
  <2>3. CASE ScheduledResume \/ ScheduledPause \/ ScheduledCancel \/ ScheduledKill
    <3>1. UNCHANGED <<registry, cmd, resumers>> /\ status' \notin {"queued", "running"}
      BY <2>3 DEF ScheduledResume, ScheduledPause, ScheduledCancel, ScheduledKill, SchedulerKeeps
    <3>2. turn' # "launch"
      BY <2>3 DEF ScheduledResume, ScheduledPause, ScheduledCancel, ScheduledKill, Turn
    <3> QED
      BY <1>1, <3>1, <3>2
  <2> QED
    BY <1>7, <2>1, <2>2, <2>3 DEF SchedulerStep
<1>8. CASE Crash
  BY <1>1, <1>8 DEF Crash, NoCommand
<1> QED
  BY <1>2, <1>3, <1>4, <1>5, <1>6, <1>7, <1>8 DEF Next

\* What was decided stands: no files are removed under aria2c, and what is completed is whole,
\* unless a thread has written over a decision (`overridden'); what has ended does not become
\* queued or running, no order to start it is accepted any more, and a worker is launched for
\* it only by an order that was accepted before its end.
THEOREM WhatWasDecidedStands == Spec => DecisionsStand
<1> DEFINE Keeps == CleanerRemoves \/ DeleterRemoves => child # "running" \/ overridden \/ NoRow
           Ends  == (status \in Ended) =>
                      /\ status' \notin {"queued", "running"}
                      /\ OnTheWay' <= OnTheWay
                      /\ Launched => OnTheWay' < OnTheWay
           Whole == status' = "completed" =>
                      status = "completed" \/ data = "whole" \/ cmd.storage \/ overridden'
<1>1. TorrentInv => Keeps
  BY DEF TorrentInv, JobInv, CleanersKnow, Watched, CleanerRemoves, DeleterRemoves
<1>2. TorrentInv /\ [Next]_vars => [Ends]_vars
  BY EndedIsFinal
<1>3. TorrentInv /\ [Next]_vars => [Whole]_vars
  <2> SUFFICES ASSUME TorrentInv, Next, status' = "completed", status # "completed"
               PROVE  data = "whole" \/ cmd.storage \/ overridden'
    OBVIOUS
  <2>1. WorkerComplete
    BY OnlyWorkersComplete
  <2>2. pc = "complete" /\ ~NoRow /\ (overridden => overridden')
    BY <2>1 DEF WorkerComplete, Overriding, NoRow
  <2> QED
    BY <2>2 DEF TorrentInv, JobInv, GoodIsWhole
<1>4. Spec => [][Keeps]_vars /\ [][Ends]_vars /\ [][Whole]_vars
  BY <1>1, <1>2, <1>3, TorrentInvariant, PTL DEF Spec
<1> QED
  BY <1>4 DEF DecisionsStand, WriterKeepsFiles, EndedStaysEnded, CompletedIsWhole
=============================================================================
