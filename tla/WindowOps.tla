----------------------------- MODULE WindowOps -----------------------------
(***************************************************************************)
(* The preparation windows and the player (subwindows.rs, windows/player.rs *)
(* media/player.rs) and the operation each of them owns (app/state.rs): a   *)
(* generation that a close, a reopening or the opening of another window    *)
(* cancels, with the processes that were started for it.                   *)
(*                                                                         *)
(* Native window work runs on one UI thread, in the order it was queued;    *)
(* commands run on their own threads and may change the registry before     *)
(* the UI thread gets to what they queued.                                 *)
(***************************************************************************)
EXTENDS Integers, Sequences, FiniteSets, TLC

CONSTANTS
    Prep,          \* labels of the preparation windows
    Player         \* the label of the player

Labels == Prep \cup {Player}

VARIABLES
    registry,      \* WindowOperationRegistry: the operation of each label, 0 for none
    ops,           \* the operations created, by generation
    draining,      \* cancel_window_operation between its flag and its drain: <<operation, thread>>
    win,           \* the native window of each label
    active,        \* ACTIVE_PREPARATION_LABELS
    mainEnabled,   \* the main window accepts input
    queue,         \* what run_on_main_thread has queued
    commands       \* bound: commands and clicks left

winVars == <<registry, ops, draining, win, active, mainEnabled, queue, commands>>

IsCancelled(o) == ops[o].cancelled \/ ops[o].closed

----------------------------------------------------------------------------
(* The registry.                                                           *)

Fresh == [cancelled |-> FALSE, closed |-> FALSE, processes |-> {}]

\* begin_window_operation over a state of the operations: the previous operation of
\* the label is cancelled.
Begun(label, before, drained, thread) ==
    LET old == registry[label] IN
    /\ ops' = Append(IF old = 0 THEN before ELSE [before EXCEPT ![old].cancelled = TRUE], Fresh)
    /\ registry' = [registry EXCEPT ![label] = Len(ops) + 1]
    /\ draining' = drained \cup (IF old = 0 THEN {} ELSE {<<old, thread>>})

Closed(os) ==
    [o \in DOMAIN ops |->
        IF o \in os THEN [ops[o] EXCEPT !.closed = TRUE, !.cancelled = TRUE] ELSE ops[o]]

\* invalidate_window_operation: a label that never had an operation gets a closed one.
Invalidated(label, thread) ==
    IF registry[label] = 0
    THEN /\ ops' = Append(ops, [Fresh EXCEPT !.closed = TRUE, !.cancelled = TRUE])
         /\ registry' = [registry EXCEPT ![label] = Len(ops) + 1]
         /\ draining' = draining \cup {<<Len(ops) + 1, thread>>}
    ELSE /\ ops' = Closed({registry[label]})
         /\ draining' = draining \cup {<<registry[label], thread>>}
         /\ UNCHANGED registry

\* The second half of cancel_window_operation: the processes are taken and killed.
Drain(o, thread) ==
    /\ <<o, thread>> \in draining
    /\ draining' = draining \ {<<o, thread>>}
    /\ ops' = [ops EXCEPT ![o].processes = {}]
    /\ UNCHANGED <<registry, win, active, mainEnabled, queue, commands>>

----------------------------------------------------------------------------
(* Commands and clicks.                                                    *)

Command == commands > 0 /\ commands' = commands - 1

UiFree == \A d \in draining : d[2] # "ui"
Head1(task) == UiFree /\ queue # << >> /\ Head(queue) = task /\ queue' = Tail(queue)

\* open_preparation_window only queues.
AskOpen(l) ==
    /\ Command /\ l \in Prep
    /\ queue' = Append(queue, <<"open", l>>)
    /\ UNCHANGED <<registry, ops, draining, win, active, mainEnabled>>

\* show_preparation_window, asked by the page of the window when it has loaded: late, it may find
\* that another window has opened in front of its own, or that its own is going.
AskShow(l) ==
    /\ Command /\ l \in Prep /\ win[l] # "none"
    /\ queue' = Append(queue, <<"show", l>>)
    /\ UNCHANGED <<registry, ops, draining, win, active, mainEnabled>>

\* preparation_window_action and player_window_action, "close", from the window itself:
\* the operation is invalidated before the native work is queued.
AskClose(l) ==
    /\ Command /\ win[l] = "shown"
    /\ Invalidated(l, "command")
    /\ queue' = Append(queue, <<"close", l>>)
    /\ UNCHANGED <<win, active, mainEnabled>>

\* open_online_media_player: a new generation at once, the window when its turn comes.
AskPlay ==
    /\ Command
    /\ Begun(Player, ops, draining, "command")
    /\ queue' = Append(queue, <<IF win[Player] = "none" THEN "build" ELSE "show", Player>>)
    /\ UNCHANGED <<win, active, mainEnabled>>

\* open_media_player and open_playlist_media_player, for what is downloaded: the same
\* window and no operation.
AskPlayFile ==
    /\ Command
    /\ queue' = Append(queue, <<IF win[Player] = "none" THEN "build" ELSE "show", Player>>)
    /\ UNCHANGED <<registry, ops, draining, win, active, mainEnabled>>

\* The listener of CloseRequested; the native window goes after it.
CloseRequested(l) ==
    /\ Invalidated(l, "ui")
    /\ win' = [win EXCEPT ![l] = "dying"]

\* The close button of the frame or of the system.
NativeClose(l) ==
    /\ Command /\ UiFree /\ win[l] = "shown"
    /\ CloseRequested(l)
    /\ active' = active \ {l}
    /\ mainEnabled' = (mainEnabled \/ (l \in Prep /\ active \ {l} = {}))
    /\ UNCHANGED queue

----------------------------------------------------------------------------
(* What the UI thread does.                                                *)

\* open_preparation_window_now: the other preparation windows are hidden and their
\* operations closed, the label gets a new one; a window that does not come up
\* leaves the main window usable.
RunOpen(l) ==
    /\ Head1(<<"open", l>>)
    /\ LET others == {m \in Prep \ {l} : win[m] # "none"}
           theirs == {registry[m] : m \in others}
           kept   == active \ others
           aside  == [m \in Labels |-> IF m \in others /\ win[m] = "shown" THEN "hidden" ELSE win[m]]
       IN  /\ Begun(l, Closed(theirs), draining \cup {<<o, "ui">> : o \in theirs}, "ui")
           /\ \/ /\ win' = [aside EXCEPT ![l] = IF @ = "dying" THEN @ ELSE "shown"]
                 /\ active' = kept \cup {l}
                 /\ mainEnabled' = FALSE
              \/ /\ win' = [aside EXCEPT ![l] = IF @ = "none" THEN "hidden" ELSE @]   \* show fails
                 /\ active' = kept
                 /\ mainEnabled' = (kept = {})
              \/ /\ win' = aside                                             \* not even built
                 /\ active' = kept
                 /\ mainEnabled' = TRUE
    /\ UNCHANGED commands

\* show_preparation_window_now: no operation begins and no other window is hidden.  The main
\* window cannot be disabled, the window does not show, or it does.
RunReveal(l) ==
    /\ Head1(<<"show", l>>) /\ l \in Prep
    /\ \/ UNCHANGED <<win, active, mainEnabled>>
       \/ /\ win[l] # "none" /\ mainEnabled' = (active = {})
          /\ UNCHANGED <<win, active>>
       \/ /\ win[l] # "none" /\ mainEnabled' = FALSE
          /\ win' = [win EXCEPT ![l] = IF @ = "dying" THEN @ ELSE "shown"]
          /\ active' = active \cup {l}
    /\ UNCHANGED <<registry, ops, draining, commands>>

\* preparation_window_action_now and player_window_action, "close".
RunClose(l) ==
    /\ Head1(<<"close", l>>)
    /\ \/ win[l] = "none" /\ UNCHANGED <<registry, ops, draining, win, active, mainEnabled>>
       \/ /\ win[l] = "dying"
          /\ IF l = Player THEN UNCHANGED <<registry, ops, draining, active, mainEnabled>>
             ELSE /\ Invalidated(l, "ui")
                  /\ active' = active \ {l}
                  /\ mainEnabled' = TRUE
          /\ UNCHANGED win
       \/ /\ win[l] \in {"shown", "hidden"}
          /\ CloseRequested(l)
          /\ active' = active \ {l}
          /\ mainEnabled' = (l \in Prep \/ mainEnabled)
    /\ UNCHANGED commands

\* build_media_player_window, or the existing window shown again.
RunBuild ==
    /\ Head1(<<"build", Player>>)
    /\ \/ win[Player] = "none" /\ win' = [win EXCEPT ![Player] = "shown"]
       \/ UNCHANGED win
    /\ UNCHANGED <<registry, ops, draining, active, mainEnabled, commands>>

RunShow ==
    /\ Head1(<<"show", Player>>)
    /\ win' = [win EXCEPT ![Player] = IF @ = "hidden" THEN "shown" ELSE @]
    /\ UNCHANGED <<registry, ops, draining, active, mainEnabled, commands>>

\* The native window is gone; a preparation window has a listener for it.
Destroyed(l) ==
    /\ UiFree /\ win[l] = "dying"
    /\ win' = [win EXCEPT ![l] = "none"]
    /\ IF l = Player THEN UNCHANGED <<registry, ops, draining, active, mainEnabled>>
       ELSE /\ Invalidated(l, "ui")
            /\ active' = active \ {l}
            /\ mainEnabled' = (mainEnabled \/ active \ {l} = {})
    /\ UNCHANGED <<queue, commands>>

----------------------------------------------------------------------------
WinInit ==
    /\ registry = [l \in Labels |-> 0]
    /\ ops = << >>
    /\ draining = {}
    /\ win = [l \in Labels |-> "none"]
    /\ active = {}
    /\ mainEnabled = TRUE
    /\ queue = << >>

Ui ==
    \/ \E l \in Labels : RunOpen(l) \/ RunReveal(l) \/ RunClose(l) \/ Destroyed(l)
    \/ RunBuild \/ RunShow
    \/ \E d \in draining : Drain(d[1], d[2])

WinNext ==
    \/ \E l \in Labels : AskOpen(l) \/ AskShow(l) \/ AskClose(l) \/ NativeClose(l)
    \/ AskPlay \/ AskPlayFile
    \/ Ui

----------------------------------------------------------------------------
WinTypeOK ==
    /\ registry \in [Labels -> 0..Len(ops)]
    /\ win \in [Labels -> {"none", "hidden", "shown", "dying"}]
    /\ active \subseteq Prep /\ mainEnabled \in BOOLEAN
    /\ draining \subseteq (DOMAIN ops) \X {"ui", "command"}

\* Once the windows have settled the main window is usable exactly when no preparation
\* window is open in front of it (set_main_modal_state, restore_main_if_no_preparation):
\* no order of opens, closes and failures leaves the user with a dead main window.
MainNeverStuck ==
    /\ ~mainEnabled => active # {}
    /\ \A l \in Prep : l \in active => win[l] \in {"shown", "dying"}

\* An operation that was cancelled keeps no process, and gets none later: whatever was
\* registered before the flag is drained, whatever comes after it is refused.
CancelledOwnsNothing ==
    \A o \in DOMAIN ops :
        IsCancelled(o) /\ (\A d \in draining : d[1] # o) => ops[o].processes = {}
=============================================================================
