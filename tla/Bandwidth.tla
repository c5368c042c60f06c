------------------------------ MODULE Bandwidth ------------------------------
(***************************************************************************)
(* The speed limit of a download (downloads/bandwidth.rs): the limit for   *)
(* everything and those set for one job or one playlist, from the commands *)
(* to the limiter of an HTTP download, whose readers pay for what they     *)
(* read on one schedule before they may keep it.  The sequential transfer  *)
(* loop asks for the limit again on every turn (downloads/worker.rs); the  *)
(* segment threads share the limiter they were started with                *)
(* (downloads/segmented.rs).                                               *)
(*                                                                         *)
(* A byte is its place in the order in which the bytes were paid for.  The *)
(* unit of the clock is one of Second parts of a second.                   *)
(***************************************************************************)
EXTENDS Integers

CONSTANTS
    Jobs, job,      \* jobs that may have a limit of their own; the observed one
    Playlist,       \* the jobs of a playlist
    Readers,        \* threads that read the observed job
    Sequential,     \* the transfer loop of one reader, not segments
    Second,         \* NANOS_PER_SECOND
    MinRate, MaxRate,            \* the limits accepted, in bytes per second
    MinGrant, MaxGrant, Share,   \* a read is for one of Share parts of a second's bytes
    Offered,        \* limits the user may ask for, 0 for none
    Stored,         \* limits an earlier version may have left, 0 for none
    MaxClock, MaxPaid, MaxOps    \* bounds: time, bytes of a limiter, commands and launches

Bounds ==
    /\ {Second, Share, MinRate, MinGrant} \subseteq Nat \ {0}
    /\ {MaxRate, MaxGrant} \subseteq Nat /\ MinGrant <= MaxGrant
    /\ job \in Jobs /\ Playlist \subseteq Jobs /\ Offered \cup Stored \subseteq Nat
    /\ Sequential \in BOOLEAN /\ (Sequential => \A s, t \in Readers : s = t)

VARIABLES
    general,    \* settings.download_bandwidth_v1, 0 for no row and for "unlimited"
    own,        \* download_speed_limits by job: -1 for no row, 0 for an explicit "no limit"
    writing,    \* the playlist command in progress: the jobs left, the limit
    ops,        \* budget spent
    clock,
    limiter,    \* rate (0: none), when it was made, its next free instant, the bytes paid for
    asked,      \* bandwidth_limit: the answer the transfer loop acted on
    reader,     \* per reader: where it is, the bytes it waits for, until when
    kept,       \* bytes paid with this limiter that their readers have kept
    cap,        \* history: the limit in force, since when, the bytes kept since
    crossed     \* history: the limit changed between the two reads of one turn

settings == <<general, own, writing>>
vars == <<settings, ops, clock, limiter, asked, reader, kept, cap, crossed>>

----------------------------------------------------------------------------
(* The settings. *)

Valid(rate) == rate \in MinRate..MaxRate        \* BandwidthPolicy::try_from
Accepted(rate) == rate = 0 \/ Valid(rate)

General(g) == IF Valid(g) THEN g ELSE 0         \* read_bandwidth_settings

\* read_job_bandwidth_policy
Policy(g, o, j) == IF o[j] = 0 THEN 0 ELSE IF Valid(o[j]) THEN o[j] ELSE General(g)
InForce == Policy(general, own, job)

\* What a command changes is in force from then on, and its bytes are counted anew.
Recap ==
    cap' = IF Policy(general', own', job) = InForce THEN cap
           ELSE [rate |-> Policy(general', own', job), since |-> clock, bytes |-> 0]
Command ==
    /\ writing.jobs = {}                        \* the commands share one locked connection
    /\ ops < MaxOps /\ ops' = ops + 1
SettingsOnly == Recap /\ UNCHANGED <<clock, limiter, asked, reader, kept, crossed>>

\* persist_bandwidth_settings, persist_job_bandwidth_settings: a limit out of range is
\* refused and nothing is written.
SaveGeneral(rate) ==
    /\ Command
    /\ general' = IF Accepted(rate) THEN rate ELSE general
    /\ UNCHANGED <<own, writing>> /\ SettingsOnly

SaveOwn(j, rate) ==
    /\ Command
    /\ own' = IF Accepted(rate) THEN [own EXCEPT ![j] = rate] ELSE own
    /\ UNCHANGED <<general, writing>> /\ SettingsOnly

\* persist_playlist_bandwidth_settings: one row after another, without a transaction.
SavePlaylist(rate) ==
    /\ Command
    /\ writing' = IF Accepted(rate) THEN [jobs |-> Playlist, rate |-> rate] ELSE writing
    /\ UNCHANGED <<general, own>> /\ SettingsOnly

PlaylistRow(j) ==
    /\ j \in writing.jobs
    /\ \/ own' = [own EXCEPT ![j] = writing.rate] /\ writing' = [writing EXCEPT !.jobs = @ \ {j}]
       \/ writing' = [writing EXCEPT !.jobs = {}] /\ UNCHANGED own      \* a row fails
    /\ UNCHANGED <<general, ops>> /\ SettingsOnly

----------------------------------------------------------------------------
(* The limiter. *)

NoLimiter == [rate |-> 0, born |-> 0, next |-> 0, paid |-> 0]
\* BandwidthPolicy::limiter.  A new limiter has a clock of its own that starts now.
Fresh(rate) == [rate |-> rate, born |-> clock, next |-> clock, paid |-> 0]

Cap(n, limit) == IF n < limit THEN n ELSE limit
\* BandwidthLimiter::read_grant.  The buffer is as long as the largest grant.
ReadGrant(rate) ==
    IF rate = 0 THEN MaxGrant
    ELSE LET fair == rate \div Share IN Cap(IF fair < MinGrant THEN MinGrant ELSE fair, MaxGrant)

\* Mutant: the duration of a read is rounded down.
DurationDown(bytes, rate) == (bytes * Second) \div rate
Duration(bytes, rate) == (bytes * Second + rate - 1) \div rate

At(t, place) == reader[t].pc = place
Bytes(place, from, to, until) == [pc |-> place, from |-> from, to |-> to, until |-> until]
NoBytes(place) == Bytes(place, 1, 0, 0)
Goto(t, place) == reader' = [reader EXCEPT ![t] = NoBytes(place)]
ReaderOnly == UNCHANGED <<settings, ops, clock>>

\* Where a reader goes on.  The segment threads keep their limiter.
NextTurn == IF Sequential THEN "turn" ELSE "read"

\* The start of a download, when no reader of it is left.
Launch ==
    /\ ops < MaxOps /\ ops' = ops + 1
    /\ \A t \in Readers : At(t, "off")
    /\ limiter' = Fresh(InForce) /\ asked' = InForce /\ kept' = {}
    /\ reader' = [t \in Readers |-> NoBytes(NextTurn)]
    /\ UNCHANGED <<settings, clock, cap, crossed>>

\* The turn of the transfer loop: the limit is read, and read again for a new limiter if it
\* is not the one acted on last.
Turn(t) ==
    /\ At(t, "turn")
    /\ IF InForce = asked THEN Goto(t, "read") /\ UNCHANGED asked
       ELSE Goto(t, "replace") /\ asked' = InForce
    /\ ReaderOnly /\ UNCHANGED <<limiter, kept, cap, crossed>>

Replace(t) ==
    /\ At(t, "replace")
    /\ limiter' = Fresh(InForce) /\ kept' = {}
    /\ crossed' = (crossed \/ InForce # asked)
    /\ Goto(t, "read")
    /\ ReaderOnly /\ UNCHANGED <<asked, cap>>

\* Mutant: an idle limiter saves up the time in which nothing was read.
ReadFromNext(t, bytes) ==
    /\ At(t, "read") /\ bytes <= ReadGrant(limiter.rate) /\ limiter.paid + bytes <= MaxPaid
    /\ LET end == limiter.next + (IF limiter.rate = 0 THEN 0 ELSE Duration(bytes, limiter.rate))
       IN  /\ limiter' = [limiter EXCEPT !.next = end, !.paid = @ + bytes]
           /\ reader' = [reader EXCEPT ![t] =
                Bytes("wait", limiter.paid + 1, limiter.paid + bytes, end)]
    /\ ReaderOnly /\ UNCHANGED <<asked, kept, cap, crossed>>

\* A reader has read, and throttle_bytes reserves the time it takes, after what is reserved.
Read(t, bytes) ==
    /\ At(t, "read") /\ bytes <= ReadGrant(limiter.rate) /\ limiter.paid + bytes <= MaxPaid
    /\ LET start == IF limiter.next < clock THEN clock ELSE limiter.next
           end == IF limiter.rate = 0 THEN clock ELSE start + Duration(bytes, limiter.rate)
       IN  /\ limiter' = [limiter EXCEPT !.next = end, !.paid = @ + bytes]
           /\ reader' = [reader EXCEPT ![t] =
                Bytes("wait", limiter.paid + 1, limiter.paid + bytes, end)]
    /\ ReaderOnly /\ UNCHANGED <<asked, kept, cap, crossed>>

\* The wait is over, and the bytes go to the file.
Keep(t) ==
    /\ At(t, "wait") /\ clock >= reader[t].until
    /\ kept' = kept \cup reader[t].from .. reader[t].to
    /\ cap' = [cap EXCEPT !.bytes = @ + reader[t].to - reader[t].from + 1]
    /\ Goto(t, NextTurn)
    /\ ReaderOnly /\ UNCHANGED <<limiter, asked, crossed>>

\* The wait sees that the job was stopped: the bytes are dropped and the time they had
\* reserved is not given back.  A segment thread ends; the loop reads the status again.
Interrupted(t) ==
    /\ At(t, "wait") /\ limiter.rate # 0
    /\ IF Sequential THEN Goto(t, "turn") \/ Goto(t, "off") ELSE Goto(t, "off")
    /\ ReaderOnly /\ UNCHANGED <<limiter, asked, kept, cap, crossed>>

\* The body or the thread ends between two reads.
Ends(t) ==
    /\ At(t, "read")
    /\ Goto(t, "off")
    /\ ReaderOnly /\ UNCHANGED <<limiter, asked, kept, cap, crossed>>

Tick ==
    /\ clock < MaxClock /\ clock' = clock + 1
    /\ UNCHANGED <<settings, ops, limiter, asked, reader, kept, cap, crossed>>

----------------------------------------------------------------------------
Init ==
    /\ general \in Stored /\ own = [j \in Jobs |-> -1]
    /\ writing = [jobs |-> {}, rate |-> 0] /\ ops = 0 /\ clock = 0
    /\ limiter = NoLimiter /\ asked = 0 /\ kept = {}
    /\ reader = [t \in Readers |-> NoBytes("off")]
    /\ cap = [rate |-> General(general), since |-> 0, bytes |-> 0] /\ crossed = FALSE

Next ==
    \/ \E rate \in Offered :
         SaveGeneral(rate) \/ SavePlaylist(rate) \/ \E j \in Jobs : SaveOwn(j, rate)
    \/ \E j \in Jobs : PlaylistRow(j)
    \/ Launch \/ Tick
    \/ \E t \in Readers :
         \/ Turn(t) \/ Replace(t) \/ Keep(t) \/ Interrupted(t) \/ Ends(t)
         \/ \E bytes \in 1..MaxGrant : Read(t, bytes)

Spec == Init /\ [][Next]_vars

----------------------------------------------------------------------------
TypeOK ==
    /\ general \in Nat /\ own \in [Jobs -> Nat \cup {-1}]
    /\ writing \in [jobs : SUBSET Playlist, rate : Nat] /\ ops \in Nat /\ clock \in Nat
    /\ limiter \in [rate : Nat, born : Nat, next : Nat, paid : Nat] /\ asked \in Nat
    /\ reader \in [Readers -> [pc : {"off", "turn", "replace", "read", "wait"},
                               from : Nat \ {0}, to : Nat, until : Nat]]
    /\ kept \subseteq Nat \ {0}
    /\ cap \in [rate : Nat, since : Nat, bytes : Nat] /\ crossed \in BOOLEAN

\* No reader keeps a byte before its turn at the limit's speed, whatever other readers pay
\* for or give up meanwhile and however long the limiter was idle.
Paced == limiter.rate # 0 => \A byte \in kept : byte * Second <= limiter.rate * (clock - limiter.born)

\* From the moment a limit is in force, a running transfer loop keeps no more bytes than the
\* limit allows and the one read that was under way.  The two reads of the limit in one turn
\* are the exception: a limit that is changed between them and changed back before the next
\* turn leaves a limiter of the wrong rate, which nothing replaces.
CapHolds ==
    Sequential /\ ~crossed /\ cap.rate # 0 =>
        (cap.bytes - MaxGrant) * Second <= cap.rate * (clock - cap.since)
=============================================================================
