--------------------------- MODULE BandwidthProof ---------------------------
(***************************************************************************)
(* Theorems about Bandwidth, for any limits, any number of readers and any *)
(* reads: no reader keeps its bytes before their turn, and the transfer    *)
(* loop keeps to the limit that is in force, but for the one read that was *)
(* under way when the limit changed.                                       *)
(***************************************************************************)
EXTENDS Bandwidth, TLAPS

Earns(bytes, time, rate) == bytes * Second <= rate * time

Launched == \A t \in Readers : reader[t].pc \in {"turn", "replace"} => Sequential

\* What was paid for ends no later than the schedule, and so does each reader's part of it.
Schedule ==
    limiter.rate # 0 =>
        /\ limiter.born <= clock /\ limiter.born <= limiter.next
        /\ Earns(limiter.paid, limiter.next - limiter.born, limiter.rate)
        /\ \A t \in Readers : reader[t].pc = "wait" =>
             Earns(reader[t].to, reader[t].until - limiter.born, limiter.rate)

\* A reader waits for one read, no longer than a grant.
Grants == \A t \in Readers :
              reader[t].pc = "wait" => reader[t].to - reader[t].from + 1 \in 1..MaxGrant

PacedInv == TypeOK /\ Grants /\ Launched /\ Schedule /\ Paced

\* What the loop has kept, or is about to, since the limit in force began: the limit's worth
\* of the time up to some instant, and one read.
Within(bytes, rate, time) == (bytes - MaxGrant) * Second <= rate * time
TimeTo(end) == IF end < cap.since THEN 0 ELSE end - cap.since
Size(t) == reader[t].to - reader[t].from + 1

\* The loop acts on the rate of its limiter; while that is the limit in force, what was paid
\* for is within the schedule; until it is, one read at most is under way.
Adopts(t) ==
    /\ reader[t].pc \in {"turn", "read", "wait"} => asked = limiter.rate
    /\ reader[t].pc = "wait" => reader[t].until = limiter.next
    /\ cap.rate # 0 /\ limiter.rate = cap.rate =>
         /\ reader[t].pc \in {"turn", "read"} => Within(cap.bytes, cap.rate, TimeTo(limiter.next))
         /\ reader[t].pc = "wait" =>
              Within(cap.bytes + Size(t), cap.rate, TimeTo(limiter.next))
    /\ cap.rate # 0 /\ limiter.rate # cap.rate /\ reader[t].pc \in {"read", "wait"} =>
         cap.bytes = 0

CapIsInForce == cap.rate = InForce /\ cap.since <= clock
LoopInv ==
    CapIsInForce /\ CapHolds /\ (Sequential /\ ~crossed => \A t \in Readers : Adopts(t))

----------------------------------------------------------------------------
(* Arithmetic. *)

\* What fits some time fits a longer one.
LEMMA LongerEarnsMore ==
    ASSUME NEW x \in Int, NEW a \in Int, NEW b \in Int, NEW rate \in Nat,
           x <= rate * a, a <= b
    PROVE  x <= rate * b
<1>1. rate * a <= rate * b
  BY SMT
<1> QED BY <1>1, SMT

\* What fits a time has a beginning that fits it.
LEMMA FewerNeedLess ==
    ASSUME NEW a \in Int, NEW b \in Int, NEW y \in Int, a <= b, b * Second <= y, Bounds
    PROVE  a * Second <= y
<1>1. Second \in Nat
  BY DEF Bounds
<1>2. a * Second <= b * Second
  BY <1>1, SMT
<1> QED BY <1>1, <1>2, SMT

\* A read is never reserved less time than its bytes take.
LEMMA DurationPays ==
    ASSUME NEW bytes \in Nat, NEW rate \in Nat \ {0}, Bounds
    PROVE  Duration(bytes, rate) \in Nat /\ Earns(bytes, Duration(bytes, rate), rate)
<1>1. Second \in Nat
  BY DEF Bounds
<1>2. bytes * Second \in Nat
  BY <1>1, SMT
<1>3. \A x \in Nat : /\ (x + rate - 1) \div rate \in Nat
                     /\ x <= rate * ((x + rate - 1) \div rate)
  BY SMT
<1> QED BY <1>2, <1>3 DEF Duration, Earns

\* Bytes that follow others on the schedule earn their time after them.
LEMMA AfterThem ==
    ASSUME NEW x \in Int, NEW bytes \in Nat, NEW rate \in Nat, NEW a \in Int, NEW b \in Int,
           NEW d \in Nat, x * Second <= rate * a, bytes * Second <= rate * d, a + d <= b,
           Bounds
    PROVE  (x + bytes) * Second <= rate * b
<1>1. Second \in Nat
  BY DEF Bounds
<1>2. (x + bytes) * Second = x * Second + bytes * Second
  BY <1>1, SMT
<1>3. rate * (a + d) = rate * a + rate * d
  BY SMT
<1>4. rate * (a + d) <= rate * b
  BY SMT
<1>5. x * Second \in Int /\ bytes * Second \in Int /\ rate * a \in Int /\ rate * d \in Int
      /\ rate * b \in Int
  BY <1>1, SMT
<1> QED BY <1>2, <1>3, <1>4, <1>5, SMT

\* The limit in force is a rate, whatever was stored.
LEMMA RatesAreNumbers ==
    ASSUME Bounds, TypeOK
    PROVE  InForce \in Nat
BY DEF Bounds, TypeOK, InForce, Policy, General, Valid

----------------------------------------------------------------------------
(* Types. *)

\* The types hold at first.
LEMMA TypeInit == ASSUME Bounds, Init PROVE TypeOK
<1>1. General(general) \in Nat /\ general \in Nat
  BY DEF Bounds, Init, General, Valid
<1>2. own \in [Jobs -> Nat \cup {-1}]
  BY SMT DEF Init
<1>3. writing \in [jobs : SUBSET Playlist, rate : Nat] /\ asked \in Nat /\ ops \in Nat /\ clock \in Nat
  BY DEF Init
<1>4. limiter \in [rate : Nat, born : Nat, next : Nat, paid : Nat]
  BY DEF Init, NoLimiter
<1>5. reader \in [Readers -> [pc : {"off", "turn", "replace", "read", "wait"},
                              from : Nat \ {0}, to : Nat, until : Nat]]
  BY DEF Init, NoBytes, Bytes
<1>6. kept \subseteq Nat \ {0} /\ crossed \in BOOLEAN
  BY DEF Init
<1>7. cap \in [rate : Nat, since : Nat, bytes : Nat]
  BY <1>1 DEF Init
<1> QED BY <1>1, <1>2, <1>3, <1>4, <1>5, <1>6, <1>7 DEF TypeOK

\* A command leaves numbers.
LEMMA TypeCommands ==
    ASSUME Bounds, TypeOK, SettingsOnly, ops' \in Nat, general' \in Nat,
           own' \in [Jobs -> Nat \cup {-1}], writing' \in [jobs : SUBSET Playlist, rate : Nat]
    PROVE  TypeOK'
<1>1. Policy(general', own', job) \in Nat
  BY DEF Bounds, Policy, General, Valid
<1>2. cap' \in [rate : Nat, since : Nat, bytes : Nat]
  BY <1>1 DEF SettingsOnly, Recap, TypeOK
<1> QED BY <1>2 DEF SettingsOnly, TypeOK

\* A reader that goes on waits for nothing.
LEMMA TypeGoto ==
    ASSUME TypeOK, NEW t \in Readers, NEW place \in {"off", "turn", "replace", "read"},
           Goto(t, place)
    PROVE  reader' \in [Readers -> [pc : {"off", "turn", "replace", "read", "wait"},
                                    from : Nat \ {0}, to : Nat, until : Nat]]
BY DEF TypeOK, Goto, NoBytes, Bytes

\* A reservation keeps the types.
LEMMA TypeRead ==
    ASSUME Bounds, TypeOK, NEW t \in Readers, NEW bytes \in 1..MaxGrant, Read(t, bytes)
    PROVE  TypeOK'
<1> DEFINE start == IF limiter.next < clock THEN clock ELSE limiter.next
           end == IF limiter.rate = 0 THEN clock ELSE start + Duration(bytes, limiter.rate)
<1>1. bytes \in Nat /\ limiter.paid + bytes \in Nat /\ limiter.paid + 1 \in Nat \ {0}
  BY DEF Bounds, TypeOK
<1>2. end \in Nat
  <2>1. start \in Nat /\ clock \in Nat /\ limiter.rate \in Nat
    BY DEF TypeOK
  <2>2. CASE limiter.rate = 0
    BY <2>1, <2>2
  <2>3. CASE limiter.rate # 0
    <3>1. Duration(bytes, limiter.rate) \in Nat
      BY <1>1, <2>1, <2>3, DurationPays
    <3> HIDE DEF start
    <3> QED BY <2>1, <2>3, <3>1
  <2> QED BY <2>2, <2>3
<1>3. limiter' = [limiter EXCEPT !.next = end, !.paid = @ + bytes]
      /\ reader' = [reader EXCEPT ![t] =
                      Bytes("wait", limiter.paid + 1, limiter.paid + bytes, end)]
  BY DEF Read
<1> HIDE DEF end
<1>4. limiter' \in [rate : Nat, born : Nat, next : Nat, paid : Nat]
  BY <1>1, <1>2, <1>3 DEF TypeOK
<1>5. reader' \in [Readers -> [pc : {"off", "turn", "replace", "read", "wait"},
                               from : Nat \ {0}, to : Nat, until : Nat]]
  BY <1>1, <1>2, <1>3 DEF TypeOK, Bytes
<1> QED BY <1>4, <1>5 DEF Read, ReaderOnly, settings, TypeOK

\* Every step keeps the types.
LEMMA TypeStep == ASSUME Bounds, TypeOK, Grants, [Next]_vars PROVE TypeOK'
<1>0. InForce \in Nat
  BY RatesAreNumbers
<1>1. ASSUME NEW rate \in Offered, SaveGeneral(rate) PROVE TypeOK'
  BY <1>1, TypeCommands DEF Bounds, TypeOK, SaveGeneral, Command
<1>2. ASSUME NEW rate \in Offered, SavePlaylist(rate) PROVE TypeOK'
  BY <1>2, TypeCommands DEF Bounds, TypeOK, SavePlaylist, Command
<1>3. ASSUME NEW rate \in Offered, NEW j \in Jobs, SaveOwn(j, rate) PROVE TypeOK'
  BY <1>3, TypeCommands DEF Bounds, TypeOK, SaveOwn, Command
<1>4. ASSUME NEW j \in Jobs, PlaylistRow(j) PROVE TypeOK'
  BY <1>4, TypeCommands DEF Bounds, TypeOK, PlaylistRow
<1>5. ASSUME Launch PROVE TypeOK'
  BY <1>0, <1>5 DEF TypeOK, Launch, Fresh, NoBytes, Bytes, NextTurn, settings
<1>6. ASSUME Tick PROVE TypeOK'
  BY <1>6 DEF TypeOK, Tick, settings
<1>7. ASSUME NEW t \in Readers, Turn(t) PROVE TypeOK'
  BY <1>0, <1>7, TypeGoto DEF TypeOK, Turn, ReaderOnly, settings
<1>8. ASSUME NEW t \in Readers, Replace(t) PROVE TypeOK'
  BY <1>0, <1>8, TypeGoto DEF TypeOK, Replace, Fresh, ReaderOnly, settings
<1>9. ASSUME NEW t \in Readers, NEW bytes \in 1..MaxGrant, Read(t, bytes) PROVE TypeOK'
  BY <1>9, TypeRead
<1>10. ASSUME NEW t \in Readers, Keep(t) PROVE TypeOK'
  <2>1. cap.bytes + reader[t].to - reader[t].from + 1 \in Nat
    BY <1>10 DEF TypeOK, Grants, Keep, At
  <2>2. cap' \in [rate : Nat, since : Nat, bytes : Nat]
    BY <1>10, <2>1 DEF TypeOK, Keep
  <2>3. kept' \subseteq Nat \ {0}
    BY <1>10 DEF TypeOK, Keep
  <2> QED BY <1>10, <2>2, <2>3, TypeGoto DEF TypeOK, Keep, NextTurn, ReaderOnly, settings
<1>11. ASSUME NEW t \in Readers, Interrupted(t) PROVE TypeOK'
  BY <1>11, TypeGoto DEF TypeOK, Interrupted, ReaderOnly, settings
<1>12. ASSUME NEW t \in Readers, Ends(t) PROVE TypeOK'
  BY <1>12, TypeGoto DEF TypeOK, Ends, ReaderOnly, settings
<1>13. CASE UNCHANGED vars
  BY <1>13 DEF TypeOK, vars, settings
<1> QED
  BY <1>1, <1>2, <1>3, <1>4, <1>5, <1>6, <1>7, <1>8, <1>9, <1>10, <1>11, <1>12, <1>13 DEF Next

----------------------------------------------------------------------------
(* The schedule. *)

\* A step of the readers that are not waiting, or of nobody, leaves the schedule as it is.
LEMMA NobodyPays ==
    ASSUME Grants, Launched, Schedule, Paced, UNCHANGED <<limiter, clock, kept>>,
           \A t \in Readers : \/ reader'[t] = reader[t]
                              \/ reader'[t].pc \in {"off", "read"}
                              \/ Sequential /\ reader'[t].pc # "wait"
    PROVE  (Grants /\ Launched /\ Schedule /\ Paced)'
BY DEF Grants, Launched, Schedule, Paced

\* A limiter that has just been put in place has sold nothing, and nobody waits on it.
LEMMA NewLimiter ==
    ASSUME Bounds, TypeOK, limiter' = Fresh(InForce), kept' = {}, UNCHANGED clock,
           \A t \in Readers : reader'[t].pc # "wait"
    PROVE  (Grants /\ Schedule /\ Paced)'
<1>1. clock \in Nat /\ InForce \in Nat /\ Second \in Nat
  BY RatesAreNumbers DEF TypeOK, Bounds
<1>2. /\ limiter'.born = clock /\ limiter'.next = clock /\ limiter'.paid = 0
      /\ limiter'.rate = InForce
  BY DEF Fresh
<1>3. 0 * Second <= InForce * (clock - clock)
  BY <1>1, SMT
<1> QED BY <1>1, <1>2, <1>3 DEF Grants, Schedule, Paced, Earns

\* A read is paid for at the end of the schedule, rounded up.
LEMMA ReadPays ==
    ASSUME Bounds, PacedInv, NEW t \in Readers, NEW bytes \in 1..MaxGrant, Read(t, bytes)
    PROVE  (Grants /\ Launched /\ Schedule /\ Paced)'
<1> DEFINE end == limiter'.next
<1>1. /\ limiter.rate \in Nat /\ limiter.born \in Nat /\ limiter.next \in Nat
      /\ limiter.paid \in Nat /\ clock \in Nat /\ bytes \in Nat
  BY DEF Bounds, PacedInv, TypeOK
<1>2. /\ limiter'.rate = limiter.rate /\ limiter'.born = limiter.born
      /\ limiter'.paid = limiter.paid + bytes
      /\ reader' = [reader EXCEPT ![t] =
                      Bytes("wait", limiter.paid + 1, limiter.paid + bytes, end)]
      /\ UNCHANGED <<clock, kept>>
  BY DEF Read, ReaderOnly, PacedInv, TypeOK
<1>3. /\ reader'[t] = [pc |-> "wait", from |-> limiter.paid + 1, to |-> limiter.paid + bytes,
                       until |-> end]
      /\ \A u \in Readers \ {t} : reader'[u] = reader[u]
  BY <1>2 DEF PacedInv, TypeOK, Bytes
<1>4. Grants'
  BY <1>1, <1>3 DEF PacedInv, Grants
<1>5. Launched'
  BY <1>3 DEF PacedInv, Launched
<1>6. Paced'
  BY <1>2 DEF PacedInv, Paced
<1>7. ASSUME limiter.rate # 0
      PROVE  /\ end \in Nat /\ limiter.next <= end
             /\ Earns(limiter.paid + bytes, end - limiter.born, limiter.rate)
  <2> DEFINE d == Duration(bytes, limiter.rate)
  <2>1. d \in Nat /\ bytes * Second <= limiter.rate * d
    BY <1>1, <1>7, DurationPays DEF Earns
  <2>2. end = (IF limiter.next < clock THEN clock ELSE limiter.next) + d
    BY <1>7 DEF Read, PacedInv, TypeOK
  <2> HIDE DEF d
  <2>3. end \in Nat /\ limiter.next + d <= end /\ limiter.next <= end
    BY <1>1, <2>1, <2>2
  <2>4. limiter.paid * Second <= limiter.rate * (limiter.next - limiter.born)
    BY <1>7 DEF PacedInv, Schedule, Earns
  <2>5. limiter.next - limiter.born \in Int /\ end - limiter.born \in Int
        /\ (limiter.next - limiter.born) + d <= end - limiter.born
    BY <1>1, <2>1, <2>3
  <2>6. (limiter.paid + bytes) * Second <= limiter.rate * (end - limiter.born)
    BY <1>1, <2>1, <2>4, <2>5, AfterThem
  <2> QED BY <2>3, <2>6 DEF Earns
<1>8. Schedule'
  <2> SUFFICES ASSUME limiter.rate # 0 PROVE Schedule'
    BY <1>2 DEF Schedule
  <2>1. limiter'.born <= clock' /\ limiter'.born <= limiter'.next
    BY <1>1, <1>2, <1>7 DEF PacedInv, Schedule
  <2>2. Earns(limiter'.paid, limiter'.next - limiter'.born, limiter'.rate)
    BY <1>2, <1>7
  <2>3. \A u \in Readers : reader'[u].pc = "wait" =>
          Earns(reader'[u].to, reader'[u].until - limiter'.born, limiter'.rate)
    BY <1>2, <1>3, <1>7 DEF PacedInv, Schedule
  <2> QED BY <2>1, <2>2, <2>3 DEF Schedule, Earns
<1> QED BY <1>4, <1>5, <1>6, <1>8

\* What a reader keeps it has paid for, and its time has come.
LEMMA KeepIsPaced ==
    ASSUME Bounds, PacedInv, NEW t \in Readers, Keep(t)
    PROVE  (Grants /\ Launched /\ Schedule /\ Paced)'
<1>1. /\ UNCHANGED <<limiter, clock>> /\ clock >= reader[t].until /\ reader[t].pc = "wait"
      /\ kept' = kept \cup reader[t].from .. reader[t].to
      /\ reader' = [reader EXCEPT ![t] = NoBytes(NextTurn)]
  BY DEF Keep, At, ReaderOnly, Goto
<1>2. /\ reader'[t].pc = NextTurn
      /\ \A u \in Readers \ {t} : reader'[u] = reader[u]
  BY <1>1 DEF PacedInv, TypeOK, NoBytes, Bytes
<1>3. Grants' /\ Launched' /\ Schedule'
  BY <1>1, <1>2 DEF PacedInv, Grants, Launched, Schedule, NextTurn
<1>4. Paced'
  <2> SUFFICES ASSUME limiter.rate # 0, NEW byte \in kept'
               PROVE  byte * Second <= limiter.rate * (clock - limiter.born)
    BY <1>1 DEF Paced
  <2>1. /\ limiter.rate \in Nat /\ limiter.born \in Nat /\ clock \in Nat
        /\ reader[t].to \in Nat /\ reader[t].from \in Nat /\ reader[t].until \in Nat
        /\ Second \in Nat
    BY DEF Bounds, PacedInv, TypeOK
  <2>2. CASE byte \in kept
    BY <2>2 DEF PacedInv, Paced
  <2>3. CASE byte \in reader[t].from .. reader[t].to
    <3>1. reader[t].to * Second <= limiter.rate * (reader[t].until - limiter.born)
      BY <1>1 DEF PacedInv, Schedule, Earns
    <3>2. reader[t].to * Second \in Int
      BY <2>1, SMT
    <3>3. reader[t].until - limiter.born \in Int /\ clock - limiter.born \in Int
          /\ reader[t].until - limiter.born <= clock - limiter.born
      BY <1>1, <2>1
    <3>4. reader[t].to * Second <= limiter.rate * (clock - limiter.born)
      BY <2>1, <3>1, <3>2, <3>3, LongerEarnsMore
    <3>5. limiter.rate * (clock - limiter.born) \in Int
      BY <2>1, SMT
    <3> QED BY <2>1, <2>3, <3>4, <3>5, FewerNeedLess
  <2> QED BY <1>1, <2>2, <2>3
<1> QED BY <1>3, <1>4

\* Time only makes room.
LEMMA TickIsPaced ==
    ASSUME Bounds, PacedInv, Tick
    PROVE  (Grants /\ Launched /\ Schedule /\ Paced)'
<1>1. UNCHANGED <<limiter, reader, kept>> /\ clock' = clock + 1
  BY DEF Tick
<1>2. /\ limiter.rate \in Nat /\ limiter.born \in Nat /\ clock \in Nat /\ kept \subseteq Nat
      /\ Second \in Nat
  BY DEF Bounds, PacedInv, TypeOK
<1>3. ASSUME limiter'.rate # 0, NEW byte \in kept'
      PROVE  byte * Second <= limiter'.rate * (clock' - limiter'.born)
  <2>1. byte * Second <= limiter.rate * (clock - limiter.born)
    BY <1>1, <1>3 DEF PacedInv, Paced
  <2>2. byte * Second \in Int
    BY <1>1, <1>2, SMT
  <2>3. clock - limiter.born \in Int /\ clock' - limiter'.born \in Int
        /\ clock - limiter.born <= clock' - limiter'.born
    BY <1>1, <1>2
  <2>4. byte * Second <= limiter.rate * (clock' - limiter'.born)
    BY <1>2, <2>1, <2>2, <2>3, LongerEarnsMore
  <2> QED BY <1>1, <2>4
<1>4. Paced'
  BY <1>3, Zenon DEF Paced
<1>5. (Grants /\ Launched /\ Schedule)'
  BY <1>1, <1>2 DEF PacedInv, Grants, Launched, Schedule
<1> QED BY <1>4, <1>5

\* Nothing has been read at first.
LEMMA PacedInit == ASSUME Bounds, Init PROVE PacedInv
BY TypeInit DEF Init, NoLimiter, NoBytes, Bytes, PacedInv, Grants, Launched, Schedule, Paced

\* Every step keeps readers to their turns.
LEMMA PacedStep == ASSUME Bounds, PacedInv, [Next]_vars PROVE PacedInv'
<1> DEFINE Rest == Grants /\ Launched /\ Schedule /\ Paced
<1>0. TypeOK'
  BY TypeStep DEF PacedInv
<1>1. ASSUME UNCHANGED <<limiter, clock, kept, reader>> PROVE Rest'
  BY <1>1, NobodyPays DEF PacedInv
<1>2. ASSUME NEW rate \in Offered, SaveGeneral(rate) \/ SavePlaylist(rate) PROVE Rest'
  BY <1>1, <1>2 DEF SaveGeneral, SavePlaylist, SettingsOnly
<1>3. ASSUME NEW rate \in Offered, NEW j \in Jobs, SaveOwn(j, rate) PROVE Rest'
  BY <1>1, <1>3 DEF SaveOwn, SettingsOnly
<1>4. ASSUME NEW j \in Jobs, PlaylistRow(j) PROVE Rest'
  BY <1>1, <1>4 DEF PlaylistRow, SettingsOnly
<1>5. ASSUME Launch PROVE Rest'
  <2>1. \A t \in Readers : reader'[t].pc = NextTurn
    BY <1>5 DEF Launch, NoBytes, Bytes
  <2>2. Launched'
    BY <2>1 DEF Launched, NextTurn
  <2> QED BY <1>5, <2>1, <2>2, NewLimiter DEF Launch, NextTurn, PacedInv
<1>6. ASSUME Tick PROVE Rest'
  BY <1>6, TickIsPaced
<1>7. ASSUME NEW t \in Readers, Turn(t) PROVE Rest'
  <2>1. Sequential
    BY <1>7 DEF Turn, At, PacedInv, Launched
  <2>2. /\ reader'[t].pc \in {"read", "replace"}
        /\ \A u \in Readers \ {t} : reader'[u] = reader[u]
    BY <1>7 DEF Turn, Goto, NoBytes, Bytes, PacedInv, TypeOK
  <2> QED BY <1>7, <2>1, <2>2, NobodyPays DEF Turn, ReaderOnly, PacedInv
<1>8. ASSUME NEW t \in Readers, Replace(t) PROVE Rest'
  <2>1. \A u \in Readers : u = t
    BY <1>8 DEF Replace, At, PacedInv, Launched, Bounds
  <2>2. reader'[t].pc = "read"
    BY <1>8 DEF Replace, Goto, NoBytes, Bytes, PacedInv, TypeOK
  <2>3. Launched'
    BY <2>1, <2>2 DEF Launched
  <2> QED BY <1>8, <2>1, <2>2, <2>3, NewLimiter DEF Replace, ReaderOnly, PacedInv
<1>9. ASSUME NEW t \in Readers, NEW bytes \in 1..MaxGrant, Read(t, bytes) PROVE Rest'
  BY <1>9, ReadPays
<1>10. ASSUME NEW t \in Readers, Keep(t) PROVE Rest'
  BY <1>10, KeepIsPaced
<1>11. ASSUME NEW t \in Readers, NEW place \in {"off", "turn"}, Goto(t, place),
              place = "turn" => Sequential, UNCHANGED <<limiter, clock, kept>>
       PROVE  Rest'
  <2>1. /\ reader'[t].pc = place
        /\ \A u \in Readers \ {t} : reader'[u] = reader[u]
    BY <1>11 DEF Goto, NoBytes, Bytes, PacedInv, TypeOK
  <2> QED BY <1>11, <2>1, NobodyPays DEF PacedInv
<1> HIDE DEF Rest
<1>12. ASSUME NEW t \in Readers, Interrupted(t) PROVE Rest'
  BY <1>11, <1>12 DEF Interrupted, ReaderOnly
<1>13. ASSUME NEW t \in Readers, Ends(t) PROVE Rest'
  BY <1>11, <1>13 DEF Ends, ReaderOnly
<1>14. ASSUME UNCHANGED vars PROVE Rest'
  BY <1>1, <1>14 DEF vars
<1>15. Rest'
  BY <1>2, <1>3, <1>4, <1>5, <1>6, <1>7, <1>8, <1>9, <1>10, <1>12, <1>13, <1>14 DEF Next
<1> QED BY <1>0, <1>15 DEF PacedInv, Rest

\* The types, the schedule and the pace hold in every state, for any rates and readers.
THEOREM ScheduleHolds == ASSUME Bounds PROVE Spec => []PacedInv
<1>1. Init => PacedInv
  BY PacedInit
<1>2. PacedInv /\ [Next]_vars => PacedInv'
  BY PacedStep
<1> QED BY <1>1, <1>2, PTL DEF Spec

\* No reader keeps a byte before its turn at the rate of the limiter, however many share it
\* (throttle_bytes).
THEOREM AlwaysPaced == ASSUME Bounds PROVE Spec => []Paced
<1>1. PacedInv => Paced
  BY DEF PacedInv
<1> QED BY <1>1, ScheduleHolds, PTL

----------------------------------------------------------------------------
(* The limit in force. *)

\* One grant fits any limit and any time.
LEMMA OneGrantIsWithin ==
    ASSUME Bounds, NEW n \in Int, n <= MaxGrant, NEW rate \in Nat, NEW time \in Nat
    PROVE  Within(n, rate, time)
<1>1. MaxGrant \in Nat /\ Second \in Nat
  BY DEF Bounds
<1>2. rate * time >= 0 /\ rate * time \in Int
  BY SMT
<1>3. n - MaxGrant \in Int /\ n - MaxGrant <= 0
  BY <1>1
<1>4. \A x \in Int, k \in Nat : x <= 0 => x * k <= 0 /\ x * k \in Int
  BY SMT
<1>5. (n - MaxGrant) * Second <= 0 /\ (n - MaxGrant) * Second \in Int
  BY <1>1, <1>3, <1>4
<1> QED BY <1>2, <1>5 DEF Within

\* Fewer bytes in a longer time stay within a rate.
LEMMA StillWithin ==
    ASSUME Bounds, NEW m \in Int, NEW n \in Int, m <= n, NEW rate \in Nat,
           NEW a \in Int, NEW b \in Int, a <= b, Within(n, rate, a)
    PROVE  Within(m, rate, b)
<1>1. MaxGrant \in Nat /\ Second \in Nat
  BY DEF Bounds
<1>2. m - MaxGrant \in Int /\ n - MaxGrant \in Int /\ m - MaxGrant <= n - MaxGrant
  BY <1>1
<1>3. (n - MaxGrant) * Second \in Int /\ rate * b \in Int
  BY <1>1, <1>2, SMT
<1>4. (n - MaxGrant) * Second <= rate * b
  BY <1>3, LongerEarnsMore DEF Within
<1>5. (m - MaxGrant) * Second <= rate * b
  BY <1>2, <1>3, <1>4, FewerNeedLess
<1> QED BY <1>5 DEF Within

\* The time up to an end of the schedule, and how it compares with the time since the limit.
LEMMA TimeIsTime ==
    ASSUME TypeOK, CapIsInForce, NEW end \in Nat
    PROVE  /\ TimeTo(end) \in Nat /\ clock - cap.since \in Nat
           /\ end <= clock => TimeTo(end) <= clock - cap.since
           /\ end = clock => TimeTo(end) = clock - cap.since
BY DEF TypeOK, CapIsInForce, TimeTo

\* Commands: either the limit in force stays, or its bytes are counted anew.
LEMMA CommandsAdopt ==
    ASSUME Bounds, PacedInv, LoopInv, SettingsOnly, TypeOK'
    PROVE  LoopInv'
<1>1. UNCHANGED <<clock, limiter, asked, reader, kept, crossed>> /\ Recap
  BY DEF SettingsOnly
<1>2. CASE InForce' = InForce
  <2>1. cap' = cap
    BY <1>1, <1>2 DEF Recap, InForce
  <2> QED
    BY <1>1, <1>2, <2>1 DEF LoopInv, CapIsInForce, CapHolds, Adopts, TimeTo, Size, Within
<1>3. CASE InForce' # InForce
  <2>1. cap' = [rate |-> InForce', since |-> clock, bytes |-> 0]
    BY <1>1, <1>3 DEF Recap, InForce
  <2>2. CapIsInForce'
    BY <1>1, <2>1 DEF CapIsInForce, PacedInv, TypeOK
  <2>3. cap'.rate \in Nat /\ cap'.bytes = 0 /\ limiter'.next \in Nat /\ MaxGrant \in Nat
        /\ TimeTo(limiter.next)' \in Nat /\ (clock - cap.since)' \in Nat
    BY <1>1, <2>1, <2>2, TypeOK' DEF Bounds, TypeOK, CapIsInForce, TimeTo
  <2>4. Within(0, cap'.rate, (clock - cap.since)')
    BY <2>3, OneGrantIsWithin
  <2>5. CapHolds'
    BY <2>3, <2>4 DEF CapHolds, Within
  <2>6. ASSUME NEW t \in Readers, Sequential, ~crossed PROVE Adopts(t)'
    <3>1. Adopts(t)
      BY <1>1, <2>6 DEF LoopInv
    <3>2. Within(0, cap'.rate, TimeTo(limiter.next)')
      BY <2>3, OneGrantIsWithin
    <3>3. ASSUME reader[t].pc = "wait"
          PROVE  Within(0 + Size(t), cap'.rate, TimeTo(limiter.next)')
      <4>1. Size(t) \in 1..MaxGrant
        BY <3>3 DEF PacedInv, Grants, Size
      <4>2. 0 + Size(t) \in Int /\ 0 + Size(t) <= MaxGrant
        BY <2>3, <4>1
      <4> QED BY <2>3, <4>2, OneGrantIsWithin
    <3>4. Size(t)' = Size(t)
      BY <1>1 DEF Size
    <3> QED BY <1>1, <2>3, <3>1, <3>2, <3>3, <3>4 DEF Adopts, Within
  <2> QED BY <1>1, <2>2, <2>5, <2>6 DEF LoopInv
<1> QED BY <1>2, <1>3

\* A step of the reader that neither keeps nor pays.
LEMMA QuietAdopts ==
    ASSUME LoopInv, UNCHANGED <<settings, clock, cap, crossed>>,
           ASSUME Sequential, ~crossed PROVE \A t \in Readers : Adopts(t)'
    PROVE  LoopInv'
BY DEF LoopInv, CapIsInForce, CapHolds, InForce, settings

\* A loop that takes up the limit in force starts its count afresh.
LEMMA NewLimiterAdopts ==
    ASSUME Bounds, PacedInv, LoopInv, UNCHANGED <<settings, clock, cap>>,
           limiter' = Fresh(InForce), asked' = InForce \/ crossed', crossed => crossed',
           \A t \in Readers : reader'[t].pc \in {"turn", "read"}
    PROVE  LoopInv'
<1>1. /\ limiter'.rate = cap.rate /\ limiter'.next = clock /\ cap.rate = InForce
      /\ cap' = cap /\ clock' = clock /\ clock \in Nat
  BY DEF Fresh, LoopInv, CapIsInForce, PacedInv, TypeOK
<1>2. CapIsInForce' /\ CapHolds'
  <2>1. InForce' = InForce
    BY DEF InForce, settings
  <2>2. CapIsInForce'
    BY <1>1, <2>1 DEF LoopInv, CapIsInForce
  <2>3. CapHolds'
    BY <1>1 DEF LoopInv, CapHolds
  <2> QED BY <2>2, <2>3
<1>3. ASSUME Sequential, ~crossed', NEW t \in Readers PROVE Adopts(t)'
  <2>1. cap.rate # 0 => Within(cap.bytes, cap.rate, clock - cap.since)
    BY <1>3 DEF LoopInv, CapHolds, Within
  <2>2. TimeTo(limiter.next)' = clock - cap.since
    BY <1>1 DEF LoopInv, CapIsInForce, PacedInv, TypeOK, TimeTo
  <2> QED BY <1>1, <1>3, <2>1, <2>2 DEF Adopts, Within
<1> QED BY <1>2, <1>3 DEF LoopInv

\* A read, whether or not its limiter is the one in force, leaves the count within the limit.
LEMMA ReadAdopts ==
    ASSUME Bounds, PacedInv, LoopInv, NEW t \in Readers, NEW bytes \in 1..MaxGrant,
           Read(t, bytes)
    PROVE  LoopInv'
<1> DEFINE end == limiter'.next
<1>1. /\ cap.rate \in Nat /\ cap.bytes \in Nat /\ cap.since \in Nat /\ clock \in Nat
      /\ limiter.next \in Nat /\ limiter.rate \in Nat /\ limiter.paid \in Nat
      /\ bytes \in Nat /\ bytes <= MaxGrant /\ MaxGrant \in Nat /\ cap.since <= clock
  BY DEF Bounds, PacedInv, TypeOK, LoopInv, CapIsInForce
<1>2. /\ UNCHANGED <<settings, clock, cap, crossed, asked>> /\ reader[t].pc = "read"
      /\ limiter'.rate = limiter.rate
      /\ reader' = [reader EXCEPT ![t] =
                      Bytes("wait", limiter.paid + 1, limiter.paid + bytes, end)]
  BY DEF Read, ReaderOnly, At, PacedInv, TypeOK
<1>3. reader'[t] = [pc |-> "wait", from |-> limiter.paid + 1, to |-> limiter.paid + bytes,
                    until |-> end]
  BY <1>2 DEF PacedInv, TypeOK, Bytes
<1>4. Size(t)' = bytes
  BY <1>1, <1>3 DEF Size
<1>5. ASSUME Sequential, ~crossed PROVE \A u \in Readers : Adopts(u)'
  <2>1. \A u \in Readers : u = t
    BY <1>5 DEF Bounds
  <2>2. Adopts(t)
    BY <1>5 DEF LoopInv
  <2>3. ASSUME cap.rate # 0, limiter.rate = cap.rate
        PROVE  Within(cap.bytes + bytes, cap.rate, TimeTo(end))
    <3> DEFINE d == Duration(bytes, cap.rate)
    <3>1. d \in Nat /\ bytes * Second <= cap.rate * d
      BY <1>1, <2>3, DurationPays DEF Earns
    <3>2. end = (IF limiter.next < clock THEN clock ELSE limiter.next) + d
      BY <2>3 DEF Read, PacedInv, TypeOK
    <3> HIDE DEF d
    <3>3. end \in Nat /\ TimeTo(limiter.next) \in Int /\ TimeTo(end) \in Int
          /\ TimeTo(limiter.next) + d <= TimeTo(end)
      BY <1>1, <3>1, <3>2 DEF TimeTo
    <3>4. (cap.bytes - MaxGrant) * Second <= cap.rate * TimeTo(limiter.next)
      BY <1>2, <2>2, <2>3 DEF Adopts, Within
    <3>5. cap.bytes - MaxGrant \in Int
          /\ (cap.bytes - MaxGrant) + bytes = (cap.bytes + bytes) - MaxGrant
      BY <1>1
    <3>6. ((cap.bytes - MaxGrant) + bytes) * Second <= cap.rate * TimeTo(end)
      BY <1>1, <3>1, <3>3, <3>4, <3>5, AfterThem
    <3>7. ((cap.bytes + bytes) - MaxGrant) * Second <= cap.rate * TimeTo(end)
      BY <3>5, <3>6, Zenon
    <3> QED BY <3>7, Zenon DEF Within
  <2>4. TimeTo(limiter.next)' = TimeTo(end)
    BY <1>2 DEF TimeTo
  <2>5. Adopts(t)'
    BY <1>2, <1>3, <1>4, <2>2, <2>3, <2>4 DEF Adopts, Within
  <2> QED BY <2>1, <2>5
<1> QED BY <1>2, <1>5, QuietAdopts

\* Bytes that are kept were counted when they were paid for, or are the one read under way.
LEMMA KeepAdopts ==
    ASSUME Bounds, PacedInv, LoopInv, NEW t \in Readers, Keep(t)
    PROVE  LoopInv'
<1>1. /\ cap.rate \in Nat /\ cap.bytes \in Nat /\ cap.since \in Nat /\ clock \in Nat
      /\ limiter.next \in Nat /\ MaxGrant \in Nat /\ cap.since <= clock
  BY DEF Bounds, PacedInv, TypeOK, LoopInv, CapIsInForce
<1>2. /\ UNCHANGED <<settings, clock, limiter, asked, crossed>>
      /\ reader[t].pc = "wait" /\ clock >= reader[t].until
      /\ reader' = [reader EXCEPT ![t] = NoBytes(NextTurn)]
  BY DEF Keep, At, ReaderOnly, Goto
<1>3. Size(t) \in 1..MaxGrant
  BY <1>2 DEF PacedInv, Grants, Size
<1>4. cap'.rate = cap.rate /\ cap'.since = cap.since /\ cap'.bytes = cap.bytes + Size(t)
  BY <1>1 DEF Keep, Size, PacedInv, TypeOK
<1>5. CapIsInForce'
  BY <1>2, <1>4 DEF LoopInv, CapIsInForce, InForce, settings
<1>6. ASSUME Sequential, ~crossed PROVE CapHolds' /\ \A u \in Readers : Adopts(u)'
  <2>1. \A u \in Readers : u = t
    BY <1>6 DEF Bounds
  <2>2. Adopts(t)
    BY <1>6 DEF LoopInv
  <2>3. reader'[t].pc = "turn"
    BY <1>2, <1>6 DEF PacedInv, TypeOK, NoBytes, Bytes, NextTurn
  <2>4. TimeTo(limiter.next) \in Nat /\ clock - cap.since \in Nat
        /\ TimeTo(limiter.next) <= clock - cap.since
    BY <1>1, <1>2, <2>2, TimeIsTime DEF Adopts, LoopInv, PacedInv
  <2>5. cap.bytes + Size(t) \in Int
    BY <1>1, <1>3
  <2>6. ASSUME cap.rate # 0 PROVE Within(cap.bytes + Size(t), cap.rate, clock - cap.since)
    <3>1. CASE limiter.rate = cap.rate
      <4>1. Within(cap.bytes + Size(t), cap.rate, TimeTo(limiter.next))
        BY <1>2, <2>2, <2>6, <3>1 DEF Adopts
      <4> QED BY <1>1, <2>4, <2>5, <4>1, StillWithin
    <3>2. CASE limiter.rate # cap.rate
      <4>1. cap.bytes + Size(t) <= MaxGrant
        BY <1>1, <1>2, <1>3, <2>2, <2>6, <3>2 DEF Adopts
      <4> QED BY <1>1, <2>4, <2>5, <4>1, OneGrantIsWithin
    <3> QED BY <3>1, <3>2
  <2>7. CapHolds'
    BY <1>2, <1>4, <2>6 DEF CapHolds, Within
  <2>8. Adopts(t)'
    <3>1. TimeTo(limiter.next)' = TimeTo(limiter.next)
      BY <1>2, <1>4 DEF TimeTo
    <3> QED BY <1>2, <1>4, <2>2, <2>3, <3>1 DEF Adopts, Within
  <2> QED BY <2>1, <2>7, <2>8
<1> QED BY <1>2, <1>5, <1>6 DEF LoopInv, CapHolds

\* Time leaves the count within the limit.
LEMMA TickAdopts ==
    ASSUME Bounds, PacedInv, LoopInv, Tick
    PROVE  LoopInv'
<1>1. /\ UNCHANGED <<settings, limiter, asked, reader, cap, crossed>> /\ clock' = clock + 1
      /\ cap.rate \in Nat /\ cap.bytes \in Nat /\ cap.since \in Nat /\ clock \in Nat
  BY DEF Tick, PacedInv, TypeOK
<1>2. CapIsInForce'
  BY <1>1 DEF LoopInv, CapIsInForce, InForce, settings
<1>3. ASSUME Sequential, ~crossed, cap.rate # 0
      PROVE  Within(cap.bytes, cap.rate, clock' - cap.since)
  <2>1. Within(cap.bytes, cap.rate, clock - cap.since)
    BY <1>3 DEF LoopInv, CapHolds, Within
  <2>2. clock - cap.since \in Int /\ clock' - cap.since \in Int
        /\ clock - cap.since <= clock' - cap.since /\ cap.bytes \in Int
    BY <1>1
  <2> QED BY <1>1, <2>1, <2>2, StillWithin
<1>4. CapHolds'
  BY <1>1, <1>3, Zenon DEF CapHolds, Within
<1> QED BY <1>1, <1>2, <1>4 DEF LoopInv, Adopts, TimeTo, Size, Within

\* At first no limit of the download has been changed.
LEMMA LoopInit == ASSUME Bounds, Init PROVE LoopInv
<1>1. /\ cap.rate = General(general) /\ cap.since = 0 /\ cap.bytes = 0 /\ clock = 0
      /\ \A t \in Readers : reader[t].pc = "off"
  BY DEF Init, NoBytes, Bytes
<1>2. own[job] = -1 /\ ~Valid(own[job])
  BY DEF Init, Bounds, Valid
<1>3. InForce = General(general) /\ General(general) \in Nat /\ MaxGrant \in Nat
  BY <1>2 DEF Bounds, InForce, Policy, General, Valid
<1>4. CapIsInForce
  BY <1>1, <1>3 DEF CapIsInForce
<1>5. Within(cap.bytes, cap.rate, clock - cap.since)
  BY <1>1, <1>3, OneGrantIsWithin
<1> QED BY <1>1, <1>4, <1>5 DEF LoopInv, CapHolds, Adopts, Within

\* Every step keeps the loop to the limit in force.
LEMMA LoopStep == ASSUME Bounds, PacedInv, LoopInv, [Next]_vars PROVE LoopInv'
<1>0. TypeOK'
  BY TypeStep DEF PacedInv
<1>1. ASSUME SettingsOnly PROVE LoopInv'
  BY <1>0, <1>1, CommandsAdopt
<1>2. ASSUME NEW rate \in Offered, SaveGeneral(rate) \/ SavePlaylist(rate) PROVE LoopInv'
  BY <1>1, <1>2 DEF SaveGeneral, SavePlaylist
<1>3. ASSUME NEW rate \in Offered, NEW j \in Jobs, SaveOwn(j, rate) PROVE LoopInv'
  BY <1>1, <1>3 DEF SaveOwn
<1>4. ASSUME NEW j \in Jobs, PlaylistRow(j) PROVE LoopInv'
  BY <1>1, <1>4 DEF PlaylistRow
<1>5. ASSUME Launch PROVE LoopInv'
  <2>1. CASE Sequential
    <3>1. \A t \in Readers : reader'[t].pc \in {"turn", "read"}
      BY <1>5 DEF Launch, NoBytes, Bytes, NextTurn
    <3> QED BY <1>5, <3>1, NewLimiterAdopts DEF Launch
  <2>2. CASE ~Sequential
    BY <1>5, <2>2, QuietAdopts DEF Launch
  <2> QED BY <2>1, <2>2
<1>6. ASSUME Tick PROVE LoopInv'
  BY <1>6, TickAdopts
<1>7. ASSUME NEW t \in Readers, Turn(t) PROVE LoopInv'
  <2>1. ASSUME Sequential, ~crossed PROVE \A u \in Readers : Adopts(u)'
    <3>1. \A u \in Readers : u = t
      BY <2>1 DEF Bounds
    <3>2. Adopts(t) /\ cap.rate = InForce
      BY <2>1 DEF LoopInv, CapIsInForce
    <3>3. /\ UNCHANGED <<limiter, cap>> /\ reader[t].pc = "turn"
          /\ \/ InForce = asked /\ asked' = asked /\ reader'[t].pc = "read"
             \/ reader'[t].pc = "replace"
      BY <1>7 DEF Turn, At, Goto, NoBytes, Bytes, PacedInv, TypeOK
    <3>4. Adopts(t)'
      BY <3>2, <3>3 DEF Adopts, TimeTo, Within
    <3> QED BY <3>1, <3>4
  <2> QED BY <1>7, <2>1, QuietAdopts DEF Turn, ReaderOnly
<1>8. ASSUME NEW t \in Readers, Replace(t) PROVE LoopInv'
  <2>1. \A u \in Readers : u = t
    BY <1>8 DEF Replace, At, PacedInv, Launched, Bounds
  <2>2. reader'[t].pc = "read"
    BY <1>8 DEF Replace, Goto, NoBytes, Bytes, PacedInv, TypeOK
  <2>3. asked' = InForce \/ crossed'
    BY <1>8 DEF Replace
  <2> QED BY <1>8, <2>1, <2>2, <2>3, NewLimiterAdopts DEF Replace, ReaderOnly
<1>9. ASSUME NEW t \in Readers, NEW bytes \in 1..MaxGrant, Read(t, bytes) PROVE LoopInv'
  BY <1>9, ReadAdopts
<1>10. ASSUME NEW t \in Readers, Keep(t) PROVE LoopInv'
  BY <1>10, KeepAdopts
<1>11. ASSUME NEW t \in Readers, Interrupted(t) PROVE LoopInv'
  <2>1. ASSUME Sequential, ~crossed PROVE \A u \in Readers : Adopts(u)'
    <3>1. \A u \in Readers : u = t
      BY <2>1 DEF Bounds
    <3>2. Adopts(t)
      BY <2>1 DEF LoopInv
    <3>3. /\ UNCHANGED <<limiter, cap, asked>> /\ reader[t].pc = "wait"
          /\ reader'[t].pc \in {"turn", "off"}
      BY <1>11 DEF Interrupted, At, Goto, NoBytes, Bytes, PacedInv, TypeOK
    <3>4. ASSUME cap.rate # 0, limiter.rate = cap.rate
          PROVE  Within(cap.bytes, cap.rate, TimeTo(limiter.next))
      <4>1. Within(cap.bytes + Size(t), cap.rate, TimeTo(limiter.next))
        BY <3>2, <3>3, <3>4 DEF Adopts
      <4>2. Size(t) \in 1..MaxGrant /\ MaxGrant \in Nat
        BY <3>3 DEF Bounds, PacedInv, Grants, Size
      <4>3. cap.bytes \in Int /\ cap.bytes + Size(t) \in Int
            /\ cap.bytes <= cap.bytes + Size(t) /\ cap.rate \in Nat
            /\ TimeTo(limiter.next) \in Int
        BY <4>2, TimeIsTime DEF PacedInv, TypeOK, LoopInv
      <4> QED BY <4>1, <4>3, StillWithin
    <3>5. Adopts(t)'
      BY <3>2, <3>3, <3>4 DEF Adopts, TimeTo, Within
    <3> QED BY <3>1, <3>5
  <2> QED BY <1>11, <2>1, QuietAdopts DEF Interrupted, ReaderOnly
<1>12. ASSUME NEW t \in Readers, Ends(t) PROVE LoopInv'
  <2>1. ASSUME Sequential, ~crossed PROVE \A u \in Readers : Adopts(u)'
    <3>1. \A u \in Readers : u = t
      BY <2>1 DEF Bounds
    <3>2. reader'[t].pc = "off"
      BY <1>12 DEF Ends, Goto, NoBytes, Bytes, PacedInv, TypeOK
    <3> QED BY <3>1, <3>2 DEF Adopts
  <2> QED BY <1>12, <2>1, QuietAdopts DEF Ends, ReaderOnly
<1>13. ASSUME UNCHANGED vars PROVE LoopInv'
  BY <1>13 DEF vars, settings, LoopInv, CapIsInForce, CapHolds, Adopts, TimeTo, Size, Within, InForce
<1> QED
  BY <1>2, <1>3, <1>4, <1>5, <1>6, <1>7, <1>8, <1>9, <1>10, <1>11, <1>12, <1>13 DEF Next

\* The transfer loop keeps to the limit in force, from the moment it is stored, but for the
\* one read under way and the limits that were changed twice around the two reads of a turn
\* (downloads/worker.rs:1001).
THEOREM LoopKeepsToTheLimit == ASSUME Bounds PROVE Spec => []CapHolds
<1>1. Init => PacedInv /\ LoopInv
  BY PacedInit, LoopInit
<1>2. (PacedInv /\ LoopInv) /\ [Next]_vars => (PacedInv /\ LoopInv)'
  BY PacedStep, LoopStep
<1>3. LoopInv => CapHolds
  BY DEF LoopInv
<1> QED BY <1>1, <1>2, <1>3, PTL DEF Spec
=============================================================================
