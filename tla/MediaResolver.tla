--------------------------- MODULE MediaResolver ---------------------------
(***************************************************************************)
(* The analysis and the preview of a media link (media/resolver.rs,         *)
(* extraction.rs, app/process.rs), run for the windows of WindowOps.        *)
(*                                                                         *)
(* Requests for the same key share one flight: the first one leads, tries   *)
(* the extraction profiles in order and publishes its result; the others    *)
(* wait for it.  Any of them may leave when its window is closed; the work  *)
(* stops when nobody else wants it.  Results are kept in a small cache.     *)
(***************************************************************************)
EXTENDS WindowOps

CONSTANTS
    Requests,      \* requests, numbered in the order in which they come
    Budgets,       \* bounds: commands and clicks, requests, cached results that expire
    Urls,          \* links
    Embeds,        \* those of a provider with an embedded player to fall back on
    Profiles,      \* extraction profiles of a link
    CacheLimit     \* ANALYSIS_CACHE_LIMIT

VARIABLES
    req,           \* the state of each request
    flights,       \* the flights created
    inFlight,      \* AnalysisState.in_flight: the flight of a key, 0 for none
    cache,         \* AnalysisState.cache, the least recently used first
    requests,      \* bound: how many of the requests may come
    expirations    \* bound: expirations left

resolverVars == <<req, flights, inFlight, cache, requests, expirations>>
vars == <<winVars, resolverVars>>

Policies == {"analysis", "preview"}
Keys == Urls \X Policies
Good == {"complete", "partial"}

Idle == [pc |-> "idle", key |-> <<>>, op |-> 0, flight |-> 0, profile |-> 0, selected |-> "none", answer |-> "none"]

Goes(r, pc) == req' = [req EXCEPT ![r].pc = pc]
Ends(r, answer) == req' = [req EXCEPT ![r] = [@ EXCEPT !.pc = "done", !.answer = answer]]

Flight(r) == flights[req[r].flight]
OwnerGone(r) == req[r].op # 0 /\ IsCancelled(req[r].op)

\* shared_operation_cancelled: the owner's cancellation counts when nobody else waits.
SharedCancelled(r) ==
    \/ Flight(r).cancelled
    \/ Flight(r).consumers <= 1 /\ OwnerGone(r)

----------------------------------------------------------------------------
(* A request comes in: from a preparation window or from the player with    *)
(* the operation its label has then, or from nowhere in particular.         *)

Arrives(r) ==
    /\ req[r].pc = "idle" /\ r <= requests
    /\ r = 1 \/ (r > 1 /\ req[r-1].pc # "idle")
    /\ \E u \in Urls :
         \/ \E l \in Labels :
              /\ win[l] = "shown" /\ registry[l] # 0
              /\ req' = [req EXCEPT ![r] = [@ EXCEPT !.pc = "look", !.op = registry[l],
                                !.key = <<u, IF l = Player THEN "preview" ELSE "analysis">>]]
         \/ req' = [req EXCEPT ![r] = [@ EXCEPT !.pc = "look", !.key = <<u, "analysis">>]]
    /\ UNCHANGED <<winVars, flights, inFlight, cache, requests, expirations>>

Cached(key) == {i \in DOMAIN cache : cache[i].key = key}

\* The cache is a map: a key has at most one entry.
Position(key) == CHOOSE i \in Cached(key) : TRUE
Entry(key) == cache[Position(key)]
Hit(key) == Cached(key) # {} /\ Entry(key).fresh
Without(key) ==
    IF Cached(key) = {} THEN cache
    ELSE SubSeq(cache, 1, Position(key) - 1) \o SubSeq(cache, Position(key) + 1, Len(cache))

\* resolution_cache_get: an expired entry is dropped, a used one becomes the latest.
Touched(key) == IF Hit(key) THEN Append(Without(key), Entry(key)) ELSE Without(key)

\* A preview may also be answered by a complete analysis of the same link.
Looks(r) ==
    /\ req[r].pc = "look"
    /\ cache' = Touched(req[r].key)
    /\ IF Hit(req[r].key) THEN Ends(r, Entry(req[r].key).value)
       ELSE Goes(r, IF req[r].key[2] = "preview" THEN "look at analysis" ELSE "acquire")
    /\ UNCHANGED <<winVars, flights, inFlight, requests, expirations>>

LooksAtAnalysis(r) ==
    LET key == <<req[r].key[1], "analysis">> IN
    /\ req[r].pc = "look at analysis"
    /\ cache' = Touched(key)
    /\ IF Hit(key) /\ Entry(key).value = "complete" THEN Ends(r, "complete") ELSE Goes(r, "acquire")
    /\ UNCHANGED <<winVars, flights, inFlight, requests, expirations>>

Joins(r, pc, f) == req' = [req EXCEPT ![r] = [@ EXCEPT !.pc = pc, !.flight = f]]

\* Mutant: every request leads a flight of its own.
AcquiresAlone(r) ==
    /\ req[r].pc = "acquire"
    /\ flights' = Append(flights, [consumers |-> 1, cancelled |-> FALSE, result |-> "none", leader |-> r])
    /\ inFlight' = [inFlight EXCEPT ![req[r].key] = Len(flights) + 1]
    /\ Joins(r, "loop", Len(flights) + 1)
    /\ UNCHANGED <<winVars, cache, requests, expirations>>

Acquires(r) ==
    LET f == inFlight[req[r].key] IN
    /\ req[r].pc = "acquire"
    /\ IF f # 0
       THEN /\ flights' = [flights EXCEPT ![f].consumers = @ + 1]
            /\ Joins(r, "wait", f)
            /\ UNCHANGED inFlight
       ELSE /\ flights' = Append(flights, [consumers |-> 1, cancelled |-> FALSE, result |-> "none", leader |-> r])
            /\ inFlight' = [inFlight EXCEPT ![req[r].key] = Len(flights) + 1]
            /\ Joins(r, "loop", Len(flights) + 1)
    /\ UNCHANGED <<winVars, cache, requests, expirations>>

----------------------------------------------------------------------------
(* The leader.                                                             *)

Resolved(r, answer) == req' = [req EXCEPT ![r] = [@ EXCEPT !.pc = "put", !.answer = answer]]

\* The next profile; when they are all tried, the embedded player if nothing was
\* found and the provider has one.
Tries(r) ==
    /\ req[r].pc = "loop"
    /\ IF req[r].profile < Profiles
       THEN IF SharedCancelled(r) THEN Resolved(r, "cancelled")
            ELSE req' = [req EXCEPT ![r] = [@ EXCEPT
                            !.pc = IF req[r].key[2] = "preview" THEN "spawned" ELSE "running",
                            !.profile = req[r].profile + 1]]
       ELSE IF req[r].selected # "none" THEN Resolved(r, req[r].selected)
            ELSE IF req[r].key[1] \notin Embeds THEN Resolved(r, "error")
            ELSE IF SharedCancelled(r) THEN Resolved(r, "cancelled")
            ELSE Goes(r, "embed")
    /\ UNCHANGED <<winVars, flights, inFlight, cache, requests, expirations>>

\* Mutant: the process is registered without asking whether it is still wanted.
RegistersBlindly(r) ==
    /\ req[r].pc = "spawned"
    /\ Goes(r, "running")
    /\ ops' = IF req[r].op = 0 THEN ops ELSE [ops EXCEPT ![req[r].op].processes = @ \cup {r}]
    /\ UNCHANGED <<registry, draining, win, active, mainEnabled, queue, commands,
                   flights, inFlight, cache, requests, expirations>>

\* register_window_process, for the process of a preview: refused once the operation
\* is cancelled, and then killed by the one who started it.
Registers(r) ==
    /\ req[r].pc = "spawned"
    /\ IF OwnerGone(r)
       THEN Resolved(r, "cancelled") /\ UNCHANGED ops
       ELSE /\ Goes(r, "running")
            /\ ops' = IF req[r].op = 0 THEN ops ELSE [ops EXCEPT ![req[r].op].processes = @ \cup {r}]
    /\ UNCHANGED <<registry, draining, win, active, mainEnabled, queue, commands,
                   flights, inFlight, cache, requests, expirations>>

Owns(r) == req[r].key[2] = "preview" /\ req[r].op # 0
Killed(r) == Owns(r) /\ r \notin ops[req[r].op].processes
Released(r) == ops' = IF Owns(r) THEN [ops EXCEPT ![req[r].op].processes = @ \ {r}] ELSE ops

\* command_output_with_timeout_cancelable_owned: the process ends by itself (a timeout
\* is a failure) or is stopped when it is seen to be cancelled: by whoever shares the
\* flight of an analysis, by the owner alone in a preview.
AttemptEnds(r) ==
    /\ req[r].pc = "running"
    /\ \/ /\ ~Killed(r)
          /\ req' = [req EXCEPT ![r] = [@ EXCEPT
                        !.pc = "loop", !.profile = Profiles, !.selected = "complete"]]
       \/ /\ ~Killed(r)
          /\ req' = [req EXCEPT ![r] = [@ EXCEPT !.pc = "loop", !.selected = "partial"]]
       \/ Goes(r, "loop")
       \/ /\ IF Owns(r) THEN OwnerGone(r) ELSE SharedCancelled(r)
          /\ Resolved(r, "cancelled")
    /\ Released(r)
    /\ UNCHANGED <<registry, draining, win, active, mainEnabled, queue, commands,
                   flights, inFlight, cache, requests, expirations>>

EmbedEnds(r) ==
    /\ req[r].pc = "embed"
    /\ \/ \E answer \in {"complete", "error"} : Resolved(r, answer)
       \/ SharedCancelled(r) /\ Resolved(r, "cancelled")
    /\ UNCHANGED <<winVars, flights, inFlight, cache, requests, expirations>>

\* resolution_cache_put: a good result is kept, the least recently used one makes room.
Puts(r) ==
    /\ req[r].pc = "put"
    /\ Goes(r, "publish")
    /\ \/ req[r].answer \notin Good /\ UNCHANGED cache
       \/ /\ req[r].answer \in Good
          /\ LET all == Append(Without(req[r].key),
                                [key |-> req[r].key, value |-> req[r].answer, fresh |-> TRUE])
             IN  cache' = IF Len(all) > CacheLimit THEN Tail(all) ELSE all
    /\ UNCHANGED <<winVars, flights, inFlight, requests, expirations>>

\* Mutant: only a result is published, an error is nobody's business.
PublishesGood(r) ==
    /\ req[r].pc = "publish"
    /\ Goes(r, "remove")
    /\ flights' = IF req[r].answer \in Good
                  THEN [flights EXCEPT ![req[r].flight].result = req[r].answer] ELSE flights
    /\ UNCHANGED <<winVars, inFlight, cache, requests, expirations>>

Publishes(r) ==
    /\ req[r].pc = "publish"
    /\ Goes(r, "remove")
    /\ flights' = [flights EXCEPT ![req[r].flight].result = req[r].answer]
    /\ UNCHANGED <<winVars, inFlight, cache, requests, expirations>>

Removes(r) ==
    /\ req[r].pc = "remove"
    /\ Goes(r, "leave")
    /\ inFlight' = [inFlight EXCEPT ![req[r].key] = 0]
    /\ UNCHANGED <<winVars, flights, cache, requests, expirations>>

----------------------------------------------------------------------------
\* Mutant: whoever leaves takes the flight with him.
LeftByAll(f) == [flights EXCEPT ![f] = [flights[f] EXCEPT !.consumers = @ - 1, !.cancelled = TRUE]]

\* FlightConsumer::drop: the last one out cancels.
LeftBy(f) ==
    [flights EXCEPT ![f] = [flights[f] EXCEPT !.consumers = @ - 1,
                                              !.cancelled = (@ \/ flights[f].consumers = 1)]]

Leaves(r) ==
    /\ req[r].pc = "leave"
    /\ Goes(r, "done")
    /\ flights' = LeftBy(req[r].flight)
    /\ UNCHANGED <<winVars, inFlight, cache, requests, expirations>>

\* wait_for_shared_analysis: the result, or the end of the flight or of one's own window.
Waits(r) ==
    /\ req[r].pc = "wait"
    /\ \/ Flight(r).result # "none" /\ Ends(r, Flight(r).result)
       \/ /\ Flight(r).result = "none"
          /\ Flight(r).cancelled \/ OwnerGone(r)
          /\ Ends(r, "cancelled")
    /\ flights' = LeftBy(req[r].flight)
    /\ UNCHANGED <<winVars, inFlight, cache, requests, expirations>>

\* The links of a result lose their validity (effective_stream_expiration).
Expires ==
    /\ expirations > 0
    /\ expirations' = expirations - 1
    /\ \E i \in DOMAIN cache : cache[i].fresh /\ cache' = [cache EXCEPT ![i].fresh = FALSE]
    /\ UNCHANGED <<winVars, req, flights, inFlight, requests>>

----------------------------------------------------------------------------
Init ==
    /\ WinInit
    /\ req = [r \in Requests |-> Idle]
    /\ flights = << >>
    /\ inFlight = [k \in Keys |-> 0]
    /\ cache = << >>
    /\ \E b \in Budgets : commands = b[1] /\ requests = b[2] /\ expirations = b[3]

\* A thread per request, and every extraction ends, by itself or by its timeout.
Step(r) ==
    \/ Looks(r) \/ LooksAtAnalysis(r) \/ Acquires(r)
    \/ Tries(r) \/ Registers(r) \/ AttemptEnds(r) \/ EmbedEnds(r)
    \/ Puts(r) \/ Publishes(r) \/ Removes(r) \/ Leaves(r) \/ Waits(r)

Next ==
    \/ WinNext /\ UNCHANGED resolverVars
    \/ \E r \in Requests : Arrives(r) \/ Step(r)
    \/ Expires

----------------------------------------------------------------------------
\* At most one extraction of a key runs at a time, whatever opens and closes around it.
OneExtraction ==
    \A r, s \in Requests :
        /\ {req[r].pc, req[s].pc} \subseteq {"spawned", "running", "embed"}
        /\ req[r].key = req[s].key
        => r = s

\* A request ends as cancelled only if its own window or the window of the request it
\* shares the work with went away: nobody's leaving cancels the others' work.
CancelNeedsACause ==
    \A r \in Requests :
        req[r].pc = "done" /\ req[r].answer = "cancelled" =>
            \/ OwnerGone(r)
            \/ OwnerGone(Flight(r).leader)

\* Every request is answered, the one whose leader is gone included, and a cancelled
\* operation is rid of its processes.
AtRest == draining = {} /\ \A r \in Requests : req[r].pc \in {"idle", "done"}

(***************************************************************************)
(* Why they hold: the inductive invariant.                                 *)
(***************************************************************************)
Answers == Good \cup {"error", "cancelled"}
Asking == {"idle", "look", "look at analysis", "acquire"}
Deciding == {"loop", "spawned", "running", "embed"}
Leading == Deciding \cup {"put", "publish", "remove"}
Consuming == Leading \cup {"leave", "wait"}

Operation == [cancelled : BOOLEAN, closed : BOOLEAN, processes : SUBSET Requests]
Request == [pc : Asking \cup Consuming \cup {"done"}, key : Keys \cup {<<>>}, op : Nat, flight : Nat,
            profile : Nat, selected : Good \cup {"none"}, answer : Answers \cup {"none"}]
FlightRecord ==
    [consumers : Nat, cancelled : BOOLEAN, result : Answers \cup {"none"}, leader : Requests]
ResolverTypeOK ==
    /\ ops \in Seq(Operation)
    /\ queue \in Seq(({"open"} \X Prep) \cup ({"close", "build", "show"} \X Labels))
    /\ req \in [Requests -> Request] /\ flights \in Seq(FlightRecord)
    /\ inFlight \in [Keys -> 0 .. Len(flights)]
    /\ cache \in Seq([key : Keys, value : Good, fresh : BOOLEAN])
    /\ \A r \in Requests :
          /\ req[r].op \in 0 .. Len(ops) /\ req[r].flight \in 0 .. Len(flights)
          /\ req[r].pc # "idle" => req[r].key \in Keys
          /\ req[r].pc \in Asking => req[r].flight = 0
          /\ req[r].pc \in Consuming => req[r].flight # 0

\* A preparation window has had an operation.
WindowsHaveOperations == \A l \in Prep : win[l] # "none" => registry[l] # 0

\* The flight that is found under a key is led by a request for that key that is still at
\* work, and nobody else works on that key.
FlightsAreLed ==
    /\ \A f \in DOMAIN flights : req[flights[f].leader].flight = f
    /\ \A r \in Requests : req[r].pc \in Leading =>
          inFlight[req[r].key] = req[r].flight /\ Flight(r).leader = r
    /\ \A k \in Keys : inFlight[k] # 0 =>
          LET leader == flights[inFlight[k]].leader
          IN  req[leader].pc \in Leading /\ req[leader].key = k

\* A flight counts those who still want it, and is cancelled when there is none left.
Consumers(f) == {r \in Requests : req[r].pc \in Consuming /\ req[r].flight = f}
ConsumersAreCounted ==
    \A f \in DOMAIN flights :
        /\ flights[f].consumers = Cardinality(Consumers(f))
        /\ flights[f].cancelled => Consumers(f) = {}

\* Whoever takes a cancellation on has lost its own window.
CausesAreOwn ==
    /\ \A r \in Requests :
          /\ req[r].pc \in {"put", "publish", "remove", "leave"} /\ req[r].answer = "cancelled" =>
                OwnerGone(r)
          /\ req[r].pc = "done" /\ req[r].flight = 0 => req[r].answer \in Good
    /\ \A f \in DOMAIN flights : flights[f].result = "cancelled" => OwnerGone(flights[f].leader)

PreparationInv ==
    /\ WinTypeOK /\ ResolverTypeOK /\ WindowsHaveOperations /\ MainNeverStuck /\ CancelledOwnsNothing
    /\ FlightsAreLed /\ ConsumersAreCounted /\ CausesAreOwn /\ CancelNeedsACause
=============================================================================
