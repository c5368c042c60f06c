----------------------------- MODULE MediaSearch -----------------------------
(* The searches of the main window: requests for one page of a query share a flight, a request
   of another query supersedes the flights of the older ones, and answers are cached for thirty
   seconds (media/search.rs).  A request runs on a thread of its own; a flight is named by the
   request that leads it.  Each request is made once, which bounds a behaviour; the cache's
   limit of 32 pages and its expiry are one action that forgets an entry. *)
EXTENDS Naturals, FiniteSets

CONSTANTS Requests, Keys    \* a key: a query, and a part of it (a page and the kind of search)

VARIABLES
    sreq,       \* request |-> its step, its key, the flight it uses, its answer, and whether
                \* a request of another query or an emptied search box came after it
    sflight,    \* leader |-> cancelled? and the result its consumers wait for
    sInFlight,  \* the flights the state holds, one per key (their leaders)
    sCache      \* the keys with an answer that has not expired
svars == <<sreq, sflight, sInFlight, sCache>>

SearchInit ==
    /\ sreq = [r \in Requests |-> [at |-> "idle", key |-> CHOOSE k \in Keys : TRUE,
                                   flight |-> r, answer |-> "none", superseded |-> FALSE]]
    /\ sflight = [r \in Requests |-> [cancelled |-> FALSE, result |-> "none"]]
    /\ sInFlight = {}
    /\ sCache = {}

Working == {"check", "command", "cache", "publish", "remove", "wait"}
\* The requests that a new one for query q makes obsolete.
Supersede(superseded, q) ==
    [x \in Requests |-> [superseded[x] EXCEPT
        !.superseded = @ \/ (superseded[x].at \in Working /\ superseded[x].key.query # q)]]
Of(key) == {f \in sInFlight : sreq[f].key = key}
\* cancel_obsolete_searches: of the flights the state holds, those of another query.
Obsolete(q) == {f \in sInFlight : sreq[f].key.query # q}
Cancelled(fs) == [f \in Requests |-> [sflight[f] EXCEPT !.cancelled = @ \/ f \in fs]]
\* A flight of the same key is shared unless it has been cancelled.
ReusableAlways(key) == Of(key)
Reusable(key) == {f \in Of(key) : ~sflight[f].cancelled}

\* The requests are numbered in the order in which they come.
Comes(r) == sreq[r].at = "idle" /\ \A q \in Requests : q < r => sreq[q].at # "idle"
\* execute_search up to the release of the state: a cached answer cancels nothing.
Hits(r, key) ==
    /\ Comes(r) /\ key \in sCache
    /\ sreq' = [Supersede(sreq, key.query) EXCEPT ![r] = [@ EXCEPT !.at = "done", !.key = key, !.answer = "ok"]]
    /\ UNCHANGED <<sflight, sInFlight, sCache>>
Joins(r, key) ==
    /\ Comes(r) /\ key \notin sCache
    /\ \E f \in Reusable(key) :
        sreq' = [Supersede(sreq, key.query) EXCEPT ![r] = [@ EXCEPT !.at = "wait", !.key = key, !.flight = f]]
    /\ sflight' = Cancelled(Obsolete(key.query))
    /\ UNCHANGED <<sInFlight, sCache>>
Leads(r, key) ==
    /\ Comes(r) /\ key \notin sCache /\ Reusable(key) = {}
    /\ sreq' = [Supersede(sreq, key.query) EXCEPT ![r] = [@ EXCEPT !.at = "check", !.key = key, !.flight = r]]
    /\ sflight' = Cancelled(Obsolete(key.query))
    /\ sInFlight' = (sInFlight \ Of(key)) \cup {r}
    /\ UNCHANGED sCache
\* A suggestion query too short or too long: every flight the state holds is cancelled.
Emptied ==
    /\ \E f \in sInFlight : ~sflight[f].cancelled
    /\ sflight' = Cancelled(sInFlight)
    /\ sreq' = [x \in Requests |-> [sreq[x] EXCEPT !.superseded = @ \/ sreq[x].at \in Working]]
    /\ UNCHANGED <<sInFlight, sCache>>

\* search_media_internal_with_timeout_cancelable: the flag is read once before the process is
\* started and then every 25 ms while it runs; the process has a timeout.  Its answer stands
\* when it ends before the flag is read.
To(r, at) == sreq' = [sreq EXCEPT ![r].at = at]
Checks(r) ==
    /\ sreq[r].at = "check"
    /\ IF sflight[r].cancelled
       THEN sreq' = [sreq EXCEPT ![r].at = "publish", ![r].answer = "cancelled"]
       ELSE To(r, "command")
    /\ UNCHANGED <<sflight, sInFlight, sCache>>
CommandEnds(r) ==
    /\ sreq[r].at = "command"
    /\ \/ sreq' = [sreq EXCEPT ![r].at = "cache", ![r].answer = "ok"]
       \/ sreq' = [sreq EXCEPT ![r].at = "publish", ![r].answer = "error"]
       \/ /\ sflight[r].cancelled
          /\ sreq' = [sreq EXCEPT ![r].at = "publish", ![r].answer = "cancelled"]
    /\ UNCHANGED <<sflight, sInFlight, sCache>>
Caches(r) ==
    /\ sreq[r].at = "cache"
    /\ sCache' = sCache \cup {sreq[r].key}
    /\ To(r, "publish")
    /\ UNCHANGED <<sflight, sInFlight>>
PublishesGood(r) ==
    /\ sreq[r].at = "publish"
    /\ sflight' = [sflight EXCEPT ![r].result = IF sreq[r].answer = "cancelled" THEN "none" ELSE sreq[r].answer]
    /\ To(r, "remove")
    /\ UNCHANGED <<sInFlight, sCache>>
Publishes(r) ==
    /\ sreq[r].at = "publish"
    /\ sflight' = [sflight EXCEPT ![r].result = sreq[r].answer]
    /\ To(r, "remove")
    /\ UNCHANGED <<sInFlight, sCache>>
\* Only its own flight leaves the state: a later request may have put another in its place.
RemovesAny(r) ==
    /\ sreq[r].at = "remove"
    /\ sInFlight' = sInFlight \ Of(sreq[r].key)
    /\ To(r, "done")
    /\ UNCHANGED <<sflight, sCache>>
Removes(r) ==
    /\ sreq[r].at = "remove"
    /\ sInFlight' = sInFlight \ {r}
    /\ To(r, "done")
    /\ UNCHANGED <<sflight, sCache>>
\* wait_for_search: without a timeout, until the leader publishes.
Waits(r) ==
    /\ sreq[r].at = "wait" /\ sflight[sreq[r].flight].result # "none"
    /\ sreq' = [sreq EXCEPT ![r].at = "done", ![r].answer = sflight[sreq[r].flight].result]
    /\ UNCHANGED <<sflight, sInFlight, sCache>>
Forgets(key) ==
    /\ key \in sCache
    /\ sCache' = sCache \ {key}
    /\ UNCHANGED <<sreq, sflight, sInFlight>>

SearchSteps(r) == Checks(r) \/ CommandEnds(r) \/ Caches(r) \/ Publishes(r) \/ Removes(r) \/ Waits(r)
SearchNext ==
    \/ Emptied
    \/ \E r \in Requests :
        SearchSteps(r) \/ \E key \in Keys : Hits(r, key) \/ Joins(r, key) \/ Leads(r, key)
    \/ \E key \in Keys : Forgets(key)
------------------------------------------------------------------------------
Live(f) == sreq[f].at \in {"check", "command"} /\ ~sflight[f].cancelled
\* Work is never done twice, nor for a query that is no longer wanted: two searches that still
\* run uncancelled are for different pages of one query (search.rs:191 "A new query supersedes
\* older query work"), which takes the replacement of a cancelled flight, the late removal by
\* its leader and a third request to get wrong.
OneQueryWorks ==
    \A f, g \in Requests : Live(f) /\ Live(g) /\ f # g =>
        sreq[f].key.query = sreq[g].key.query /\ sreq[f].key # sreq[g].key
\* A request is answered "search_cancelled" only if another query, or an emptied box, came
\* after it: it never inherits a cancellation older than itself from a flight it joined.
LatestIsServed ==
    \A r \in Requests : sreq[r].at = "done" /\ sreq[r].answer = "cancelled" => sreq[r].superseded
SearchSafe == OneQueryWorks /\ LatestIsServed

\* What SearchSafe rests on (proved in PartsProof).  The types:
SearchTypeOK ==
    /\ sreq \in [Requests -> [at : Working \cup {"idle", "done"}, key : Keys, flight : Requests,
                              answer : {"none", "ok", "error", "cancelled"}, superseded : BOOLEAN]]
    /\ sflight \in [Requests -> [cancelled : BOOLEAN, result : {"none", "ok", "error", "cancelled"}]]
    /\ sInFlight \subseteq Requests
\* A flight that the state holds is led, and one that runs uncancelled is held; only what is
\* held is cancelled, so a request to come has a flight that is not.
FlightsAreHeld ==
    /\ \A f \in sInFlight : sreq[f].at \in Working \ {"wait"}
    /\ \A r \in Requests : /\ sreq[r].at \in Working \ {"wait"} => sreq[r].flight = r
                           /\ Live(r) => r \in sInFlight
                           /\ sreq[r].at = "idle" => ~sflight[r].cancelled /\ sreq[r].answer = "none"
\* Of the flights that the state holds, those not cancelled are for pages of one query.
OneQueryInFlight ==
    \A f, g \in sInFlight : ~sflight[f].cancelled /\ ~sflight[g].cancelled /\ f # g =>
        sreq[f].key.query = sreq[g].key.query /\ sreq[f].key # sreq[g].key
\* Who works on a flight wants what its leader wants, and is superseded if it is cancelled; an
\* answer of that kind comes from such a flight alone.
CancelledIsSuperseded ==
    /\ \A r \in Requests : sreq[r].at \in Working =>
           LET f == sreq[r].flight IN
           /\ sreq[f].at # "idle" /\ sreq[f].key = sreq[r].key
           /\ sflight[f].cancelled => sreq[r].superseded
    /\ \A r \in Requests : /\ sreq[r].at = "cache" => sreq[r].answer = "ok"
                           /\ sreq[r].at \in {"publish", "remove"} /\ sreq[r].answer = "cancelled"
                                  => sflight[r].cancelled
                           /\ sflight[r].result = "cancelled" => sflight[r].cancelled
SearchInv ==
    SearchTypeOK /\ FlightsAreHeld /\ OneQueryInFlight /\ CancelledIsSuperseded /\ LatestIsServed

\* Every search is answered: the leader's process has a timeout and its waiters have none.
AtRest == \A r \in Requests : sreq[r].at \in {"idle", "done"}
==============================================================================
