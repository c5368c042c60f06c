----------------------------- MODULE PartsProof -----------------------------
(***************************************************************************)
(* Theorems about the parts of MCParts and MCServices, for any value of    *)
(* their constants.                                                        *)
(***************************************************************************)
EXTENDS MCServices, FiniteSetTheorems, SequenceTheorems, TLAPS

----------------------------------------------------------------------------
(* the searches of the main window: see MediaSearch *)

\* Nobody searches at first.
LEMMA SearchStart == ASSUME SearchKeys # {}, Search!SearchInit PROVE Search!SearchInv
BY DEF Search!SearchInit, Search!SearchInv, Search!SearchTypeOK, Search!FlightsAreHeld,
       Search!OneQueryInFlight, Search!CancelledIsSuperseded, Search!LatestIsServed,
       Search!Working, Search!Live

\* The state of a request, and what there is of it besides its types.
SearchPCs == Search!Working \cup {"idle", "done"}
Answered == {"none", "ok", "error", "cancelled"}
SearchRecord == [at : SearchPCs, key : SearchKeys, flight : Requests, answer : Answered,
                 superseded : BOOLEAN]

\* A new query marks the requests of others that are being worked on, and changes nothing else.
LEMMA SupersedeMarks ==
    ASSUME x1 \in [Requests -> SearchRecord], NEW q, NEW y, y = Search!Supersede(x1, q)
    PROVE  /\ y \in [Requests -> SearchRecord]
           /\ \A x \in Requests :
                  /\ y[x].at = x1[x].at /\ y[x].key = x1[x].key
                  /\ y[x].flight = x1[x].flight /\ y[x].answer = x1[x].answer
                  /\ x1[x].superseded => y[x].superseded
                  /\ x1[x].at \in Search!Working /\ x1[x].key.query # q => y[x].superseded
<1> SUFFICES ASSUME NEW x \in Requests
             PROVE  /\ y[x] \in SearchRecord
                    /\ y[x].at = x1[x].at /\ y[x].key = x1[x].key
                    /\ y[x].flight = x1[x].flight /\ y[x].answer = x1[x].answer
                    /\ x1[x].superseded => y[x].superseded
                    /\ x1[x].at \in Search!Working /\ x1[x].key.query # q => y[x].superseded
  BY DEF Search!Supersede
<1> DEFINE mark == x1[x].superseded \/ (x1[x].at \in Search!Working /\ x1[x].key.query # q)
<1>1. y[x] = [x1[x] EXCEPT !.superseded = mark]
  BY DEF Search!Supersede
<1>2. mark \in BOOLEAN /\ x1[x] \in SearchRecord
  OBVIOUS
<1>3. y[x].superseded = mark
  BY <1>1, <1>2 DEF SearchRecord
<1> HIDE DEF mark
<1>4. y[x] \in SearchRecord /\ y[x].at = x1[x].at /\ y[x].key = x1[x].key
      /\ y[x].flight = x1[x].flight /\ y[x].answer = x1[x].answer
  BY <1>1, <1>2 DEF SearchRecord
<1> QED
  BY <1>3, <1>4 DEF mark

\* So does an emptied search box, with all of them.
LEMMA EmptiedMarks ==
    ASSUME x1 \in [Requests -> SearchRecord], Search!Emptied
    PROVE  /\ x1' \in [Requests -> SearchRecord]
           /\ \A x \in Requests :
                  /\ x1'[x].at = x1[x].at /\ x1'[x].key = x1[x].key
                  /\ x1'[x].flight = x1[x].flight /\ x1'[x].answer = x1[x].answer
                  /\ x1[x].superseded => x1'[x].superseded
                  /\ x1[x].at \in Search!Working => x1'[x].superseded
<1> SUFFICES ASSUME NEW x \in Requests
             PROVE  /\ x1'[x] \in SearchRecord
                    /\ x1'[x].at = x1[x].at /\ x1'[x].key = x1[x].key
                    /\ x1'[x].flight = x1[x].flight /\ x1'[x].answer = x1[x].answer
                    /\ x1[x].superseded => x1'[x].superseded
                    /\ x1[x].at \in Search!Working => x1'[x].superseded
  BY DEF Search!Emptied
<1> DEFINE mark == x1[x].superseded \/ x1[x].at \in Search!Working
<1>1. x1'[x] = [x1[x] EXCEPT !.superseded = mark]
  BY DEF Search!Emptied
<1>2. mark \in BOOLEAN /\ x1[x] \in SearchRecord
  OBVIOUS
<1>3. x1'[x].superseded = mark
  BY <1>1, <1>2 DEF SearchRecord
<1> HIDE DEF mark
<1>4. x1'[x] \in SearchRecord /\ x1'[x].at = x1[x].at /\ x1'[x].key = x1[x].key
      /\ x1'[x].flight = x1[x].flight /\ x1'[x].answer = x1[x].answer
  BY <1>1, <1>2 DEF SearchRecord
<1> QED
  BY <1>3, <1>4 DEF mark

\* Cancelling flights sets their flags.
LEMMA CancelledAre ==
    ASSUME x2 \in [Requests -> [cancelled : BOOLEAN, result : Answered]], NEW fs,
           NEW y, y = Search!Cancelled(fs)
    PROVE  /\ y \in [Requests -> [cancelled : BOOLEAN, result : Answered]]
           /\ \A f \in Requests : /\ y[f].cancelled <=> x2[f].cancelled \/ f \in fs
                                  /\ y[f].result = x2[f].result
BY DEF Search!Cancelled

\* A step of a request at work changes where it is and its answer, and nothing of others.
LEMMA SearchStepIsOwn ==
    ASSUME Search!SearchTypeOK, NEW r \in Requests, Search!SearchSteps(r)
    PROVE  /\ Search!SearchTypeOK'
           /\ \A x \in Requests \ {r} : x1'[x] = x1[x]
           /\ x1'[r].key = x1[r].key /\ x1'[r].flight = x1[r].flight
           /\ x1'[r].superseded = x1[r].superseded
           /\ \A f \in Requests : x2'[f].cancelled = x2[f].cancelled
           /\ \A f \in Requests \ {r} : x2'[f] = x2[f]
           /\ x1[r].at \in Search!Working
<1> USE DEF Search!SearchTypeOK, Search!Working, Search!To
<1>1. CASE Search!Checks(r)
  BY <1>1 DEF Search!Checks
<1>2. CASE Search!CommandEnds(r)
  BY <1>2 DEF Search!CommandEnds
<1>3. CASE Search!Caches(r)
  BY <1>3 DEF Search!Caches
<1>4. CASE Search!Publishes(r)
  BY <1>4 DEF Search!Publishes
<1>5. CASE Search!Removes(r)
  BY <1>5 DEF Search!Removes
<1>6. CASE Search!Waits(r)
  BY <1>6 DEF Search!Waits
<1> QED
  BY <1>1, <1>2, <1>3, <1>4, <1>5, <1>6 DEF Search!SearchSteps

\* What a request at work does keeps the invariant: the leader runs, answers and leaves with
\* its own flight; who waits takes over the answer.
LEMMA WorkKeepsSearch ==
    ASSUME Search!SearchInv, NEW r \in Requests, Search!SearchSteps(r)
    PROVE  Search!SearchInv'
<1> USE DEF Search!SearchInv
<1>a. /\ Search!SearchTypeOK'
      /\ \A x \in Requests \ {r} : x1'[x] = x1[x]
      /\ x1'[r].key = x1[r].key /\ x1'[r].flight = x1[r].flight
      /\ x1'[r].superseded = x1[r].superseded
      /\ \A f \in Requests : x2'[f].cancelled = x2[f].cancelled
      /\ \A f \in Requests \ {r} : x2'[f] = x2[f]
      /\ x1[r].at \in Search!Working
  BY SearchStepIsOwn
<1>b. \A x \in Requests : x1'[x].key = x1[x].key /\ x1'[x].flight = x1[x].flight
                          /\ x1'[x].superseded = x1[x].superseded
  BY <1>a
<1>c. /\ x3' \subseteq x3
      /\ x1'[r].at \in (Search!Working \ {"wait"}) \cup {"done"}
      /\ x1'[r].at \in Search!Working => x1[r].at # "wait"
      /\ x1'[r].at \in {"check", "command"} => x1[r].at = "check" /\ x3' = x3
      /\ r \in x3' => x1'[r].at # "done" \/ x1[r].at = "wait"
      /\ \A f \in x3 \ {r} : f \in x3'
  <2> USE DEF Search!SearchTypeOK, Search!To, Search!Working
  <2>1. CASE Search!Checks(r)
    BY <2>1 DEF Search!Checks
  <2>2. CASE Search!CommandEnds(r)
    BY <2>2 DEF Search!CommandEnds
  <2>3. CASE Search!Caches(r)
    BY <2>3 DEF Search!Caches
  <2>4. CASE Search!Publishes(r)
    BY <2>4 DEF Search!Publishes
  <2>5. CASE Search!Removes(r)
    BY <2>5 DEF Search!Removes
  <2>6. CASE Search!Waits(r)
    BY <2>6 DEF Search!Waits
  <2> QED
    BY <2>1, <2>2, <2>3, <2>4, <2>5, <2>6 DEF Search!SearchSteps
<1>1. Search!FlightsAreHeld'
  <2> USE DEF Search!FlightsAreHeld, Search!SearchTypeOK, Search!Working
  <2>1. \A f \in x3' : x1'[f].at \in Search!Working \ {"wait"}
    BY <1>a, <1>c
  <2>2. \A x \in Requests : Search!Live(x)' => x \in x3'
    BY <1>a, <1>c DEF Search!Live
  <2>3. \A x \in Requests : x1'[x].at \in Search!Working \ {"wait"} => x1'[x].flight = x
    BY <1>a, <1>c
  <2>4. \A x \in Requests : x1'[x].at = "idle" => ~x2'[x].cancelled /\ x1'[x].answer = "none"
    BY <1>a, <1>c
  <2> QED
    BY <2>1, <2>2, <2>3, <2>4
<1>2. Search!OneQueryInFlight'
  BY <1>a, <1>b, <1>c DEF Search!OneQueryInFlight, Search!SearchTypeOK
<1>3. /\ x1'[r].at = "cache" => x1'[r].answer = "ok"
      /\ x1'[r].at \in {"publish", "remove"} /\ x1'[r].answer = "cancelled" => x2[r].cancelled
      /\ x2'[r].result = "cancelled" => x2[r].cancelled
      /\ x1'[r].at = "done" /\ x1'[r].answer = "cancelled" => x1[r].superseded
  <2> USE DEF Search!SearchTypeOK, Search!To, Search!Working, Search!CancelledIsSuperseded,
              Search!FlightsAreHeld
  <2>1. CASE Search!Checks(r)
    BY <2>1 DEF Search!Checks
  <2>2. CASE Search!CommandEnds(r)
    BY <2>2 DEF Search!CommandEnds
  <2>3. CASE Search!Caches(r)
    BY <2>3 DEF Search!Caches
  <2>4. CASE Search!Publishes(r)
    BY <2>4 DEF Search!Publishes
  <2>5. CASE Search!Removes(r)
    BY <2>5 DEF Search!Removes
  <2>6. CASE Search!Waits(r)
    BY <2>6 DEF Search!Waits
  <2> QED
    BY <2>1, <2>2, <2>3, <2>4, <2>5, <2>6 DEF Search!SearchSteps
<1>4. Search!CancelledIsSuperseded'
  <2>1. ASSUME NEW x \in Requests, x1'[x].at \in Search!Working
        PROVE  /\ x1'[x1'[x].flight].at # "idle" /\ x1'[x1'[x].flight].key = x1'[x].key
               /\ x2'[x1'[x].flight].cancelled => x1'[x].superseded
    <3>1. x1[x].at \in Search!Working /\ x1[x].flight \in Requests
      BY <1>a, <2>1 DEF Search!SearchTypeOK
    <3>2. x1'[x1[x].flight].at # "idle"
      BY <1>a, <1>c, <3>1 DEF Search!CancelledIsSuperseded, Search!Working
    <3> QED
      BY <1>a, <1>b, <3>1, <3>2 DEF Search!CancelledIsSuperseded
  <2>2. ASSUME NEW x \in Requests
        PROVE  /\ x1'[x].at = "cache" => x1'[x].answer = "ok"
               /\ x1'[x].at \in {"publish", "remove"} /\ x1'[x].answer = "cancelled"
                      => x2'[x].cancelled
               /\ x2'[x].result = "cancelled" => x2'[x].cancelled
    BY <1>a, <1>3 DEF Search!CancelledIsSuperseded
  <2> QED
    BY <2>1, <2>2 DEF Search!CancelledIsSuperseded
<1>5. Search!LatestIsServed'
  BY <1>a, <1>b, <1>3 DEF Search!LatestIsServed
<1> QED
  BY <1>a, <1>1, <1>2, <1>4, <1>5

\* A request that comes changes its own record, and marks those of other queries.
LEMMA ComingMarks ==
    ASSUME Search!SearchTypeOK, NEW r \in Requests, NEW key \in SearchKeys,
           Search!Hits(r, key) \/ Search!Joins(r, key) \/ Search!Leads(r, key)
    PROVE  /\ Search!SearchTypeOK' /\ x1[r].at = "idle"
           /\ \A x \in Requests \ {r} :
                  /\ x1'[x].at = x1[x].at /\ x1'[x].key = x1[x].key
                  /\ x1'[x].flight = x1[x].flight /\ x1'[x].answer = x1[x].answer
                  /\ x1[x].superseded => x1'[x].superseded
                  /\ x1[x].at \in Search!Working /\ x1[x].key.query # key.query
                         => x1'[x].superseded
           /\ x1'[r].key = key
           /\ \/ Search!Hits(r, key) /\ x1'[r].at = "done" /\ x1'[r].answer = "ok"
              \/ /\ Search!Joins(r, key) /\ x1'[r].at = "wait" /\ x1'[r].answer = x1[r].answer
                 /\ x1'[r].flight \in Search!Reusable(key)
              \/ /\ Search!Leads(r, key) /\ x1'[r].at = "check" /\ x1'[r].answer = x1[r].answer
                 /\ x1'[r].flight = r
<1> DEFINE y == Search!Supersede(x1, key.query)
<1>1. x1 \in [Requests -> SearchRecord] /\ x1[r].at = "idle"
  BY DEF Search!SearchTypeOK, SearchRecord, SearchPCs, Answered, Search!Hits, Search!Joins,
         Search!Leads, Search!Comes
<1>2. /\ y \in [Requests -> SearchRecord]
      /\ \A x \in Requests :
             /\ y[x].at = x1[x].at /\ y[x].key = x1[x].key
             /\ y[x].flight = x1[x].flight /\ y[x].answer = x1[x].answer
             /\ x1[x].superseded => y[x].superseded
             /\ x1[x].at \in Search!Working /\ x1[x].key.query # key.query => y[x].superseded
  BY <1>1, SupersedeMarks
<1>3. x2 \in [Requests -> [cancelled : BOOLEAN, result : Answered]]
  BY DEF Search!SearchTypeOK, Answered
<1>4. Search!Cancelled(Search!Obsolete(key.query)) \in [Requests -> [cancelled : BOOLEAN, result : Answered]]
  BY <1>3, CancelledAre
<1>c. "wait" \in SearchPCs /\ "check" \in SearchPCs
  BY DEF SearchPCs, Search!Working
<1> HIDE DEF y
<1>5. CASE Search!Hits(r, key)
  <2>1. x1' = [y EXCEPT ![r] = [@ EXCEPT !.at = "done", !.key = key, !.answer = "ok"]]
        /\ x2' = x2 /\ x3' = x3
    BY <1>5 DEF Search!Hits, y
  <2>2. x1' \in [Requests -> SearchRecord] /\ x1'[r].key = key /\ x1'[r].at = "done"
        /\ x1'[r].answer = "ok" /\ \A x \in Requests \ {r} : x1'[x] = y[x]
    <3>1. y[r] \in SearchRecord /\ key \in SearchKeys
      BY <1>2
    <3> DEFINE m == [y[r] EXCEPT !.at = "done", !.key = key, !.answer = "ok"]
    <3>2. m \in SearchRecord /\ m.key = key /\ m.at = "done" /\ m.answer = "ok"
      BY <3>1 DEF SearchRecord, SearchPCs, Answered
    <3>3. x1' = [y EXCEPT ![r] = m]
      BY <2>1
    <3> HIDE DEF m
    <3> QED
      BY <1>2, <3>2, <3>3
  <2> QED
    BY <1>1, <1>2, <1>5, <2>1, <2>2 DEF Search!SearchTypeOK, SearchRecord, SearchPCs, Answered
<1>6. CASE Search!Joins(r, key)
  <2>1. PICK f \in Search!Reusable(key) :
            x1' = [y EXCEPT ![r] = [@ EXCEPT !.at = "wait", !.key = key, !.flight = f]]
    BY <1>6 DEF Search!Joins, y
  <2>2. f \in Requests /\ x3' = x3 /\ x2' = Search!Cancelled(Search!Obsolete(key.query))
    BY <1>6 DEF Search!Joins, Search!Reusable, Search!Of, Search!SearchTypeOK
  <2>3. x1' \in [Requests -> SearchRecord] /\ x1'[r].key = key /\ x1'[r].at = "wait"
        /\ x1'[r].flight = f /\ x1'[r].answer = y[r].answer
        /\ \A x \in Requests \ {r} : x1'[x] = y[x]
    <3>1. x1'[r] = [y[r] EXCEPT !.at = "wait", !.key = key, !.flight = f] /\ y[r] \in SearchRecord
      BY <1>2, <2>1
    <3>2. /\ x1'[r] \in SearchRecord /\ x1'[r].key = key /\ x1'[r].at = "wait"
          /\ x1'[r].flight = f /\ x1'[r].answer = y[r].answer
      BY <1>c, <2>2, <3>1 DEF SearchRecord
    <3>3. x1' = [x \in Requests |-> IF x = r THEN x1'[r] ELSE y[x]]
      BY <1>2, <2>1
    <3> QED
      BY <1>2, <3>2, <3>3
  <2> QED
    BY <1>1, <1>2, <1>4, <1>6, <2>1, <2>2, <2>3
       DEF Search!SearchTypeOK, SearchRecord, SearchPCs, Answered
<1>7. CASE Search!Leads(r, key)
  <2>1. x1' = [y EXCEPT ![r] = [@ EXCEPT !.at = "check", !.key = key, !.flight = r]]
        /\ x3' = (x3 \ Search!Of(key)) \cup {r}
        /\ x2' = Search!Cancelled(Search!Obsolete(key.query))
    BY <1>7 DEF Search!Leads, y
  <2>2. x1' \in [Requests -> SearchRecord] /\ x1'[r].key = key /\ x1'[r].at = "check"
        /\ x1'[r].flight = r /\ x1'[r].answer = y[r].answer
        /\ \A x \in Requests \ {r} : x1'[x] = y[x]
    <3>1. x1'[r] = [y[r] EXCEPT !.at = "check", !.key = key, !.flight = r] /\ y[r] \in SearchRecord
      BY <1>2, <2>1
    <3>2. /\ x1'[r] \in SearchRecord /\ x1'[r].key = key /\ x1'[r].at = "check"
          /\ x1'[r].flight = r /\ x1'[r].answer = y[r].answer
      BY <1>c, <3>1 DEF SearchRecord
    <3>3. x1' = [x \in Requests |-> IF x = r THEN x1'[r] ELSE y[x]]
      BY <1>2, <2>1
    <3> QED
      BY <1>2, <3>2, <3>3
  <2> QED
    BY <1>1, <1>2, <1>4, <1>7, <2>1, <2>2
       DEF Search!SearchTypeOK, SearchRecord, SearchPCs, Answered
<1> QED
  BY <1>5, <1>6, <1>7

\* A request that comes keeps the invariant: it has a flight of its own that no other cancels,
\* or one of its page that is not cancelled; what it cancels belongs to other queries, whose
\* requests it supersedes.
LEMMA ComingKeepsSearch ==
    ASSUME Search!SearchInv, NEW r \in Requests, NEW key \in SearchKeys,
           Search!Hits(r, key) \/ Search!Joins(r, key) \/ Search!Leads(r, key)
    PROVE  Search!SearchInv'
<1> USE DEF Search!SearchInv
<1> DEFINE others == Search!Obsolete(key.query)
<1>1. /\ Search!SearchTypeOK' /\ x1[r].at = "idle"
      /\ \A x \in Requests \ {r} :
             /\ x1'[x].at = x1[x].at /\ x1'[x].key = x1[x].key
             /\ x1'[x].flight = x1[x].flight /\ x1'[x].answer = x1[x].answer
             /\ x1[x].superseded => x1'[x].superseded
             /\ x1[x].at \in Search!Working /\ x1[x].key.query # key.query
                    => x1'[x].superseded
      /\ x1'[r].key = key
      /\ \/ Search!Hits(r, key) /\ x1'[r].at = "done" /\ x1'[r].answer = "ok"
         \/ /\ Search!Joins(r, key) /\ x1'[r].at = "wait" /\ x1'[r].answer = x1[r].answer
            /\ x1'[r].flight \in Search!Reusable(key)
         \/ /\ Search!Leads(r, key) /\ x1'[r].at = "check" /\ x1'[r].answer = x1[r].answer
            /\ x1'[r].flight = r
  BY ComingMarks
<1>2. x2 \in [Requests -> [cancelled : BOOLEAN, result : Answered]] /\ x3 \subseteq Requests
  BY DEF Search!SearchTypeOK, Answered
<1>3. \A f \in others : f \in x3 /\ x1[f].key.query # key.query
  BY DEF Search!Obsolete
<1>4. /\ \A f \in x3 : x1[f].at \in Search!Working \ {"wait"} /\ f # r
      /\ r \notin x3 /\ ~x2[r].cancelled /\ x1[r].answer = "none"
  BY <1>1, <1>2 DEF Search!FlightsAreHeld, Search!Working
<1>5. \A f \in Requests : /\ x2[f].cancelled => x2'[f].cancelled
                          /\ x2'[f].result = x2[f].result
                          /\ x2'[f].cancelled => x2[f].cancelled \/ f \in others
                          /\ f \in others /\ ~Search!Hits(r, key) => x2'[f].cancelled
  <2>1. CASE Search!Hits(r, key)
    BY <2>1 DEF Search!Hits
  <2>2. CASE Search!Joins(r, key) \/ Search!Leads(r, key)
    <3>1. x2' = Search!Cancelled(others)
      BY <2>2 DEF Search!Joins, Search!Leads
    <3> HIDE DEF others
    <3> QED
      BY <1>2, <3>1, CancelledAre
  <2> QED
    BY <1>1, <2>1, <2>2
<1>6. \/ x3' = x3 /\ x1'[r].at \in {"done", "wait"}
      \/ /\ Search!Leads(r, key) /\ x1'[r].at = "check" /\ x1'[r].flight = r
         /\ x3' = (x3 \ Search!Of(key)) \cup {r}
         /\ \A f \in x3 : f \in Search!Of(key) => x2[f].cancelled
  <2>1. CASE Search!Hits(r, key) /\ x1'[r].at = "done"
    BY <2>1 DEF Search!Hits
  <2>2. CASE Search!Joins(r, key) /\ x1'[r].at = "wait"
    BY <2>2 DEF Search!Joins
  <2>3. CASE Search!Leads(r, key) /\ x1'[r].at = "check" /\ x1'[r].flight = r
    BY <2>3 DEF Search!Leads, Search!Reusable
  <2> QED
    BY <1>1, <2>1, <2>2, <2>3
<1> HIDE DEF others
<1>7. Search!FlightsAreHeld'
  <2>1. \A f \in x3' : x1'[f].at \in Search!Working \ {"wait"}
    BY <1>1, <1>2, <1>4, <1>6 DEF Search!Working
  <2>2. ASSUME NEW x \in Requests, Search!Live(x)'
        PROVE  x \in x3'
    <3>1. CASE x = r
      BY <1>6, <2>2, <3>1 DEF Search!Live
    <3>2. CASE x # r
      <4>1. Search!Live(x)
        BY <1>1, <1>5, <2>2, <3>2 DEF Search!Live
      <4> QED
        BY <1>6, <2>2, <4>1 DEF Search!FlightsAreHeld, Search!Live
    <3> QED
      BY <3>1, <3>2
  <2>3. ASSUME NEW x \in Requests
        PROVE  /\ x1'[x].at \in Search!Working \ {"wait"} => x1'[x].flight = x
               /\ x1'[x].at = "idle" => ~x2'[x].cancelled /\ x1'[x].answer = "none"
    <3>1. CASE x = r
      BY <1>6, <3>1 DEF Search!Working
    <3>2. CASE x # r
      BY <1>1, <1>3, <1>4, <1>5, <3>2 DEF Search!FlightsAreHeld, Search!Working
    <3> QED
      BY <3>1, <3>2
  <2> QED
    BY <2>1, <2>2, <2>3 DEF Search!FlightsAreHeld
<1>8. Search!OneQueryInFlight'
  <2> SUFFICES ASSUME NEW f \in x3', NEW g \in x3', ~x2'[f].cancelled, ~x2'[g].cancelled, f # g
               PROVE  x1'[f].key.query = x1'[g].key.query /\ x1'[f].key # x1'[g].key
    BY DEF Search!OneQueryInFlight
  <2>1. ASSUME NEW h \in x3, h # r, h \in x3', ~x2'[h].cancelled, r \in x3'
        PROVE  x1'[h].key.query = key.query /\ x1'[h].key # key
    <3>1. x1'[h].key = x1[h].key /\ ~x2[h].cancelled /\ Search!Leads(r, key)
      BY <1>1, <1>2, <1>4, <1>5, <1>6, <2>1
    <3>2. h \notin others /\ h \notin Search!Of(key)
      BY <1>2, <1>4, <1>5, <1>6, <2>1, <3>1 DEF Search!Leads, Search!Hits, Search!Reusable
    <3> QED
      BY <2>1, <3>1, <3>2 DEF others, Search!Obsolete, Search!Of
  <2>2. CASE f = r
    BY <1>1, <1>6, <2>1, <2>2
  <2>3. CASE g = r
    BY <1>1, <1>6, <2>1, <2>3
  <2>4. CASE f # r /\ g # r
    <3>1. f \in x3 /\ g \in x3 /\ ~x2[f].cancelled /\ ~x2[g].cancelled
      BY <1>2, <1>5, <1>6, <2>4
    <3> QED
      BY <1>1, <1>2, <2>4, <3>1 DEF Search!OneQueryInFlight
  <2> QED
    BY <2>2, <2>3, <2>4
<1>9. Search!CancelledIsSuperseded'
  <2>1. ASSUME NEW x \in Requests, x1'[x].at \in Search!Working
        PROVE  /\ x1'[x1'[x].flight].at # "idle" /\ x1'[x1'[x].flight].key = x1'[x].key
               /\ x2'[x1'[x].flight].cancelled => x1'[x].superseded
    <3>1. CASE x # r
      <4> DEFINE f == x1[x].flight
      <4>1. f \in Requests /\ x1[x].at \in Search!Working /\ x1'[x].flight = f
        BY <1>1, <2>1, <3>1 DEF Search!SearchTypeOK
      <4>2. x1[f].at # "idle" /\ x1[f].key = x1[x].key
            /\ (x2[f].cancelled => x1[x].superseded)
        BY <4>1 DEF Search!CancelledIsSuperseded
      <4>3. f # r
        BY <1>1, <4>2
      <4>4. x1'[f].at # "idle" /\ x1'[f].key = x1'[x].key
        BY <1>1, <3>1, <4>1, <4>2, <4>3
      <4>5. x2'[f].cancelled => x1'[x].superseded
        <5>1. CASE x2[f].cancelled
          BY <1>1, <3>1, <4>2, <5>1
        <5>2. CASE f \in others
          BY <1>1, <1>3, <3>1, <4>1, <4>2, <5>2
        <5> QED
          BY <1>5, <4>1, <5>1, <5>2
      <4> QED
        BY <4>1, <4>4, <4>5
    <3>2. CASE x = r /\ Search!Leads(r, key) /\ x1'[r].at = "check" /\ x1'[r].flight = r
      BY <1>3, <1>4, <1>5, <3>2
    <3>3. CASE x = r /\ x1'[r].at = "wait" /\ x1'[r].flight \in Search!Reusable(key)
      <4> DEFINE f == x1'[r].flight
      <4>1. f \in x3 /\ x1[f].key = key /\ ~x2[f].cancelled
        BY <3>3 DEF Search!Reusable, Search!Of
      <4>2. f \in Requests \ {r} /\ x1[f].at # "idle" /\ f \notin others
        BY <1>2, <1>3, <1>4, <4>1 DEF Search!Working
      <4> QED
        BY <1>1, <1>5, <3>3, <4>1, <4>2
    <3> QED
      BY <1>1, <2>1, <3>1, <3>2, <3>3 DEF Search!Working
  <2>2. ASSUME NEW x \in Requests
        PROVE  /\ x1'[x].at = "cache" => x1'[x].answer = "ok"
               /\ x1'[x].at \in {"publish", "remove"} /\ x1'[x].answer = "cancelled"
                      => x2'[x].cancelled
               /\ x2'[x].result = "cancelled" => x2'[x].cancelled
    <3>1. CASE x = r
      BY <1>5, <1>6, <3>1 DEF Search!CancelledIsSuperseded
    <3>2. CASE x # r
      BY <1>1, <1>5, <3>2 DEF Search!CancelledIsSuperseded
    <3> QED
      BY <3>1, <3>2
  <2> QED
    BY <2>1, <2>2 DEF Search!CancelledIsSuperseded
<1>10. Search!LatestIsServed'
  <2> SUFFICES ASSUME NEW x \in Requests, x1'[x].at = "done", x1'[x].answer = "cancelled"
               PROVE  x1'[x].superseded
    BY DEF Search!LatestIsServed
  <2>1. x # r
    BY <1>1
  <2> QED
    BY <1>1, <2>1 DEF Search!LatestIsServed
<1> QED
  BY <1>1, <1>7, <1>8, <1>9, <1>10

\* An emptied search box keeps the invariant: it supersedes all whose flights it cancels.
LEMMA EmptiedKeepsSearch ==
    ASSUME Search!SearchInv, Search!Emptied
    PROVE  Search!SearchInv'
<1> USE DEF Search!SearchInv
<1>1. /\ x1 \in [Requests -> SearchRecord] /\ x3' = x3 /\ x3 \subseteq Requests
      /\ x2 \in [Requests -> [cancelled : BOOLEAN, result : Answered]]
  BY DEF Search!SearchTypeOK, Search!Emptied, SearchRecord, SearchPCs, Answered
<1>2. /\ x1' \in [Requests -> SearchRecord]
      /\ \A x \in Requests :
             /\ x1'[x].at = x1[x].at /\ x1'[x].key = x1[x].key
             /\ x1'[x].flight = x1[x].flight /\ x1'[x].answer = x1[x].answer
             /\ x1[x].superseded => x1'[x].superseded
             /\ x1[x].at \in Search!Working => x1'[x].superseded
  BY <1>1, EmptiedMarks
<1>3. /\ x2' \in [Requests -> [cancelled : BOOLEAN, result : Answered]]
      /\ \A f \in Requests : /\ x2'[f].cancelled <=> x2[f].cancelled \/ f \in x3
                             /\ x2'[f].result = x2[f].result
  <2>1. x2' = Search!Cancelled(x3)
    BY DEF Search!Emptied
  <2> QED
    BY <1>1, <2>1, CancelledAre
<1>4. Search!SearchTypeOK'
  BY <1>1, <1>2, <1>3 DEF Search!SearchTypeOK, SearchRecord, SearchPCs, Answered
<1>5. Search!FlightsAreHeld'
  <2>1. \A f \in x3' : x1'[f].at \in Search!Working \ {"wait"}
    BY <1>1, <1>2 DEF Search!FlightsAreHeld
  <2>2. \A x \in Requests : Search!Live(x)' => x \in x3'
    BY <1>1, <1>2, <1>3 DEF Search!FlightsAreHeld, Search!Live
  <2>3. \A x \in Requests : x1'[x].at \in Search!Working \ {"wait"} => x1'[x].flight = x
    BY <1>2 DEF Search!FlightsAreHeld
  <2>4. \A x \in Requests : x1'[x].at = "idle" => ~x2'[x].cancelled /\ x1'[x].answer = "none"
    BY <1>1, <1>2, <1>3 DEF Search!FlightsAreHeld, Search!Working
  <2> QED
    BY <2>1, <2>2, <2>3, <2>4 DEF Search!FlightsAreHeld
<1>6. Search!OneQueryInFlight'
  BY <1>1, <1>3 DEF Search!OneQueryInFlight
<1>7. Search!CancelledIsSuperseded'
  <2>1. ASSUME NEW x \in Requests, x1'[x].at \in Search!Working
        PROVE  /\ x1'[x1'[x].flight].at # "idle" /\ x1'[x1'[x].flight].key = x1'[x].key
               /\ x2'[x1'[x].flight].cancelled => x1'[x].superseded
    <3>1. x1[x].flight \in Requests /\ x1[x].at \in Search!Working
      BY <1>2, <2>1 DEF Search!SearchTypeOK
    <3> QED
      BY <1>2, <3>1 DEF Search!CancelledIsSuperseded
  <2>2. ASSUME NEW x \in Requests
        PROVE  /\ x1'[x].at = "cache" => x1'[x].answer = "ok"
               /\ x1'[x].at \in {"publish", "remove"} /\ x1'[x].answer = "cancelled"
                      => x2'[x].cancelled
               /\ x2'[x].result = "cancelled" => x2'[x].cancelled
    BY <1>2, <1>3 DEF Search!CancelledIsSuperseded
  <2> QED
    BY <2>1, <2>2 DEF Search!CancelledIsSuperseded
<1>8. Search!LatestIsServed'
  BY <1>2 DEF Search!LatestIsServed
<1> QED
  BY <1>4, <1>5, <1>6, <1>7, <1>8

\* So does every step of the searches, and every step that leaves them alone.
LEMMA StepKeepsSearch ==
    ASSUME Search!SearchInv, Search!SearchNext \/ UNCHANGED <<x1, x2, x3, x4>>
    PROVE  Search!SearchInv'
<1>1. CASE Search!Emptied
  BY <1>1, EmptiedKeepsSearch
<1>2. CASE \E r \in Requests : Search!SearchSteps(r)
  BY <1>2, WorkKeepsSearch
<1>3. CASE \E r \in Requests : \E key \in SearchKeys :
               Search!Hits(r, key) \/ Search!Joins(r, key) \/ Search!Leads(r, key)
  BY <1>3, ComingKeepsSearch
<1>4. CASE x1' = x1 /\ x2' = x2 /\ x3' = x3
  BY <1>4 DEF Search!SearchInv, Search!SearchTypeOK, Search!FlightsAreHeld,
              Search!OneQueryInFlight, Search!CancelledIsSuperseded, Search!LatestIsServed,
              Search!Live
<1>5. ASSUME NEW key \in SearchKeys, Search!Forgets(key)
      PROVE  x1' = x1 /\ x2' = x2 /\ x3' = x3
  BY <1>5 DEF Search!Forgets
<1> QED
  BY <1>1, <1>2, <1>3, <1>4, <1>5 DEF Search!SearchNext

\* The invariant of the searches is one of the behaviours of all parts.
THEOREM SearchIsSafe == ServicesSpec => []SearchSafe
<1> DEFINE Inv == part = "search" => Search!SearchInv
<1>1. ServicesInit => Inv
  BY SearchStart, SearchAssumption DEF ServicesInit
<1>2. Inv /\ [ServicesNext]_vars => Inv'
  <2> SUFFICES ASSUME Inv, [ServicesNext]_vars, part' = "search"
               PROVE  Search!SearchInv'
    OBVIOUS
  <2>1. part = "search" /\ Search!SearchInv
    BY DEF ServicesNext, vars
  <2>2. Search!SearchNext \/ UNCHANGED <<x1, x2, x3, x4>>
    BY <2>1 DEF ServicesNext, vars
  <2> QED
    BY <2>1, <2>2, StepKeepsSearch
<1>3. Inv => SearchSafe
  <2> SUFFICES ASSUME Search!SearchInv
               PROVE  Search!SearchSafe
    BY DEF SearchSafe
  <2>1. \A f \in Requests : Search!Live(f) => f \in x3 /\ ~x2[f].cancelled
    BY DEF Search!SearchInv, Search!FlightsAreHeld, Search!Live
  <2> QED
    BY <2>1 DEF Search!SearchInv, Search!SearchSafe, Search!OneQueryWorks, Search!OneQueryInFlight
<1> QED
  BY <1>1, <1>2, <1>3, PTL DEF ServicesSpec

----------------------------------------------------------------------------
(* the Spotify session: see SpotifySession *)

\* There is no session at first.
LEMMA SessionStart == ASSUME Session!SessionInit PROVE Session!SessionInv
BY SessionAssumption
   DEF Session!SessionInit, Session!SessionInv, Session!SessionTypeOK, Session!TokensAreSent,
       Session!NewestIsHeld, Session!Holds, Session!Idle, Session!NoSession, Session!Sessions,
       Session!Grants

\* What a login does before it has a session to store keeps the invariant: its grant is one
\* that neither the row nor an analysis has.
LEMMA LoginKeepsSession ==
    ASSUME Session!SessionInv,
           \/ Session!Opens \/ Session!Accepts \/ Session!TimesOut \/ Session!NotGranted
           \/ Session!Granted \/ \E request \in {"code", "codeless", "stale", "denied", "other"} : Session!Speaks(request)
    PROVE  Session!SessionInv'
<1> USE SessionAssumption
<1>1. /\ x1' = x1 /\ x3' = x3 /\ x6' = x6 /\ x5' \in 0..MaxLogins /\ x5 <= x5'
      /\ x4' \in [at : {"none", "waiting", "reading", "exchanging", "storing"},
                  page : {"none", "connected", "refused"}]
      /\ x4'.at # "none" => x5' # 0
      /\ x4.at = "none" => x5 < x5'
      /\ x2' \in [Session!Grants -> Nat]
      /\ x4'.at = "storing" => x2'[x5'] = 1
      /\ x2' = x2 \/ (x4.at = "exchanging" /\ \A g \in Session!Grants \ {x5} : x2'[g] = x2[g])
  <2> USE DEF Session!SessionInv, Session!SessionTypeOK, Session!Grants
  <2>1. CASE Session!Opens
    BY <2>1 DEF Session!Opens
  <2>2. CASE Session!Accepts
    BY <2>2 DEF Session!Accepts
  <2>3. CASE Session!TimesOut
    BY <2>3 DEF Session!TimesOut
  <2>4. CASE Session!NotGranted
    BY <2>4 DEF Session!NotGranted
  <2>5. CASE Session!Granted
    BY <2>5 DEF Session!Granted
  <2>6. CASE \E request \in {"code", "codeless", "stale", "denied", "other"} : Session!Speaks(request)
    BY <2>6 DEF Session!Speaks
  <2> QED
    BY <2>1, <2>2, <2>3, <2>4, <2>5, <2>6
<1>2. Session!SessionTypeOK'
  BY <1>1 DEF Session!SessionInv, Session!SessionTypeOK
<1>3. ASSUME NEW g \in Session!Grants, g < x5 \/ (g = x5 /\ x4.at = "none")
      PROVE  x2'[g] = x2[g] /\ g < x5'
  <2>1. x5 \in Nat /\ x5' \in Nat /\ g \in Nat
    BY <1>1 DEF Session!SessionInv, Session!SessionTypeOK, Session!Grants
  <2> QED
    BY <1>1, <1>3, <2>1
<1>4. ASSUME NEW s \in Session!Sessions, Session!Sent(s)
      PROVE  Session!Sent(s)' /\ x2'[s.grant] = x2[s.grant]
  BY <1>3, <1>4 DEF Session!Sent, Session!Sessions
<1>5. /\ x1 # Session!NoSession => x1 \in Session!Sessions /\ Session!Sent(x1)
      /\ \A a \in Analyses : x3[a].at # "idle" => x3[a].read \in Session!Sessions /\ Session!Sent(x3[a].read)
  BY DEF Session!SessionInv, Session!SessionTypeOK, Session!TokensAreSent
<1>6. Session!TokensAreSent'
  <2>1. \A a \in Analyses : x3[a].at # "idle" => x3[a].got <= x2[x3[a].read.grant]
    BY DEF Session!SessionInv, Session!TokensAreSent
  <2> QED
    BY <1>1, <1>4, <1>5, <2>1 DEF Session!TokensAreSent, Session!Sent
<1>7. Session!NewestIsHeld'
  <2> SUFFICES ASSUME NEW g \in Session!Grants \ x6
               PROVE  /\ \A a \in Analyses : Session!Holds(a, g)' =>
                            /\ x3[a].got = x2'[g]
                            /\ x1.grant = g => x1.token # x2'[g]
                            /\ \A b \in Analyses \ {a} :
                                   /\ ~Session!Holds(b, g)'
                                   /\ x3[b].at = "renewing" /\ x3[b].read.grant = g
                                         => x3[b].read.token # x2'[g]
                      /\ x1.grant = g => x1.token = x2'[g] \/ \E a \in Analyses : Session!Holds(a, g)'
    BY <1>1 DEF Session!NewestIsHeld
  <2>1. \A a \in Analyses : Session!Holds(a, g)' <=> Session!Holds(a, g)
    BY <1>1 DEF Session!Holds
  <2>2. ASSUME NEW a \in Analyses, Session!Holds(a, g)
        PROVE  x2'[g] = x2[g]
    BY <1>4, <1>5, <2>2 DEF Session!Holds
  <2>3. x1.grant = g => x2'[g] = x2[g]
    BY <1>4, <1>5 DEF Session!NoSession, Session!Grants
  <2> QED
    BY <2>1, <2>2, <2>3 DEF Session!SessionInv, Session!NewestIsHeld
<1> QED
  BY <1>2, <1>6, <1>7 DEF Session!SessionInv

\* A login that stores its session, a logout and an expiry change the row alone: the first one
\* to a grant that nobody has, with its only token.
LEMMA RowKeepsSession ==
    ASSUME Session!SessionInv, Session!Stores \/ Session!Logout \/ Session!AccessExpires
    PROVE  Session!SessionInv'
<1> USE SessionAssumption
<1>1. /\ x2' = x2 /\ x3' = x3 /\ x5' = x5 /\ x6' = x6
      /\ x1 # Session!NoSession => x1 \in Session!Sessions /\ Session!Sent(x1)
      /\ \A a \in Analyses : x3[a].at # "idle" => x3[a].read \in Session!Sessions /\ Session!Sent(x3[a].read)
  BY DEF Session!SessionInv, Session!SessionTypeOK, Session!TokensAreSent, Session!Stores,
         Session!Logout, Session!AccessExpires
<1>2. CASE Session!Stores
  <2>1. /\ x1' \in Session!Sessions /\ x1'.grant = x5 /\ x1'.token = 1 /\ x2[x5] = 1
        /\ x5 \in Session!Grants /\ x4.at = "storing" /\ x4'.at = "none"
        /\ x4' \in [at : {"none", "waiting", "reading", "exchanging", "storing"},
                    page : {"none", "connected", "refused"}]
    BY <1>2 DEF Session!SessionInv, Session!SessionTypeOK, Session!TokensAreSent, Session!Stores,
                Session!Sessions, Session!Grants
  <2>2. Session!SessionTypeOK'
    BY <1>1, <2>1 DEF Session!SessionInv, Session!SessionTypeOK
  <2>3. \A s : Session!Sent(s) => Session!Sent(s)' /\ s.grant # x5
    BY <1>1, <2>1 DEF Session!Sent, Session!Grants
  <2>4. Session!TokensAreSent'
    <3>1. Session!Sent(x1)'
      BY <1>1, <2>1 DEF Session!Sent, Session!Grants
    <3> QED
      BY <1>1, <2>1, <2>3, <3>1 DEF Session!TokensAreSent, Session!SessionInv
  <2>5. Session!NewestIsHeld'
    <3>1. ASSUME NEW a \in Analyses
          PROVE  ~Session!Holds(a, x5)
      BY <1>1, <2>3 DEF Session!Holds
    <3>2. ASSUME NEW a \in Analyses, NEW g
          PROVE  Session!Holds(a, g)' <=> Session!Holds(a, g)
      BY <1>1 DEF Session!Holds
    <3> QED
      BY <1>1, <2>1, <3>1, <3>2 DEF Session!SessionInv, Session!NewestIsHeld
  <2> QED
    BY <2>2, <2>4, <2>5 DEF Session!SessionInv
<1>3. CASE Session!Logout \/ Session!AccessExpires
  <2>1. /\ x4' = x4 /\ x1' \in Session!Sessions \cup {Session!NoSession}
        /\ \/ x1' = Session!NoSession
           \/ x1 # Session!NoSession /\ x1'.grant = x1.grant /\ x1'.token = x1.token
    <3>1. CASE Session!Logout
      BY <3>1 DEF Session!Logout
    <3>2. CASE Session!AccessExpires
      <4>1. x1 \in Session!Sessions /\ x1' = [x1 EXCEPT !.fresh = FALSE]
        BY <3>2 DEF Session!AccessExpires, Session!SessionInv, Session!SessionTypeOK, Session!NoSession
      <4>2. x1' \in Session!Sessions /\ x1'.grant = x1.grant /\ x1'.token = x1.token
        BY <4>1 DEF Session!Sessions
      <4>3. x1.grant # 0
        BY <4>1 DEF Session!Sessions, Session!Grants
      <4>4. x1 # Session!NoSession
        BY <4>3 DEF Session!NoSession
      <4>5. x4' = x4
        BY <3>2 DEF Session!AccessExpires
      <4> QED
        BY <4>2, <4>4, <4>5
    <3> QED
      BY <1>3, <3>1, <3>2
  <2>2. Session!SessionTypeOK'
    BY <1>1, <2>1 DEF Session!SessionInv, Session!SessionTypeOK
  <2>3. \A s : Session!Sent(s) <=> Session!Sent(s)'
    BY <1>1, <2>1 DEF Session!Sent
  <2>4. Session!TokensAreSent'
    <3>1. x1' # Session!NoSession => Session!Sent(x1)'
      BY <1>1, <2>1 DEF Session!Sent
    <3> QED
      BY <1>1, <2>1, <2>3, <3>1 DEF Session!TokensAreSent, Session!SessionInv
  <2>5. Session!NewestIsHeld'
    <3>1. \A a \in Analyses : \A g : Session!Holds(a, g)' <=> Session!Holds(a, g)
      BY <1>1 DEF Session!Holds
    <3>2. \A g \in Session!Grants : x1'.grant = g => x1.grant = g /\ x1'.token = x1.token
      BY <2>1 DEF Session!NoSession, Session!Grants
    <3> QED
      BY <1>1, <3>1, <3>2 DEF Session!SessionInv, Session!NewestIsHeld
  <2> QED
    BY <2>2, <2>4, <2>5 DEF Session!SessionInv
<1> QED
  BY <1>2, <1>3

\* An analysis that reads the row, gets no new session or loses it keeps the invariant; what is
\* lost is of a grant that counts no more.
LEMMA ReadingKeepsSession ==
    ASSUME Session!SessionInv, NEW a \in Analyses,
           Session!ReadsRow(a) \/ Session!Refused(a) \/ Session!LosesAnswer(a)
    PROVE  Session!SessionInv'
<1> DEFINE Steps == {"idle", "renewing", "writing"}
           Known == Session!Sessions \cup {Session!NoSession}
<1>1. /\ x1' = x1 /\ x2' = x2 /\ x4' = x4 /\ x5' = x5 /\ x6 \subseteq x6'
      /\ x6' \subseteq Session!Grants
      /\ x3 \in [Analyses -> [at : Steps, read : Known, got : Nat]]
      /\ x3[a].at = "writing" => x6' = x6 \cup {x3[a].read.grant}
      /\ x3[a].at # "writing" => x6' = x6
  <2>1. /\ x3 \in [Analyses -> [at : Steps, read : Known, got : Nat]] /\ x6 \subseteq Session!Grants
        /\ x3[a].at = "writing" => x3[a].read.grant \in Session!Grants
    BY DEF Session!SessionInv, Session!SessionTypeOK, Session!Sessions
  <2>2. CASE Session!ReadsRow(a)
    BY <2>1, <2>2 DEF Session!ReadsRow
  <2>3. CASE Session!Refused(a)
    BY <2>1, <2>3 DEF Session!Refused
  <2>4. CASE Session!LosesAnswer(a)
    BY <2>1, <2>4 DEF Session!LosesAnswer
  <2> QED
    BY <2>2, <2>3, <2>4
<1>2. PICK new \in [at : Steps, read : Known, got : Nat] :
          /\ x3' = [x3 EXCEPT ![a] = new] /\ new.got = 0
          /\ \/ new.at = "idle"
             \/ /\ x3[a].at = "idle" /\ new.at = "renewing" /\ new.read = x1
                /\ x1 \in Session!Sessions /\ ~x1.fresh /\ x1 # Session!NoSession
  <2>1. CASE Session!ReadsRow(a)
    <3>1. x1 \in Session!Sessions /\ x1 # Session!NoSession /\ ~x1.fresh
      BY <2>1 DEF Session!ReadsRow, Session!SessionInv, Session!SessionTypeOK
    <3> DEFINE n == [at |-> "renewing", read |-> x1, got |-> 0]
    <3>2. /\ n \in [at : Steps, read : Known, got : Nat] /\ n.got = 0 /\ n.at = "renewing"
          /\ n.read = x1
      BY <3>1
    <3>3. x3' = [x3 EXCEPT ![a] = n] /\ x3[a].at = "idle"
      BY <2>1 DEF Session!ReadsRow
    <3> HIDE DEF n
    <3> QED
      BY <3>1, <3>2, <3>3
  <2>2. CASE Session!Refused(a) \/ Session!LosesAnswer(a)
    <3>1. Session!Idle \in [at : Steps, read : Known, got : Nat]
      BY DEF Session!Idle
    <3> QED
      BY <2>2, <3>1 DEF Session!Refused, Session!LosesAnswer, Session!Idle
  <2> QED
    BY <2>1, <2>2
<1>3. /\ x3' \in [Analyses -> [at : Steps, read : Known, got : Nat]] /\ x3'[a] = new
      /\ \A b \in Analyses \ {a} : x3'[b] = x3[b]
  BY <1>1, <1>2
<1>4. Session!SessionTypeOK'
  <2>1. \A b \in Analyses : /\ x3'[b].at # "idle" => x3'[b].read \in Session!Sessions /\ ~x3'[b].read.fresh
                            /\ x3'[b].at = "renewing" => x3'[b].got = 0
    BY <1>2, <1>3 DEF Session!SessionInv, Session!SessionTypeOK
  <2> QED
    BY <1>1, <1>3, <2>1 DEF Session!SessionInv, Session!SessionTypeOK
<1>5. Session!TokensAreSent'
  <2>1. \A s : Session!Sent(s) <=> Session!Sent(s)'
    BY <1>1 DEF Session!Sent
  <2>2. x1 # Session!NoSession => Session!Sent(x1)'
    BY <1>1 DEF Session!SessionInv, Session!TokensAreSent, Session!Sent
  <2>3. new.at # "idle" => Session!Sent(new.read)' /\ 0 <= x2[new.read.grant]
    <3>1. new.at # "idle" => new.read = x1 /\ x1 \in Session!Sessions /\ Session!Sent(x1)
      BY <1>2 DEF Session!SessionInv, Session!TokensAreSent
    <3>2. x2 \in [Session!Grants -> Nat]
      BY DEF Session!SessionInv, Session!SessionTypeOK
    <3>3. x1 \in Session!Sessions => 0 <= x2[x1.grant]
      BY <3>2 DEF Session!Sessions
    <3> QED
      BY <1>1, <3>1, <3>3 DEF Session!Sent
  <2> QED
    BY <1>1, <1>2, <1>3, <2>1, <2>2, <2>3 DEF Session!SessionInv, Session!TokensAreSent, Session!Sent
<1>6. Session!NewestIsHeld'
  <2> SUFFICES ASSUME NEW g \in Session!Grants, g \notin x6'
               PROVE  /\ \A c \in Analyses : Session!Holds(c, g)' =>
                            /\ x3'[c].got = x2[g]
                            /\ x1.grant = g => x1.token # x2[g]
                            /\ \A b \in Analyses \ {c} :
                                   /\ ~Session!Holds(b, g)'
                                   /\ x3'[b].at = "renewing" /\ x3'[b].read.grant = g
                                         => x3'[b].read.token # x2[g]
                      /\ x1.grant = g => x1.token = x2[g] \/ \E c \in Analyses : Session!Holds(c, g)'
    BY <1>1 DEF Session!NewestIsHeld
  <2>1. g \notin x6 /\ ~Session!Holds(a, g) /\ ~Session!Holds(a, g)'
    BY <1>1, <1>2, <1>3 DEF Session!Holds
  <2>2. \A c \in Analyses : Session!Holds(c, g)' <=> Session!Holds(c, g)
    BY <1>3, <2>1 DEF Session!Holds
  <2>3. /\ \A c \in Analyses : Session!Holds(c, g) =>
              /\ x3[c].got = x2[g]
              /\ x1.grant = g => x1.token # x2[g]
              /\ \A b \in Analyses \ {c} :
                     /\ ~Session!Holds(b, g)
                     /\ x3[b].at = "renewing" /\ x3[b].read.grant = g
                           => x3[b].read.token # x2[g]
        /\ x1.grant = g => x1.token = x2[g] \/ \E c \in Analyses : Session!Holds(c, g)
    BY <2>1 DEF Session!SessionInv, Session!NewestIsHeld
  <2> QED
    BY <1>2, <1>3, <2>1, <2>2, <2>3
<1> QED
  BY <1>4, <1>5, <1>6 DEF Session!SessionInv

\* A renewal keeps it: the token it gets, if any, is newer than every other.
LEMMA RenewalKeepsSession ==
    ASSUME Session!SessionInv, NEW a \in Analyses, Session!Renewed(a)
    PROVE  Session!SessionInv'
<1> DEFINE Steps == {"idle", "renewing", "writing"}
           Known == Session!Sessions \cup {Session!NoSession}
           old == x3[a].read
           h == old.grant
<1>1. /\ x1' = x1 /\ x4' = x4 /\ x5' = x5 /\ x6' = x6 /\ x2 \in [Session!Grants -> Nat]
      /\ x3 \in [Analyses -> [at : Steps, read : Known, got : Nat]]
      /\ x3[a].at = "renewing" /\ x3[a].got = 0
      /\ old \in Session!Sessions /\ ~old.fresh /\ old.token = x2[h] /\ Session!Sent(old)
  BY DEF Session!SessionInv, Session!SessionTypeOK, Session!TokensAreSent, Session!Renewed
<1>2. h \in Session!Grants
  BY <1>1 DEF Session!Sessions
<1>3. /\ x3' \in [Analyses -> [at : Steps, read : Known, got : Nat]]
      /\ x3'[a].at = "writing" /\ x3'[a].read = old
      /\ \A b \in Analyses \ {a} : x3'[b] = x3[b]
      /\ x2' \in [Session!Grants -> Nat] /\ \A g \in Session!Grants \ {h} : x2'[g] = x2[g]
      /\ \/ x2' = x2 /\ x3'[a].got = 0
         \/ x2'[h] = x2[h] + 1 /\ x3'[a].got = x2'[h]
  <2>1. CASE x3' = [x3 EXCEPT ![a].at = "writing"] /\ x2' = x2
    BY <1>1, <2>1
  <2>2. CASE /\ x2' = [x2 EXCEPT ![h] = x2[h] + 1]
             /\ x3' = [x3 EXCEPT ![a].at = "writing", ![a].got = x2[h] + 1]
    <3>1. x2[h] + 1 \in Nat
      BY <1>1, <1>2
    <3> QED
      BY <1>1, <1>2, <2>2, <3>1
  <2> QED
    BY <2>1, <2>2 DEF Session!Renewed
<1> HIDE DEF old, h
<1>4. \A g \in Session!Grants : x2[g] \in Nat /\ x2'[g] \in Nat /\ x2[g] <= x2'[g]
  BY <1>1, <1>3
<1>5. Session!SessionTypeOK'
  <2>1. \A b \in Analyses : /\ x3'[b].at # "idle" => x3'[b].read \in Session!Sessions /\ ~x3'[b].read.fresh
                            /\ x3'[b].at = "renewing" => x3'[b].got = 0
    BY <1>1, <1>3 DEF Session!SessionInv, Session!SessionTypeOK
  <2> QED
    BY <1>1, <1>3, <2>1 DEF Session!SessionInv, Session!SessionTypeOK
<1>6. /\ x1 # Session!NoSession => x1 \in Session!Sessions /\ Session!Sent(x1)
      /\ \A b \in Analyses : x3[b].at # "idle" =>
             /\ x3[b].read \in Session!Sessions /\ Session!Sent(x3[b].read)
             /\ x3[b].got \in Nat /\ x3[b].got <= x2[x3[b].read.grant]
  BY <1>1 DEF Session!SessionInv, Session!SessionTypeOK, Session!TokensAreSent
<1>7. ASSUME NEW s \in Session!Sessions, Session!Sent(s)
      PROVE  /\ s.grant \in Session!Grants /\ s.token \in Nat /\ s.token <= x2[s.grant]
             /\ s.token <= x2'[s.grant]
             /\ s.grant < x5' \/ (s.grant = x5' /\ x4'.at = "none")
  <2>1. s.grant \in Session!Grants /\ s.token \in Nat /\ s.token <= x2[s.grant]
    BY <1>7 DEF Session!Sessions, Session!Sent
  <2> QED
    BY <1>1, <1>4, <1>7, <2>1 DEF Session!Sent
<1>8. Session!TokensAreSent'
  <2>1. x1' # Session!NoSession => Session!Sent(x1)'
    BY <1>1, <1>6, <1>7 DEF Session!Sent
  <2>2. ASSUME NEW b \in Analyses, x3'[b].at # "idle"
        PROVE  Session!Sent(x3[b].read)' /\ x3'[b].got <= x2'[x3'[b].read.grant]
    <3>1. CASE b = a
      <4>1. x3'[b].read = old /\ x3'[b].got <= x2'[h]
        BY <1>1, <1>2, <1>3, <1>4, <3>1
      <4> QED
        BY <1>1, <1>7, <4>1 DEF h, Session!Sent
    <3>2. CASE b # a
      <4>1. x3'[b] = x3[b] /\ x3[b].read.grant \in Session!Grants
        BY <1>3, <1>6, <1>7, <2>2, <3>2
      <4> QED
        BY <1>4, <1>6, <1>7, <2>2, <4>1 DEF Session!Sent
    <3> QED
      BY <3>1, <3>2
  <2>3. x4.at = "storing" => x2'[x5] = 1
    <3>1. x4.at = "storing" => x2[x5] = 1 /\ x5 \in Session!Grants /\ x5 # h
      BY <1>1, <1>2 DEF Session!SessionInv, Session!SessionTypeOK, Session!TokensAreSent,
                        Session!Sent, Session!Grants, h
    <3> QED
      BY <1>3, <3>1
  <2> QED
    BY <1>1, <2>1, <2>2, <2>3 DEF Session!TokensAreSent, Session!Sent
<1>9. Session!NewestIsHeld'
  <2> SUFFICES ASSUME NEW g \in Session!Grants \ x6
               PROVE  /\ \A c \in Analyses : Session!Holds(c, g)' =>
                            /\ x3'[c].got = x2'[g]
                            /\ x1.grant = g => x1.token # x2'[g]
                            /\ \A b \in Analyses \ {c} :
                                   /\ ~Session!Holds(b, g)'
                                   /\ x3'[b].at = "renewing" /\ x3'[b].read.grant = g
                                         => x3'[b].read.token # x2'[g]
                      /\ x1.grant = g => x1.token = x2'[g] \/ \E c \in Analyses : Session!Holds(c, g)'
    BY <1>1 DEF Session!NewestIsHeld
  <2>1. /\ \A c \in Analyses : Session!Holds(c, g) =>
              /\ x3[c].got = x2[g]
              /\ x1.grant = g => x1.token # x2[g]
              /\ \A b \in Analyses \ {c} :
                     /\ ~Session!Holds(b, g)
                     /\ x3[b].at = "renewing" /\ x3[b].read.grant = g
                           => x3[b].read.token # x2[g]
        /\ x1.grant = g => x1.token = x2[g] \/ \E c \in Analyses : Session!Holds(c, g)
    BY DEF Session!SessionInv, Session!NewestIsHeld
  <2>2. ~Session!Holds(a, g)
    BY <1>1 DEF Session!Holds
  <2>3. \A c \in Analyses \ {a} : Session!Holds(c, g)' <=> Session!Holds(c, g)
    BY <1>3 DEF Session!Holds
  <2>4. CASE ~Session!Holds(a, g)'
    <3>1. \A c \in Analyses : Session!Holds(c, g)' <=> Session!Holds(c, g)
      BY <2>2, <2>3, <2>4
    <3>2. x2'[g] = x2[g]
      BY <1>2, <1>3, <1>4, <2>4 DEF Session!Holds, h
    <3>3. \A b \in Analyses : x3'[b].at = "renewing" => x3'[b] = x3[b]
      BY <1>3
    <3> QED
      BY <1>3, <2>1, <2>2, <3>1, <3>2, <3>3
  <2>5. CASE Session!Holds(a, g)'
    <3>1. g = h /\ x3'[a].got = x2'[g] /\ x2'[g] = x2[g] + 1
      BY <1>3, <2>5 DEF Session!Holds, h
    <3>2. \A c \in Analyses \ {a} : ~Session!Holds(c, g)'
      BY <1>1, <2>1, <2>3, <3>1 DEF h, old
    <3>3. x1.grant = g => x1.token \in Nat /\ x1.token <= x2[g]
      BY <1>6, <1>7 DEF Session!NoSession, Session!Grants
    <3>4. ASSUME NEW b \in Analyses \ {a}, x3'[b].at = "renewing", x3'[b].read.grant = g
          PROVE  x3'[b].read.token # x2'[g]
      <4>1. x3[b].read.token \in Nat /\ x3[b].read.token <= x2[g]
        BY <1>3, <1>6, <1>7, <3>4
      <4> QED
        BY <1>3, <1>4, <3>1, <4>1
    <3> QED
      BY <1>4, <2>5, <3>1, <3>2, <3>3, <3>4
  <2> QED
    BY <2>4, <2>5
<1> QED
  BY <1>5, <1>8, <1>9 DEF Session!SessionInv

\* So does a renewal that reaches the row: it brings the newest token, or leaves what is there,
\* or counts as lost because the row was another by then.
LEMMA WritingKeepsSession ==
    ASSUME Session!SessionInv, NEW a \in Analyses, Session!WritesRow(a)
    PROVE  Session!SessionInv'
<1> DEFINE Steps == {"idle", "renewing", "writing"}
           Known == Session!Sessions \cup {Session!NoSession}
           old == x3[a].read
           h == old.grant
           kept == Session!TokenToKeep(old.token, x3[a].got)
<1>1. /\ x2' = x2 /\ x4' = x4 /\ x5' = x5 /\ x2 \in [Session!Grants -> Nat]
      /\ x3 \in [Analyses -> [at : Steps, read : Known, got : Nat]]
      /\ x3[a].at = "writing" /\ x3' = [x3 EXCEPT ![a] = Session!Idle]
      /\ old \in Session!Sessions /\ ~old.fresh /\ Session!Sent(old) /\ x3[a].got <= x2[h]
      /\ x1 \in Known /\ x6 \subseteq Session!Grants
      /\ x1' = [grant |-> h, token |-> kept, fresh |-> TRUE]
  BY DEF Session!SessionInv, Session!SessionTypeOK, Session!TokensAreSent, Session!WritesRow
<1>2. h \in Session!Grants /\ old.token \in Nat /\ x3[a].got \in Nat
  BY <1>1 DEF Session!Sessions
<1>3. /\ x3' \in [Analyses -> [at : Steps, read : Known, got : Nat]] /\ x3'[a].at = "idle"
      /\ \A b \in Analyses \ {a} : x3'[b] = x3[b]
  <2>1. Session!Idle \in [at : Steps, read : Known, got : Nat] /\ Session!Idle.at = "idle"
    BY DEF Session!Idle
  <2> QED
    BY <1>1, <2>1
<1>4. /\ kept \in Nat /\ kept <= x2[h] /\ (x3[a].got = 0 => kept = old.token)
      /\ x3[a].got # 0 => kept = x3[a].got
  BY <1>1, <1>2 DEF Session!TokenToKeep, Session!Sent
<1>5. \/ /\ x6' = x6 /\ x1.grant = h /\ x1.token = old.token
      \/ x6' = x6 \cup {h}
  <2>1. CASE [x1 EXCEPT !.fresh = FALSE] = old
    <3>1. x1.grant = h /\ x1.token = old.token
      BY <1>1, <2>1 DEF Session!Sessions, Session!NoSession
    <3> QED
      BY <2>1, <3>1 DEF Session!WritesRow
  <2>2. CASE [x1 EXCEPT !.fresh = FALSE] # old
    BY <2>2 DEF Session!WritesRow
  <2> QED
    BY <2>1, <2>2
<1> HIDE DEF kept, old
<1>6. x1' \in Session!Sessions /\ x1'.grant = h /\ x1'.token = kept
  BY <1>1, <1>2, <1>4 DEF Session!Sessions
<1>7. Session!SessionTypeOK'
  <2>1. \A b \in Analyses : /\ x3'[b].at # "idle" => x3'[b].read \in Session!Sessions /\ ~x3'[b].read.fresh
                            /\ x3'[b].at = "renewing" => x3'[b].got = 0
    BY <1>3 DEF Session!SessionInv, Session!SessionTypeOK
  <2> QED
    BY <1>1, <1>2, <1>3, <1>5, <1>6, <2>1 DEF Session!SessionInv, Session!SessionTypeOK
<1>8. Session!TokensAreSent'
  <2>1. Session!Sent(x1)'
    BY <1>1, <1>4, <1>6 DEF Session!Sent
  <2>2. \A b \in Analyses : x3'[b].at # "idle" => /\ Session!Sent(x3[b].read)' /\ x3'[b] = x3[b]
                                                 /\ x3[b].got <= x2'[x3[b].read.grant]
    BY <1>1, <1>3 DEF Session!SessionInv, Session!TokensAreSent, Session!Sent
  <2>3. x4'.at = "storing" => x2'[x5'] = 1
    BY <1>1 DEF Session!SessionInv, Session!TokensAreSent
  <2> QED
    BY <2>1, <2>2, <2>3 DEF Session!TokensAreSent, Session!Sent
<1>9. Session!NewestIsHeld'
  <2> SUFFICES ASSUME NEW g \in Session!Grants, g \notin x6'
               PROVE  /\ \A c \in Analyses : Session!Holds(c, g)' =>
                            /\ x3'[c].got = x2[g]
                            /\ x1'.grant = g => x1'.token # x2[g]
                            /\ \A b \in Analyses \ {c} :
                                   /\ ~Session!Holds(b, g)'
                                   /\ x3'[b].at = "renewing" /\ x3'[b].read.grant = g
                                         => x3'[b].read.token # x2[g]
                      /\ x1'.grant = g => x1'.token = x2[g] \/ \E c \in Analyses : Session!Holds(c, g)'
    BY <1>1 DEF Session!NewestIsHeld
  <2>1. g \notin x6 /\ (g = h => x1.grant = h /\ x1.token = old.token)
    BY <1>5
  <2>2. /\ \A c \in Analyses : Session!Holds(c, g) =>
              /\ x3[c].got = x2[g]
              /\ x1.grant = g => x1.token # x2[g]
              /\ \A b \in Analyses \ {c} :
                     /\ ~Session!Holds(b, g)
                     /\ x3[b].at = "renewing" /\ x3[b].read.grant = g
                           => x3[b].read.token # x2[g]
        /\ x1.grant = g => x1.token = x2[g] \/ \E c \in Analyses : Session!Holds(c, g)
    BY <2>1 DEF Session!SessionInv, Session!NewestIsHeld
  <2>3. /\ ~Session!Holds(a, g)'
        /\ \A c \in Analyses \ {a} : Session!Holds(c, g)' <=> Session!Holds(c, g)
        /\ Session!Holds(a, g) <=> g = h /\ x3[a].got # 0
    BY <1>1, <1>3 DEF Session!Holds, h, old
  <2>4. CASE g # h
    BY <1>3, <1>6, <2>2, <2>3, <2>4
  <2>5. CASE g = h /\ x3[a].got = 0
    BY <1>3, <1>4, <1>6, <2>1, <2>2, <2>3, <2>5
  <2>6. CASE g = h /\ x3[a].got # 0
    BY <1>4, <1>6, <2>2, <2>3, <2>6
  <2> QED
    BY <2>4, <2>5, <2>6
<1> QED
  BY <1>7, <1>8, <1>9 DEF Session!SessionInv

\* Whatever the analyses, the logins and the browser do, the stored session can be renewed, is
\* about to be, or a renewal of its grant was lost (spotify_auth.rs).
THEOREM SessionIsRenewable == ServicesSpec => []SessionRenewable
<1> DEFINE Inv == part = "session" => Session!SessionInv
<1>1. ServicesInit => Inv
  BY SessionStart DEF ServicesInit
<1>2. Inv /\ [ServicesNext]_vars => Inv'
  <2> SUFFICES ASSUME Inv, [ServicesNext]_vars, part' = "session"
               PROVE  Session!SessionInv'
    OBVIOUS
  <2>1. part = "session" /\ Session!SessionInv
    BY DEF ServicesNext, vars
  <2>2. Session!SessionNext \/ UNCHANGED <<x1, x2, x3, x4, x5, x6>>
    BY <2>1 DEF ServicesNext, vars
  <2>3. CASE UNCHANGED <<x1, x2, x3, x4, x5, x6>>
    BY <2>1, <2>3 DEF Session!SessionInv, Session!SessionTypeOK, Session!TokensAreSent,
                      Session!NewestIsHeld, Session!Holds, Session!Sent
  <2>4. CASE Session!SessionNext
    BY <2>1, <2>4, LoginKeepsSession, RowKeepsSession, ReadingKeepsSession,
       RenewalKeepsSession, WritingKeepsSession
       DEF Session!SessionNext, Session!LoginSteps, Session!AskerSteps
  <2> QED
    BY <2>2, <2>3, <2>4
<1>3. Inv => SessionRenewable
  <2> SUFFICES ASSUME Session!SessionInv
               PROVE  Session!SessionRenewable
    BY DEF SessionRenewable
  <2>1. x1 # Session!NoSession => x1.grant \in Session!Grants
    BY DEF Session!SessionInv, Session!SessionTypeOK, Session!Sessions
  <2> QED
    BY <2>1 DEF Session!SessionInv, Session!NewestIsHeld, Session!Holds,
                Session!SessionRenewable, Session!Pending
<1> QED
  BY <1>1, <1>2, <1>3, PTL DEF ServicesSpec

----------------------------------------------------------------------------
(* the end of a media download: see MediaFinish *)

\* What the steps do to a file leaves a file, and of it what they do not change.
LEMMA FileSteps ==
    ASSUME NEW f \in Finish!Files
    PROVE  /\ Finish!Half(f) \in Finish!Files
           /\ Finish!Mp4(f) \in Finish!Files /\ Finish!Mp4(f).container = "mp4"
           /\ Finish!Mp4(f).tagged = f.tagged
           /\ Finish!Cut(f) \in Finish!Files /\ Finish!Cut(f).container = f.container
           /\ Finish!Cut(f).damage = f.damage /\ Finish!Cut(f).tagged = f.tagged
           /\ [f EXCEPT !.tagged = TRUE, !.streams = "audio"] \in Finish!Files
           /\ [f EXCEPT !.tagged = TRUE, !.streams = "audio"].tagged
           /\ [f EXCEPT !.tagged = TRUE, !.streams = "audio"].damage = f.damage
           /\ [f EXCEPT !.streams = "video", !.damage = "found"] \in Finish!Files
           /\ f # Finish!NoFile
<1>1. Finish!Half(f) \in Finish!Files
  BY DEF Finish!Files, Finish!Half
<1>2. Finish!Mp4(f) \in Finish!Files /\ Finish!Mp4(f).container = "mp4"
  BY DEF Finish!Files, Finish!Mp4
<1>3. Finish!Mp4(f).tagged = f.tagged
  BY DEF Finish!Files, Finish!Mp4
<1>4. /\ Finish!Cut(f) \in Finish!Files /\ Finish!Cut(f).container = f.container
      /\ Finish!Cut(f).damage = f.damage /\ Finish!Cut(f).tagged = f.tagged
  BY DEF Finish!Files, Finish!Cut
<1>5. [f EXCEPT !.tagged = TRUE, !.streams = "audio"] \in Finish!Files
  BY DEF Finish!Files
<1>6. [f EXCEPT !.tagged = TRUE, !.streams = "audio"].tagged
  BY DEF Finish!Files
<1>7. [f EXCEPT !.tagged = TRUE, !.streams = "audio"].damage = f.damage
  BY DEF Finish!Files
<1>8. [f EXCEPT !.streams = "video", !.damage = "found"] \in Finish!Files
  BY DEF Finish!Files
<1>9. f # Finish!NoFile
  BY DEF Finish!Files, Finish!NoFile
<1> QED
  BY <1>1, <1>2, <1>3, <1>4, <1>5, <1>6, <1>7, <1>8, <1>9

\* A file put under a name.
LEMMA WithFile ==
    ASSUME x4 \in [Finish!Names -> Finish!Files \cup {Finish!NoFile}],
           NEW n \in Finish!Names, NEW f \in Finish!Files \cup {Finish!NoFile}
    PROVE  /\ Finish!With(n, f) \in [Finish!Names -> Finish!Files \cup {Finish!NoFile}]
           /\ Finish!With(n, f)[n] = f
           /\ \A m \in Finish!Names \ {n} : Finish!With(n, f)[m] = x4[m]
BY DEF Finish!With

\* A media job enters the end of its run with no file of its own touched yet.
LEMMA FinishStart == ASSUME Finish!FinishInit PROVE Finish!FinishInv
<1>1. Finish!FinishTypeOK
  BY DEF Finish!FinishInit, Finish!FinishTypeOK, Finish!Names
<1> QED
  BY <1>1 DEF Finish!FinishInit, Finish!FinishInv, Finish!ChosenIsRight, Finish!OutputIsKept,
         Finish!DestIsOwn, Finish!Working, Finish!Final, Finish!There, Finish!Names

\* The steps that write no file and end nothing keep the invariant: the reads of
\* the control, the checks between the steps and the stop of a user.
LEMMA FinishQuiet ==
    ASSUME Finish!FinishInv, UNCHANGED x4,
           \/ Finish!Chooses \/ Finish!Compat \/ Finish!Probes \/ Finish!Decodes
           \/ Finish!Moved \/ Finish!Commits \/ Finish!Ends \/ Finish!Stop \/ Finish!Resumes
    PROVE  Finish!FinishInv'
<1> USE DEF Finish!FinishInv
<1>1. CASE Finish!Chooses
  <2> USE <1>1 DEF Finish!Chooses, Finish!Step
  <2>1. Finish!FinishTypeOK'
    <3>1. x6' \in {"error", "tag", "compat"} /\ x7' \in Finish!Names
      BY DEF Finish!Newest, Finish!Names
    <3>2. UNCHANGED <<x1, x2, x3, x5, x8, x9, x10>>
      OBVIOUS
    <3> QED
      BY <3>1, <3>2 DEF Finish!FinishTypeOK, Finish!Working
  <2>2. Finish!ChosenIsRight'
    <3>1. /\ x6' \in {"error", "tag", "compat"} /\ Finish!There(x7')
          /\ x6' = "tag" => x1.tags /\ x1.mode = "audio"
          /\ x6' = "compat" => ~x1.tags
      BY DEF Finish!Newest, Finish!OutputIsKept, Finish!Working, Finish!FinishTypeOK
    <3>2. x6' = "tag" => x7' # "cover"
      <4> SUFFICES ASSUME x1.mode = "audio"
                   PROVE  x7' # "cover"
        BY <3>1
      <4>1. Finish!There("output") /\ "output" \in Finish!Names
        BY DEF Finish!OutputIsKept, Finish!Working, Finish!Names
      <4>2. Finish!Score("output") \in {2, 10} /\ Finish!Score("cover") = 0
        BY DEF Finish!Score, Finish!Fits
      <4>3. "cover" \notin Finish!Newest
        BY <4>1, <4>2 DEF Finish!Newest
      <4> QED
        BY <4>3
    <3> QED
      BY <3>1, <3>2 DEF Finish!ChosenIsRight, Finish!There, Finish!Final
  <2>3. Finish!OutputIsKept'
    BY DEF Finish!OutputIsKept, Finish!There, Finish!Working, Finish!FinishTypeOK
  <2>4. Finish!DestIsOwn'
    BY DEF Finish!DestIsOwn, Finish!Final, Finish!FinishTypeOK
  <2> QED
    BY <2>1, <2>2, <2>3, <2>4
<1>2. CASE Finish!Compat
  <2> USE <1>2 DEF Finish!Compat, Finish!Step
  <2>1. Finish!FinishTypeOK'
    BY DEF Finish!FinishTypeOK, Finish!Working, Finish!Final, Finish!Newest
  <2>2. Finish!ChosenIsRight'
    BY DEF Finish!FinishTypeOK, Finish!ChosenIsRight, Finish!OutputIsKept, Finish!Right,
           Finish!There, Finish!HasStreams, Finish!LongEnough, Finish!Sound, Finish!Working,
           Finish!Final, Finish!Newest, Finish!Passes, Finish!NeedsCut
  <2>3. Finish!OutputIsKept'
    BY DEF Finish!OutputIsKept, Finish!There, Finish!Working, Finish!FinishTypeOK
  <2>4. Finish!DestIsOwn'
    BY DEF Finish!DestIsOwn, Finish!Final, Finish!FinishTypeOK
  <2> QED
    BY <2>1, <2>2, <2>3, <2>4
<1>3. CASE Finish!Probes
  <2> USE <1>3 DEF Finish!Probes, Finish!Step
  <2>1. Finish!FinishTypeOK'
    BY DEF Finish!FinishTypeOK, Finish!Working, Finish!Final, Finish!Newest
  <2>2. Finish!ChosenIsRight'
    BY DEF Finish!FinishTypeOK, Finish!ChosenIsRight, Finish!OutputIsKept, Finish!Right,
           Finish!There, Finish!HasStreams, Finish!LongEnough, Finish!Sound, Finish!Working,
           Finish!Final, Finish!Newest, Finish!Passes, Finish!NeedsCut
  <2>3. Finish!OutputIsKept'
    BY DEF Finish!OutputIsKept, Finish!There, Finish!Working, Finish!FinishTypeOK
  <2>4. Finish!DestIsOwn'
    BY DEF Finish!DestIsOwn, Finish!Final, Finish!FinishTypeOK
  <2> QED
    BY <2>1, <2>2, <2>3, <2>4
<1>4. CASE Finish!Decodes
  <2> USE <1>4 DEF Finish!Decodes, Finish!Step
  <2>1. Finish!FinishTypeOK'
    BY DEF Finish!FinishTypeOK, Finish!Working, Finish!Final, Finish!Newest
  <2>2. Finish!ChosenIsRight'
    BY DEF Finish!FinishTypeOK, Finish!ChosenIsRight, Finish!OutputIsKept, Finish!Right,
           Finish!There, Finish!HasStreams, Finish!LongEnough, Finish!Sound, Finish!Working,
           Finish!Final, Finish!Newest, Finish!Passes, Finish!NeedsCut
  <2>3. Finish!OutputIsKept'
    BY DEF Finish!OutputIsKept, Finish!There, Finish!Working, Finish!FinishTypeOK
  <2>4. Finish!DestIsOwn'
    BY DEF Finish!DestIsOwn, Finish!Final, Finish!FinishTypeOK
  <2> QED
    BY <2>1, <2>2, <2>3, <2>4
<1>5. CASE Finish!Moved
  <2> USE <1>5 DEF Finish!Moved, Finish!Step
  <2>1. Finish!FinishTypeOK'
    BY DEF Finish!FinishTypeOK, Finish!Working, Finish!Final, Finish!Newest
  <2>2. Finish!ChosenIsRight'
    BY DEF Finish!FinishTypeOK, Finish!ChosenIsRight, Finish!OutputIsKept, Finish!Right,
           Finish!There, Finish!HasStreams, Finish!LongEnough, Finish!Sound, Finish!Working,
           Finish!Final, Finish!Newest, Finish!Passes, Finish!NeedsCut
  <2>3. Finish!OutputIsKept'
    BY DEF Finish!OutputIsKept, Finish!There, Finish!Working, Finish!FinishTypeOK
  <2>4. Finish!DestIsOwn'
    BY DEF Finish!DestIsOwn, Finish!Final, Finish!FinishTypeOK
  <2> QED
    BY <2>1, <2>2, <2>3, <2>4
<1>6. CASE Finish!Commits
  <2> USE <1>6 DEF Finish!Commits, Finish!Step
  <2>1. Finish!FinishTypeOK'
    BY DEF Finish!FinishTypeOK, Finish!Working, Finish!Final, Finish!Newest
  <2>2. Finish!ChosenIsRight'
    BY DEF Finish!FinishTypeOK, Finish!ChosenIsRight, Finish!OutputIsKept, Finish!Right,
           Finish!There, Finish!HasStreams, Finish!LongEnough, Finish!Sound, Finish!Working,
           Finish!Final, Finish!Newest, Finish!Passes, Finish!NeedsCut
  <2>3. Finish!OutputIsKept'
    BY DEF Finish!OutputIsKept, Finish!There, Finish!Working, Finish!FinishTypeOK
  <2>4. Finish!DestIsOwn'
    BY DEF Finish!DestIsOwn, Finish!Final, Finish!FinishTypeOK
  <2> QED
    BY <2>1, <2>2, <2>3, <2>4
<1>7. CASE Finish!Ends
  <2> USE <1>7 DEF Finish!Ends, Finish!Step
  <2>1. Finish!FinishTypeOK'
    BY DEF Finish!FinishTypeOK, Finish!Working, Finish!Final, Finish!Newest
  <2>2. Finish!ChosenIsRight'
    BY DEF Finish!FinishTypeOK, Finish!ChosenIsRight, Finish!OutputIsKept, Finish!Right,
           Finish!There, Finish!HasStreams, Finish!LongEnough, Finish!Sound, Finish!Working,
           Finish!Final, Finish!Newest, Finish!Passes, Finish!NeedsCut
  <2>3. Finish!OutputIsKept'
    BY DEF Finish!OutputIsKept, Finish!There, Finish!Working, Finish!FinishTypeOK
  <2>4. Finish!DestIsOwn'
    BY DEF Finish!DestIsOwn, Finish!Final, Finish!FinishTypeOK
  <2> QED
    BY <2>1, <2>2, <2>3, <2>4
<1>8. CASE Finish!Stop
  <2> USE <1>8 DEF Finish!Stop, Finish!Step
  <2>1. Finish!FinishTypeOK'
    <3>1. x2' \in BOOLEAN /\ UNCHANGED <<x1, x3, x4, x5, x6, x7, x8, x9>>
      OBVIOUS
    <3>2. x10' \in Nat
      BY DEF Finish!FinishTypeOK
    <3> QED
      BY <3>1, <3>2 DEF Finish!FinishTypeOK
  <2>2. Finish!ChosenIsRight'
    BY DEF Finish!FinishTypeOK, Finish!ChosenIsRight, Finish!OutputIsKept, Finish!Right,
           Finish!There, Finish!HasStreams, Finish!LongEnough, Finish!Sound, Finish!Working,
           Finish!Final, Finish!Newest, Finish!Passes, Finish!NeedsCut
  <2>3. Finish!OutputIsKept'
    BY DEF Finish!OutputIsKept, Finish!There, Finish!Working, Finish!FinishTypeOK
  <2>4. Finish!DestIsOwn'
    BY DEF Finish!DestIsOwn, Finish!Final, Finish!FinishTypeOK
  <2> QED
    BY <2>1, <2>2, <2>3, <2>4
<1>9. CASE Finish!Resumes
  <2> USE <1>9 DEF Finish!Resumes, Finish!Step
  <2>1. Finish!FinishTypeOK'
    <3>1. x3' = x3 \/ x3' = FALSE
      OBVIOUS
    <3>2. x3' \in BOOLEAN
      BY <3>1 DEF Finish!FinishTypeOK
    <3> QED
      BY <3>2 DEF Finish!FinishTypeOK, Finish!Working, Finish!Final
  <2>2. Finish!ChosenIsRight'
    BY DEF Finish!FinishTypeOK, Finish!ChosenIsRight, Finish!OutputIsKept, Finish!Right,
           Finish!There, Finish!HasStreams, Finish!LongEnough, Finish!Sound, Finish!Working,
           Finish!Final, Finish!Newest, Finish!Passes, Finish!NeedsCut
  <2>3. Finish!OutputIsKept'
    BY DEF Finish!OutputIsKept, Finish!There, Finish!Working, Finish!FinishTypeOK
  <2>4. Finish!DestIsOwn'
    BY DEF Finish!DestIsOwn, Finish!Final, Finish!FinishTypeOK
  <2> QED
    BY <2>1, <2>2, <2>3, <2>4
<1> QED
  BY <1>1, <1>2, <1>3, <1>4, <1>5, <1>6, <1>7, <1>8, <1>9

\* A step before the move that ends with an error, or in the middle of which the program ends:
\* whatever it leaves, yt-dlp's own output is what it was, or gone.
LEMMA FinishBreaksOff ==
    ASSUME Finish!FinishInv, UNCHANGED <<x1, x3, x5, x7, x8>>, x2' = x2, x10' \in Nat,
           x4' \in [Finish!Names -> Finish!Files \cup {Finish!NoFile}],
           x4'["output"] \in {x4["output"], Finish!NoFile},
           \/ x4'["converting"] \in {x4["converting"], Finish!NoFile}
           \/ x1.mode = "video_mp4" /\ x4'["converting"].container = "mp4",
           x6 \in Finish!Working, x6' \in {"error", "start"}, x9' = x9
    PROVE  Finish!FinishInv'
<1> USE DEF Finish!FinishInv
<1>1. Finish!FinishTypeOK'
  BY DEF Finish!FinishTypeOK, Finish!Working, Finish!Final
<1>2. Finish!ChosenIsRight'
  BY DEF Finish!ChosenIsRight, Finish!Working, Finish!Final
<1>3. Finish!OutputIsKept'
  BY DEF Finish!OutputIsKept, Finish!Working, Finish!There
<1>4. Finish!DestIsOwn'
  BY DEF Finish!DestIsOwn, Finish!Working, Finish!Final
<1> QED
  BY <1>1, <1>2, <1>3, <1>4

\* Yt-dlp's output, the cover, the tagged copy and the file it replaces.
LEMMA FinishTags ==
    ASSUME Finish!FinishInv,
           Finish!Starts \/ Finish!FetchesCover \/ Finish!Tags \/ Finish!Swaps
    PROVE  Finish!FinishInv'
<1> USE DEF Finish!FinishInv
<1> DEFINE Works == [Finish!Names -> Finish!Files \cup {Finish!NoFile}]
<1>0. /\ x4 \in Works /\ x1.source \in Finish!Files /\ x7 \in Finish!Names
      /\ "output" \in Finish!Names /\ "tagged" \in Finish!Names /\ "cover" \in Finish!Names
      /\ "converting" \in Finish!Names /\ x10 \in Nat
  BY DEF Finish!FinishTypeOK, Finish!Names
<1>1. CASE Finish!Starts
  <2>1. /\ x4' \in Works /\ Finish!There("output")'
        /\ x4'["converting"] \in {x4["converting"], Finish!NoFile}
        /\ x4'["output"].damage = "found" => x1.source.damage = "found"
    <3>1. \/ x4'["output"] = x4["output"] /\ Finish!There("output")
          \/ x4'["output"] = x1.source
      BY <1>0, <1>1 DEF Finish!Starts
    <3>2. x4' \in Works /\ x4'["converting"] \in {x4["converting"], Finish!NoFile}
      BY <1>0, <1>1 DEF Finish!Starts
    <3> QED
      BY <1>0, <3>1, <3>2, FileSteps DEF Finish!OutputIsKept, Finish!There
  <2>2. /\ UNCHANGED <<x1, x2, x7, x9, x10>> /\ x6' = "choose" /\ x8' = Finish!NoFile
        /\ x3' = FALSE /\ x5' \in BOOLEAN
    BY <1>1 DEF Finish!Starts
  <2>3. Finish!FinishTypeOK'
    BY <2>1, <2>2 DEF Finish!FinishTypeOK, Finish!Working
  <2>4. Finish!OutputIsKept'
    BY <2>1, <2>2 DEF Finish!OutputIsKept, Finish!There, Finish!Working
  <2> QED
    BY <2>2, <2>3, <2>4 DEF Finish!ChosenIsRight, Finish!DestIsOwn, Finish!Final
<1>2. CASE Finish!FetchesCover
  <2>1. /\ x4' \in Works /\ x4'["output"] = x4["output"] /\ x4'["converting"] = x4["converting"]
        /\ Finish!There(x7) => Finish!There(x7)'
    <3>1. CASE x4' = x4
      BY <1>0, <1>2, <3>1 DEF Finish!FetchesCover, Finish!There
    <3>2. CASE x4' = Finish!With("cover", [x1.source EXCEPT !.streams = "video", !.damage = "found"])
      <4>1. [x1.source EXCEPT !.streams = "video", !.damage = "found"] \in Finish!Files
        BY <1>0, FileSteps
      <4> DEFINE cover == [x1.source EXCEPT !.streams = "video", !.damage = "found"]
      <4> HIDE DEF cover
      <4>2. cover \in Finish!Files /\ x4' = Finish!With("cover", cover) /\ cover # Finish!NoFile
        BY <3>2, <4>1, FileSteps DEF cover
      <4>3. x4' \in Works /\ x4'["cover"] = cover /\ \A m \in Finish!Names \ {"cover"} : x4'[m] = x4[m]
        BY <1>0, <4>2, WithFile
      <4> QED
        BY <1>0, <1>2, <4>2, <4>3 DEF Finish!There, Finish!FetchesCover, Finish!Step
    <3> QED
      BY <1>2, <3>1, <3>2 DEF Finish!FetchesCover
  <2>2. /\ UNCHANGED <<x1, x2, x3, x5, x7, x8, x9, x10>> /\ x6 = "tag" /\ x6' \in {"tagging", "error"}
    BY <1>2 DEF Finish!FetchesCover, Finish!Step
  <2> QED
    BY <2>1, <2>2 DEF Finish!FinishTypeOK, Finish!ChosenIsRight, Finish!OutputIsKept,
                      Finish!DestIsOwn, Finish!Working, Finish!Final, Finish!There
<1>3. CASE Finish!Tags
  <2>0. /\ UNCHANGED <<x1, x2, x3, x5, x7, x8, x9, x10>> /\ x6 = "tagging" /\ Finish!There(x7)
        /\ x6' \in {"swap", "error"} /\ x4[x7] \in Finish!Files
    BY <1>0, <1>3 DEF Finish!Tags, Finish!Step, Finish!ChosenIsRight, Finish!Working, Finish!There
  <2>1. CASE /\ x7 # "tagged"
             /\ x4' = Finish!With("tagged", [x4[x7] EXCEPT !.tagged = TRUE, !.streams = "audio"])
    <3>1. /\ x4' \in Works /\ x4'["output"] = x4["output"] /\ x4'[x7] = x4[x7]
          /\ x4'["converting"] = x4["converting"]
          /\ x4'["tagged"] \in Finish!Files /\ x4'["tagged"].tagged
          /\ x4'["tagged"].damage = x4[x7].damage
      <4> DEFINE copy == [x4[x7] EXCEPT !.tagged = TRUE, !.streams = "audio"]
      <4>1. copy \in Finish!Files /\ copy.tagged /\ copy.damage = x4[x7].damage
        BY <2>0, FileSteps
      <4> HIDE DEF copy
      <4>2. x4' = Finish!With("tagged", copy)
        BY <2>1 DEF copy
      <4>3. x4' \in Works /\ x4'["tagged"] = copy /\ \A m \in Finish!Names \ {"tagged"} : x4'[m] = x4[m]
        BY <1>0, <4>1, <4>2, WithFile
      <4> QED
        BY <1>0, <2>1, <4>1, <4>3
    <3>2. Finish!There("tagged")'
      BY <3>1, FileSteps DEF Finish!There
    <3> QED
      BY <2>0, <2>1, <3>1, <3>2
         DEF Finish!FinishTypeOK, Finish!ChosenIsRight, Finish!OutputIsKept, Finish!DestIsOwn,
             Finish!Working, Finish!Final, Finish!There
  <2>2. CASE /\ x4' \in {x4, Finish!With("tagged", Finish!Half(x4[x7]))} /\ x6' = "error"
    <3>1. x4' \in Works /\ x4'["output"] = x4["output"] /\ x4'["converting"] = x4["converting"]
      <4>1. Finish!Half(x4[x7]) \in Finish!Files
        BY <2>0, FileSteps
      <4> QED
        BY <1>0, <2>2, <4>1, WithFile
    <3> QED
      BY <1>0, <2>0, <2>2, <3>1, FinishBreaksOff DEF Finish!Working
  <2> QED
    BY <1>3, <2>0, <2>1, <2>2 DEF Finish!Tags, Finish!Step
<1>4. CASE Finish!Swaps
  <2>0. /\ UNCHANGED <<x1, x2, x3, x5, x7, x8, x9, x10>> /\ x6 = "swap"
        /\ Finish!There(x7) /\ x7 \notin {"tagged", "cover", "converting"}
        /\ Finish!There("tagged") /\ x4["tagged"].tagged
        /\ x4["tagged"].damage = x4[x7].damage
    <3>1. x6 = "swap" /\ x1.mode = "audio" /\ Finish!There(x7)
      BY <1>4 DEF Finish!Swaps, Finish!ChosenIsRight, Finish!Working, Finish!FinishTypeOK
    <3>2. x7 # "converting"
      BY <3>1 DEF Finish!OutputIsKept
    <3> QED
      BY <1>4, <3>1, <3>2 DEF Finish!Swaps, Finish!Step, Finish!ChosenIsRight, Finish!Working
  <2>1. CASE /\ x4' = [x4 EXCEPT ![x7] = x4["tagged"], !["tagged"] = Finish!NoFile, !["cover"] = Finish!NoFile]
             /\ x6' = "compat"
    <3>1. /\ x4' \in Works /\ x4'[x7] = x4["tagged"]
          /\ x7 # "output" => x4'["output"] = x4["output"]
          /\ x4'["converting"] = x4["converting"]
      BY <1>0, <2>0, <2>1
    <3> QED
      BY <2>0, <2>1, <3>1
         DEF Finish!FinishTypeOK, Finish!ChosenIsRight, Finish!OutputIsKept, Finish!DestIsOwn,
             Finish!Working, Finish!Final, Finish!There
  <2>2. CASE x4' \in {x4, Finish!With(x7, Finish!NoFile)} /\ x6' = "error"
    <3>1. /\ x4' \in Works /\ x4'["output"] \in {x4["output"], Finish!NoFile}
          /\ x4'["converting"] \in {x4["converting"], Finish!NoFile}
      BY <1>0, <2>2, WithFile
    <3> QED
      BY <1>0, <2>0, <2>2, <3>1, FinishBreaksOff DEF Finish!Working
  <2> QED
    BY <1>4, <2>1, <2>2 DEF Finish!Swaps, Finish!Step
<1> QED
  BY <1>1, <1>2, <1>3, <1>4

\* The containers: FFmpeg writes another file, and the one it read goes when that is whole.
LEMMA FinishConverts ==
    ASSUME Finish!FinishInv, Finish!Normalizes \/ Finish!Remuxes \/ Finish!Transcodes
    PROVE  Finish!FinishInv'
<1> USE DEF Finish!FinishInv
<1> DEFINE Works == [Finish!Names -> Finish!Files \cup {Finish!NoFile}]
<1>0. /\ x4 \in Works /\ x7 \in Finish!Names /\ x10 \in Nat /\ Finish!There(x7)
      /\ x4[x7] \in Finish!Files /\ Finish!NoFile \in Finish!Files \cup {Finish!NoFile}
      /\ "output" \in Finish!Names /\ "normalized" \in Finish!Names /\ "converting" \in Finish!Names
      /\ UNCHANGED <<x1, x2, x3, x5, x8, x9, x10>>
      /\ x6 \in {"normalizing", "remuxing", "transcoding"} /\ x1.mode = "video_mp4" /\ ~x1.tags
      /\ x6 = "normalizing" => x4[x7].container = "mp4"
      /\ x6 # "normalizing" => x7 # "converting"
  <2>1. /\ UNCHANGED <<x1, x2, x3, x5, x8, x9, x10>>
        /\ x6 \in {"normalizing", "remuxing", "transcoding"}
    BY DEF Finish!Normalizes, Finish!Remuxes, Finish!Transcodes, Finish!Converts, Finish!Step
  <2>2. /\ Finish!There(x7) /\ x1.mode = "video_mp4" /\ (x6 = "normalizing" => x4[x7].container = "mp4")
        /\ x6 # "normalizing" => x7 # "converting"
    BY <2>1 DEF Finish!ChosenIsRight, Finish!Working
  <2> QED
    BY <2>1, <2>2 DEF Finish!FinishTypeOK, Finish!There, Finish!Names
<1> DEFINE MP4 == {f \in Finish!Files : f.container = "mp4"}
<1>1. /\ Finish!Half(Finish!Mp4(x4[x7])) \in MP4 /\ Finish!Mp4(x4[x7]) \in MP4
      /\ Finish!Cut(x4[x7]) \in Finish!Files
  <2>1. \A f \in Finish!Files : Finish!Half(f).container = f.container
    BY DEF Finish!Half, Finish!Files
  <2> QED
    BY <1>0, <2>1, FileSteps
\* A conversion that fails, or is left to the transcoder.
<1>2. ASSUME NEW name \in {"normalized", "converting"},
             NEW file \in Finish!Files \cup {Finish!NoFile}, x4' = Finish!With(name, file),
             name = "converting" => file \in MP4 \cup {Finish!NoFile},
             x7' = x7, x6' \in {"error", "transcoding"}, x6' = "transcoding" => x6 = "remuxing" /\ name = "converting"
      PROVE  Finish!FinishInv'
  <2>1. /\ x4' \in Works /\ x4'["output"] = x4["output"]
        /\ \A m \in Finish!Names \ {name} : x4'[m] = x4[m]
        /\ \/ x4'["converting"] \in {x4["converting"], Finish!NoFile}
           \/ x1.mode = "video_mp4" /\ x4'["converting"].container = "mp4"
    BY <1>0, <1>2, WithFile
  <2>2. CASE x6' = "error"
    BY <1>0, <1>2, <2>1, <2>2, FinishBreaksOff DEF Finish!Working
  <2>3. CASE x6' = "transcoding" /\ x6 = "remuxing" /\ name = "converting"
    <3>1. x4'[x7] = x4[x7] /\ Finish!There(x7)'
      BY <1>0, <2>1, <2>3, <1>2 DEF Finish!There
    <3>2. Finish!FinishTypeOK'
      BY <1>0, <1>2, <2>1, <2>3 DEF Finish!FinishTypeOK, Finish!Working
    <3>3. Finish!ChosenIsRight'
      BY <1>0, <1>2, <2>3, <3>1 DEF Finish!ChosenIsRight, Finish!Working, Finish!Final
    <3>4. Finish!OutputIsKept'
      BY <1>0, <2>1, <2>3 DEF Finish!OutputIsKept, Finish!Working, Finish!There
    <3>5. Finish!DestIsOwn'
      BY <1>0, <2>3 DEF Finish!DestIsOwn, Finish!Final
    <3> QED
      BY <3>2, <3>3, <3>4, <3>5
  <2> QED
    BY <1>2, <2>2, <2>3
\* One that succeeds.
<1>3. ASSUME NEW name \in {"normalized", "converting"}, NEW file \in MP4,
             x4' \in Works, x4'[name] = file, x7' = name, x6' = "probe",
             \A m \in Finish!Names \ {name, x7} : x4'[m] = x4[m],
             \/ x4'["output"] = x4["output"]
             \/ /\ name = "normalized" /\ x7 = "output" /\ x4'["output"] = Finish!NoFile
                /\ file.damage = x4["output"].damage,
             name = "normalized" /\ x7 = "converting" => x4'["converting"] = Finish!NoFile
      PROVE  Finish!FinishInv'
  <2>1. Finish!There(name)' /\ x4'[x7'] = file /\ file.container = "mp4"
    BY <1>3, FileSteps DEF Finish!There
  <2>2. Finish!FinishTypeOK'
    BY <1>0, <1>3 DEF Finish!FinishTypeOK, Finish!Working
  <2>3. Finish!ChosenIsRight'
    BY <1>0, <1>3, <2>1 DEF Finish!ChosenIsRight, Finish!Working, Finish!Final, Finish!Right, Finish!There
  <2>4. Finish!OutputIsKept'
    <3>1. Finish!There("converting")' => x4'["converting"].container = "mp4"
      BY <1>0, <1>3, <2>1 DEF Finish!OutputIsKept, Finish!There
    <3>2. CASE x4'["output"] = x4["output"]
      BY <1>0, <1>3, <3>1, <3>2 DEF Finish!OutputIsKept, Finish!There, Finish!Working
    <3>3. CASE /\ name = "normalized" /\ x7 = "output" /\ x4'["output"] = Finish!NoFile
               /\ file.damage = x4["output"].damage
      BY <1>0, <1>3, <3>1, <3>3 DEF Finish!OutputIsKept, Finish!There, Finish!Working
    <3> QED
      BY <1>3, <3>2, <3>3
  <2>5. Finish!DestIsOwn'
    BY <1>0, <1>3 DEF Finish!DestIsOwn, Finish!Final
  <2> QED
    BY <2>2, <2>3, <2>4, <2>5
<1>4. CASE Finish!Normalizes
  <2> DEFINE cut == Finish!Cut(x4[x7])
  <2>1. cut \in MP4 /\ cut.damage = x4[x7].damage
    BY <1>0, <1>4, FileSteps DEF Finish!Normalizes
  <2> HIDE DEF cut
  <2>2. CASE x4' = [x4 EXCEPT ![x7] = Finish!NoFile, !["normalized"] = cut] /\ x7' = "normalized" /\ x6' = "probe"
    <3>1. /\ x4' \in Works /\ x4'["normalized"] = cut
          /\ \A m \in Finish!Names \ {"normalized", x7} : x4'[m] = x4[m]
          /\ x7 = "converting" => x4'["converting"] = Finish!NoFile
      BY <1>0, <2>1, <2>2
    <3>2. \/ x4'["output"] = x4["output"]
          \/ x7 = "output" /\ x4'["output"] = Finish!NoFile /\ cut.damage = x4["output"].damage
      BY <1>0, <2>1, <2>2, <3>1
    <3> QED
      BY <1>3, <2>1, <2>2, <3>1, <3>2
  <2>3. CASE /\ x4' \in {Finish!With("normalized", cut), Finish!With("normalized", Finish!NoFile)}
             /\ x7' = x7 /\ x6' = "error"
    BY <1>2, <2>1, <2>3
  <2> QED
    BY <1>4, <2>2, <2>3 DEF Finish!Normalizes, Finish!Step, cut
<1>5. CASE Finish!Remuxes \/ Finish!Transcodes
  <2> DEFINE mp4 == Finish!Mp4(x4[x7])
             half == Finish!Half(mp4)
  <2>1. mp4 \in MP4 /\ half \in MP4 /\ x6 \in {"remuxing", "transcoding"}
    BY <1>1, <1>5 DEF Finish!Remuxes, Finish!Transcodes, Finish!Converts
  <2> HIDE DEF mp4, half
  <2>2. CASE x4' = Finish!With("converting", mp4) /\ x7' = "converting" /\ x6' = "probe"
    <3>1. /\ x4' \in Works /\ x4'["converting"] = mp4
          /\ \A m \in Finish!Names \ {"converting"} : x4'[m] = x4[m]
      BY <1>0, <2>1, <2>2, WithFile
    <3> QED
      BY <1>0, <1>3, <2>1, <2>2, <3>1
  <2>3. CASE /\ x4' \in {Finish!With("converting", Finish!NoFile), Finish!With("converting", half)}
             /\ x7' = x7 /\ x6' \in {"error", "transcoding"}
             /\ x6' = "transcoding" => x6 = "remuxing"
    BY <1>2, <2>1, <2>3
  <2> QED
    BY <1>5, <2>2, <2>3
       DEF Finish!Remuxes, Finish!Transcodes, Finish!Converts, Finish!Step, mp4, half
<1> QED
  BY <1>4, <1>5

\* The move, and the directory swept after it.
LEMMA FinishDelivers ==
    ASSUME Finish!FinishInv, Finish!Places \/ Finish!Sweeps
    PROVE  Finish!FinishInv'
<1> USE DEF Finish!FinishInv
<1> DEFINE Works == [Finish!Names -> Finish!Files \cup {Finish!NoFile}]
<1>0. /\ x4 \in Works /\ x7 \in Finish!Names /\ x10 \in Nat
      /\ "output" \in Finish!Names /\ "converting" \in Finish!Names
      /\ UNCHANGED <<x1, x2, x3, x5, x7, x10>>
  BY DEF Finish!FinishTypeOK, Finish!Names, Finish!Places, Finish!Sweeps, Finish!Step
<1>1. CASE Finish!Places
  <2>0. /\ x6 = "place" /\ x4[x7] \in Finish!Files /\ Finish!Right(x4[x7], TRUE) /\ Finish!Sound(x4[x7])
    BY <1>0, <1>1 DEF Finish!Places, Finish!ChosenIsRight, Finish!Working, Finish!There
  <2>1. CASE UNCHANGED <<x4, x8, x9>> /\ x6' = "error"
    BY <1>0, <2>0, <2>1, FinishBreaksOff DEF Finish!Working
  <2>2. CASE /\ x8' = x4[x7] /\ x4' = Finish!With(x7, Finish!NoFile) /\ x6' = "moved"
             /\ UNCHANGED x9
    <3>1. /\ x4' \in Works /\ x4'["output"] \in {x4["output"], Finish!NoFile}
          /\ x4'["converting"] \in {x4["converting"], Finish!NoFile}
      BY <1>0, <2>2, WithFile
    <3>2. Finish!FinishTypeOK'
      BY <1>0, <2>0, <2>2, <3>1 DEF Finish!FinishTypeOK, Finish!Final
    <3>3. Finish!ChosenIsRight'
      <4>1. Finish!Right(x4[x7], TRUE) /\ x1' = x1
        BY <1>0, <2>0
      <4>2. Finish!Right(x8, TRUE)' /\ Finish!Sound(x8)'
        BY <2>0, <2>2, <4>1 DEF Finish!Right, Finish!HasStreams, Finish!LongEnough, Finish!Sound
      <4> QED
        BY <2>0, <2>2, <4>2 DEF Finish!ChosenIsRight, Finish!Working
    <3>4. Finish!OutputIsKept'
      BY <1>0, <2>2, <3>1 DEF Finish!OutputIsKept, Finish!Working, Finish!There
    <3>5. Finish!DestIsOwn'
      BY <2>2 DEF Finish!DestIsOwn, Finish!Final
    <3> QED
      BY <3>2, <3>3, <3>4, <3>5
  <2>3. CASE /\ x8' \in {Finish!NoFile, Finish!Half(x4[x7])} /\ x9' = (x9 \/ x8' # Finish!NoFile)
             /\ x6' = "error" /\ UNCHANGED x4
    <3>1. x9' \in BOOLEAN /\ (~x9' => x8' = Finish!NoFile)
      BY <2>3
    <3>2. x8' \in Finish!Files \cup {Finish!NoFile}
      BY <2>0, <2>3, FileSteps
    <3>3. Finish!FinishTypeOK'
      BY <1>0, <2>3, <3>1, <3>2 DEF Finish!FinishTypeOK
    <3>4. Finish!ChosenIsRight' /\ Finish!OutputIsKept'
      BY <1>0, <2>3 DEF Finish!ChosenIsRight, Finish!OutputIsKept, Finish!Working, Finish!Final, Finish!There
    <3> QED
      BY <3>1, <3>3, <3>4 DEF Finish!DestIsOwn
  <2> QED
    BY <1>1, <2>1, <2>2, <2>3 DEF Finish!Places
<1>2. CASE Finish!Sweeps
  <2>1. /\ x4' \in Works /\ x4'["output"] \in {x4["output"], Finish!NoFile}
        /\ x4'["converting"] \in {x4["converting"], Finish!NoFile}
    BY <1>0, <1>2 DEF Finish!Sweeps
  <2>2. x6 = "sweep" /\ x6' = "commit" /\ UNCHANGED <<x8, x9>>
    BY <1>2 DEF Finish!Sweeps, Finish!Step
  <2>3. Finish!FinishTypeOK'
    BY <1>0, <2>1, <2>2 DEF Finish!FinishTypeOK, Finish!Final
  <2>4. Finish!ChosenIsRight'
    BY <1>0, <2>2 DEF Finish!ChosenIsRight, Finish!Final, Finish!Working, Finish!Right,
                      Finish!HasStreams, Finish!LongEnough
  <2>5. Finish!OutputIsKept'
    BY <1>0, <2>1, <2>2 DEF Finish!OutputIsKept, Finish!Working, Finish!There
  <2> QED
    BY <1>0, <2>2, <2>3, <2>4, <2>5 DEF Finish!DestIsOwn, Finish!Final
<1> QED
  BY <1>1, <1>2

\* The end of the program: what FFmpeg had half written may be there.
LEMMA FinishCrashes ==
    ASSUME Finish!FinishInv, Finish!Crash
    PROVE  Finish!FinishInv'
<1> USE DEF Finish!FinishInv
<1> DEFINE Works == [Finish!Names -> Finish!Files \cup {Finish!NoFile}]
<1>0. /\ x4 \in Works /\ x7 \in Finish!Names /\ x10 \in Nat
      /\ "output" \in Finish!Names /\ "converting" \in Finish!Names
      /\ "tagged" \in Finish!Names /\ "normalized" \in Finish!Names
      /\ UNCHANGED <<x1, x2, x3, x5, x7, x8>> /\ x6' = "start" /\ x10' \in Nat
      /\ x9' = (x9 \/ x6 \in {"moved", "sweep", "commit"}) /\ x6 # "completed"
  BY DEF Finish!FinishTypeOK, Finish!Names, Finish!Crash
<1>1. /\ x4' \in Works /\ x4'["output"] \in {x4["output"], Finish!NoFile}
      /\ \/ x4'["converting"] \in {x4["converting"], Finish!NoFile}
         \/ x1.mode = "video_mp4" /\ x4'["converting"].container = "mp4"
  <2>1. x6 \in {"tagging", "normalizing", "remuxing", "transcoding"} =>
            /\ x4[x7] \in Finish!Files
            /\ x6 \notin {"tagging", "normalizing"} => x1.mode = "video_mp4"
    BY <1>0 DEF Finish!ChosenIsRight, Finish!Working, Finish!There
  <2>2. CASE x4' = x4
    BY <1>0, <2>2
  <2>3. CASE x4' = Finish!With("tagged", Finish!Half(x4[x7])) /\ x6 = "tagging"
    <3>1. Finish!Half(x4[x7]) \in Finish!Files
      BY <2>1, <2>3, FileSteps
    <3> QED
      BY <1>0, <2>3, <3>1, WithFile
  <2>4. CASE x4' = Finish!With("normalized", Finish!Half(x4[x7])) /\ x6 = "normalizing"
    <3>1. Finish!Half(x4[x7]) \in Finish!Files
      BY <2>1, <2>4, FileSteps
    <3> QED
      BY <1>0, <2>4, <3>1, WithFile
  <2>5. CASE x4' = Finish!With("converting", Finish!Half(Finish!Mp4(x4[x7]))) /\ x6 \in {"remuxing", "transcoding"}
    <3>1. \A f \in Finish!Files : Finish!Half(f).container = f.container
      BY DEF Finish!Half, Finish!Files
    <3> DEFINE half == Finish!Half(Finish!Mp4(x4[x7]))
    <3>2. half \in Finish!Files /\ half.container = "mp4"
      BY <2>1, <2>5, <3>1, FileSteps
    <3> HIDE DEF half
    <3>3. x4' = Finish!With("converting", half)
      BY <2>5 DEF half
    <3> QED
      BY <1>0, <2>1, <2>5, <3>2, <3>3, WithFile
  <2>6. CASE x4' = Finish!With(x7, Finish!NoFile)
    BY <1>0, <2>6, WithFile
  <2> QED
    BY <2>2, <2>3, <2>4, <2>5, <2>6 DEF Finish!Crash, Finish!HalfWritten
<1>2. x9' \in BOOLEAN /\ (~x9' => ~x9 /\ x6 \notin Finish!Final)
  BY <1>0 DEF Finish!Final
<1>3. Finish!FinishTypeOK'
  <2>1. UNCHANGED <<x1, x2, x3, x5, x7, x8>>
    BY DEF Finish!Crash
  <2> QED
    BY <1>0, <1>1, <1>2, <2>1 DEF Finish!FinishTypeOK
<1>4. Finish!ChosenIsRight'
  BY <1>0 DEF Finish!ChosenIsRight, Finish!Working, Finish!Final
<1>5. Finish!OutputIsKept'
  BY <1>0, <1>1 DEF Finish!OutputIsKept, Finish!Working, Finish!There
<1>6. Finish!DestIsOwn'
  BY <1>0, <1>2 DEF Finish!DestIsOwn
<1> QED
  BY <1>3, <1>4, <1>5, <1>6

\* What is delivered passed every check, a stop leaves the download, and nothing strays.
THEOREM FinishIsSafe == Spec => []FinishSafe
<1> DEFINE Inv == part = "finish" => Finish!FinishInv
<1>1. Init => Inv
  BY FinishStart DEF Init
<1>2. Inv /\ [Next]_vars => Inv'
  <2> SUFFICES ASSUME Inv, [Next]_vars, part' = "finish"
               PROVE  Finish!FinishInv'
    OBVIOUS
  <2>1. part = "finish" /\ Finish!FinishInv
    BY DEF Next, vars
  <2>2. Finish!FinishNext \/ UNCHANGED <<x1, x2, x3, x4, x5, x6, x7, x8, x9, x10>>
    BY <2>1 DEF Next, vars
  <2>3. CASE UNCHANGED <<x1, x2, x3, x4, x5, x6, x7, x8, x9, x10>>
    BY <2>1, <2>3 DEF Finish!FinishInv, Finish!FinishTypeOK, Finish!ChosenIsRight,
                      Finish!OutputIsKept, Finish!DestIsOwn, Finish!There, Finish!Right,
                      Finish!HasStreams, Finish!LongEnough
  <2>4. CASE \/ Finish!Chooses \/ Finish!Compat \/ Finish!Probes \/ Finish!Decodes
             \/ Finish!Moved \/ Finish!Commits \/ Finish!Ends \/ Finish!Stop \/ Finish!Resumes
    <3>1. UNCHANGED x4
      BY <2>4 DEF Finish!Chooses, Finish!Compat, Finish!Probes, Finish!Decodes, Finish!Moved,
                  Finish!Commits, Finish!Ends, Finish!Stop, Finish!Resumes
    <3> QED
      BY <2>1, <2>4, <3>1, FinishQuiet
  <2> QED
    BY <2>1, <2>2, <2>3, <2>4, FinishTags, FinishConverts, FinishDelivers, FinishCrashes
       DEF Finish!FinishNext, Finish!FinishSteps
<1>3. Inv => FinishSafe
  <2> SUFFICES ASSUME Finish!FinishInv
               PROVE  Finish!FinishSafe
    BY DEF FinishSafe
  <2> USE DEF Finish!FinishInv
  <2>1. Finish!DeliveredIsChecked
    BY DEF Finish!DeliveredIsChecked, Finish!ChosenIsRight, Finish!Right, Finish!Final
  <2>2. Finish!StopKeepsDownload
    <3>1. "output" \in Finish!Names /\ "normalized" \in Finish!Names
      BY DEF Finish!Names
    <3>2. x6 \in Finish!Working => Finish!HasDownload
      <4>1. CASE Finish!There("output")
        BY <3>1, <4>1 DEF Finish!HasDownload, Finish!OutputIsKept
      <4>2. CASE x6 \in Finish!Working /\ ~Finish!There("output")
        BY <3>1, <4>2 DEF Finish!HasDownload, Finish!OutputIsKept, Finish!ChosenIsRight, Finish!Working
      <4> QED
        BY <4>1, <4>2
    <3> QED
      BY <3>2 DEF Finish!StopKeepsDownload, Finish!FinishTypeOK, Finish!Final
  <2>3. Finish!NothingStray
    BY DEF Finish!NothingStray, Finish!DestIsOwn, Finish!Final
  <2> QED
    BY <2>1, <2>2, <2>3 DEF Finish!FinishSafe
<1> QED
  BY <1>1, <1>2, <1>3, PTL DEF Spec

----------------------------------------------------------------------------
(* the attempts of a media worker: see MediaAttempts *)

\* One list after another.
LEMMA JoinedElements ==
    ASSUME NEW S, NEW s \in Seq(S), NEW t \in Seq(S)
    PROVE  /\ s \o t \in Seq(S) /\ Len(s \o t) = Len(s) + Len(t)
           /\ \A i \in 1..Len(s) : (s \o t)[i] = s[i]
           /\ \A i \in 1..Len(t) : (s \o t)[Len(s) + i] = t[i]
OBVIOUS

\* Where the elements of a list go when one is put into it.
LEMMA InsertedElements ==
    ASSUME NEW S, NEW s \in Seq(S), NEW n \in 1..Len(s) + 1, NEW e \in S,
           NEW r, r = Attempts!InsertAt(s, n, e)
    PROVE  /\ r \in Seq(S) /\ Len(r) = Len(s) + 1 /\ r[n] = e
           /\ \A i \in 1..n - 1 : r[i] = s[i]
           /\ \A i \in n..Len(s) : r[i + 1] = s[i]
<1> DEFINE a == SubSeq(s, 1, n - 1)
           b == SubSeq(s, n, Len(s))
<1>1. /\ a \in Seq(S) /\ Len(a) = n - 1 /\ \A i \in 1..n - 1 : a[i] = s[i]
  OBVIOUS
<1>2. /\ b \in Seq(S) /\ Len(b) = Len(s) + 1 - n /\ \A i \in 1..Len(s) + 1 - n : b[i] = s[n + i - 1]
  OBVIOUS
<1>3. r = a \o <<e>> \o b
  BY DEF Attempts!InsertAt
<1> HIDE DEF a, b
<1>4. /\ <<e>> \in Seq(S) /\ Len(<<e>>) = 1 /\ <<e>>[1] = e
  OBVIOUS
<1> DEFINE new == <<e>>
<1>5. /\ new \in Seq(S) /\ Len(new) = 1 /\ new[1] = e /\ r = (a \o new) \o b
  BY <1>3, <1>4
<1> HIDE DEF new
<1> DEFINE ao == a \o new
<1>6. /\ ao \in Seq(S) /\ Len(ao) = n /\ ao[n] = e /\ \A i \in 1..n - 1 : ao[i] = s[i]
  <2>1. /\ ao \in Seq(S) /\ Len(ao) = Len(a) + Len(new)
        /\ \A i \in 1..Len(a) : ao[i] = a[i]
        /\ \A i \in 1..Len(new) : ao[Len(a) + i] = new[i]
    <3>1. a \in Seq(S) /\ new \in Seq(S)
      BY <1>1, <1>5
    <3> QED
      BY <3>1, JoinedElements
  <2> HIDE DEF ao
  <2> QED
    BY <1>1, <1>5, <2>1
<1>7. r = ao \o b
  BY <1>5
<1> HIDE DEF ao
<1>8. /\ r \in Seq(S) /\ Len(r) = Len(ao) + Len(b)
      /\ \A i \in 1..Len(ao) : r[i] = ao[i]
      /\ \A i \in 1..Len(b) : r[Len(ao) + i] = b[i]
  BY <1>2, <1>6, <1>7, JoinedElements
<1>9. ASSUME NEW i \in n..Len(s) PROVE r[i + 1] = s[i]
  <2>1. i - n + 1 \in 1..Len(b) /\ Len(ao) + (i - n + 1) = i + 1 /\ n + (i - n + 1) - 1 = i
    BY <1>2, <1>6
  <2> QED
    BY <1>2, <1>8, <2>1
<1> QED
  BY <1>2, <1>6, <1>8, <1>9

\* A list with one more at the end.
LEMMA AppendedElements ==
    ASSUME NEW S, NEW s \in Seq(S), NEW e \in S
    PROVE  /\ Append(s, e) \in Seq(S) /\ Len(Append(s, e)) = Len(s) + 1
           /\ Append(s, e)[Len(s) + 1] = e /\ \A i \in 1..Len(s) : Append(s, e)[i] = s[i]
OBVIOUS

\* The list a worker starts from.
LEMMA LadderElements ==
    ASSUME NEW h \in Hosts, NEW reused \in BOOLEAN, NEW r, r = Attempts!Ladder(h, reused)
    PROVE  /\ r \in Seq(Attempts!Tries)
           /\ Len(r) = (IF reused THEN 1 ELSE 0) + HostProfiles(h) + (IF h = "tiktok" THEN 1 ELSE 0)
           /\ \A i \in DOMAIN r : /\ r[i].file = IF reused /\ i = 1 THEN 1 ELSE 0
                                  /\ r[i].kind # "safari"
<1> DEFINE one == Attempts!Attempt("reuse", 1)
           two == Attempts!Attempt("profile", 0)
           three == Attempts!Attempt("embed", 0)
           a == IF reused THEN <<one>> ELSE << >>
           prof == [i \in 1..HostProfiles(h) |-> two]
           c == IF h = "tiktok" THEN <<three>> ELSE << >>
           S == Attempts!Tries
<1>1. /\ one \in S /\ one.file = 1 /\ one.kind # "safari"
      /\ two \in S /\ two.file = 0 /\ two.kind # "safari"
      /\ three \in S /\ three.file = 0 /\ three.kind # "safari"
  BY DEF Attempts!Tries, Attempts!Attempt
<1> HIDE DEF one, two, three, S
<1>2. /\ a \in Seq(S) /\ Len(a) = (IF reused THEN 1 ELSE 0)
      /\ \A i \in 1..Len(a) : a[i] = one /\ i = 1 /\ reused
  BY <1>1
<1>3. /\ prof \in Seq(S) /\ Len(prof) = HostProfiles(h) /\ \A i \in 1..Len(prof) : prof[i] = two
  BY <1>1, LadderAssumption
<1>4. /\ c \in Seq(S) /\ Len(c) = (IF h = "tiktok" THEN 1 ELSE 0) /\ \A i \in 1..Len(c) : c[i] = three
  BY <1>1
<1>5. r = a \o prof \o c
  BY DEF Attempts!Ladder, one, two, three
<1>6. reused => Len(a) = 1
  BY <1>2
<1> HIDE DEF a, prof, c
<1> DEFINE d == a \o prof
<1>7. /\ d \in Seq(S) /\ Len(d) = Len(a) + Len(prof)
      /\ \A i \in 1..Len(a) : d[i] = a[i]
      /\ \A i \in 1..Len(prof) : d[Len(a) + i] = prof[i]
  BY <1>2, <1>3, JoinedElements
<1>8. r = d \o c
  BY <1>5
<1> HIDE DEF d
<1>9. /\ r \in Seq(S) /\ Len(r) = Len(d) + Len(c)
      /\ \A i \in 1..Len(d) : r[i] = d[i]
      /\ \A i \in 1..Len(c) : r[Len(d) + i] = c[i]
  <2>1. c \in Seq(S) /\ d \in Seq(S)
    BY <1>4, <1>7
  <2> QED
    BY <1>8, <2>1, JoinedElements
<1>10. ASSUME NEW i \in 1..Len(r)
       PROVE  r[i].file = (IF reused /\ i = 1 THEN 1 ELSE 0) /\ r[i].kind # "safari"
  <2>0. Len(a) \in {0, 1} /\ (Len(a) = 1 <=> reused) /\ Len(prof) \in Nat /\ Len(c) \in Nat
    BY <1>2, <1>3, <1>4
  <2>1. CASE i \in 1..Len(a)
    <3>1. r[i] = one /\ i = 1 /\ reused
      BY <1>2, <1>7, <1>9, <2>0, <2>1
    <3> QED
      BY <1>1, <3>1
  <2>2. CASE i \in Len(a) + 1..Len(a) + Len(prof)
    <3>1. i - Len(a) \in 1..Len(prof) /\ Len(a) + (i - Len(a)) = i /\ i \in 1..Len(d)
      BY <1>7, <2>0, <2>2
    <3>2. r[i] = two
      BY <1>3, <1>7, <1>9, <3>1
    <3>3. ~(reused /\ i = 1)
      BY <2>0, <2>2
    <3> QED
      BY <1>1, <3>2, <3>3
  <2>3. CASE i \in Len(d) + 1..Len(r)
    <3>1. i - Len(d) \in 1..Len(c) /\ Len(d) + (i - Len(d)) = i
      BY <1>7, <1>9, <2>0, <2>3
    <3>2. r[i] = three
      BY <1>4, <1>9, <3>1
    <3> QED
      BY <1>1, <1>7, <2>0, <2>3, <3>2
  <2> QED
    BY <1>7, <1>9, <2>0, <2>1, <2>2, <2>3
<1> QED
  BY <1>2, <1>3, <1>4, <1>7, <1>9, <1>10 DEF S

\* MediaAttempts counts as FiniteSets does.
LEMMA SameCount == \A S : Attempts!Cardinality(S) = Cardinality(S)
BY DEF Attempts!Cardinality, Cardinality

\* The metadata files that are there can be counted.
LEMMA FilesCount ==
    ASSUME NEW F, NEW n \in Nat, F \subseteq 1..n
    PROVE  /\ Cardinality(F) \in Nat
           /\ \A f : /\ Cardinality(F \ {f}) \in Nat
                     /\ Cardinality(F \ {f}) <= Cardinality(F)
                     /\ f \in F => Cardinality(F \ {f}) = Cardinality(F) - 1
           /\ \A f : f \notin F => Cardinality(F \cup {f}) = Cardinality(F) + 1
<1>1. IsFiniteSet(1..n)
  BY FS_Interval
<1>2. IsFiniteSet(F)
  BY <1>1, FS_Subset
<1>3. Cardinality(F) \in Nat
  BY <1>2, FS_CardinalityType
<1>4. ASSUME NEW f
      PROVE  /\ Cardinality(F \ {f}) \in Nat
             /\ Cardinality(F \ {f}) = IF f \in F THEN Cardinality(F) - 1 ELSE Cardinality(F)
  <2>1. IsFiniteSet(F \ {f})
    BY <1>2, FS_Subset
  <2> QED
    BY <1>2, <2>1, FS_CardinalityType, FS_RemoveElement
<1>5. \A f : f \notin F => Cardinality(F \cup {f}) = Cardinality(F) + 1
  BY <1>2, FS_AddElement
<1> QED
  BY <1>3, <1>4, <1>5

\* The accounts of a ladder are numbers.
LEMMA LadderNumbers ==
    ASSUME Attempts!LadderTypeOK
    PROVE  /\ Attempts!Least \in Nat /\ Len(x3) \in Nat /\ Attempts!Extras \in 0..3
           /\ Attempts!Failing \in {0, 1} /\ Attempts!Renewing \in {0, 1}
           /\ x12.count \in Nat /\ Cardinality(x12.there) \in Nat /\ x7 \in Nat
<1>1. Attempts!Least \in Nat
  <2>1. x1 \in Hosts /\ FALSE \in BOOLEAN
    BY DEF Attempts!LadderTypeOK
  <2>2. \E r : r = Attempts!Ladder(x1, FALSE)
    OBVIOUS
  <2>3. PICK r : r = Attempts!Ladder(x1, FALSE)
    BY <2>2
  <2>4. r \in Seq(Attempts!Tries)
    BY <2>1, <2>3, LadderElements
  <2>5. Attempts!Least = Len(r)
    BY <2>3 DEF Attempts!Least
  <2> QED
    BY <2>4, <2>5
<1>2. Len(x3) \in Nat /\ x12.count \in Nat
  BY DEF Attempts!LadderTypeOK
<1>3. x7 \in Nat
  BY LadderAssumption DEF Attempts!LadderTypeOK
<1>4. /\ Attempts!Extras \in 0..3
      /\ Attempts!Failing \in {0, 1} /\ Attempts!Renewing \in {0, 1}
  BY DEF Attempts!Extras, Attempts!Once, Attempts!Failing, Attempts!Renewing
<1>5. Cardinality(x12.there) \in Nat
  BY <1>2, FilesCount DEF Attempts!LadderTypeOK
<1> QED
  BY <1>1, <1>2, <1>3, <1>4, <1>5

\* The list at first.
LEMMA LadderStart == ASSUME Attempts!LadderInit PROVE Attempts!LadderInv
<1>1. PICK reused \in BOOLEAN :
          /\ x1 \in Hosts /\ x3 = Attempts!Ladder(x1, reused) /\ x4 = 1 /\ x5 = "choosing"
          /\ x7 = 0 /\ x9 = FALSE /\ x10 = FALSE
          /\ x12 = [there |-> IF reused THEN {1} ELSE {}, count |-> IF reused THEN 1 ELSE 0]
  BY DEF Attempts!LadderInit
<1> DEFINE one == IF reused THEN 1 ELSE 0
           page == IF x1 = "tiktok" THEN 1 ELSE 0
           profiles == HostProfiles(x1)
<1>2. /\ x1 \in Hosts /\ x4 = 1 /\ x5 = "choosing" /\ x7 = 0 /\ x9 \in BOOLEAN /\ x10 \in BOOLEAN
      /\ x12.there = (IF reused THEN {1} ELSE {}) /\ x12.count = one
      /\ one \in {0, 1} /\ (reused <=> one = 1) /\ page \in Nat /\ profiles \in Nat /\ MaxRefreshes \in Nat
  <2>1. /\ x1 \in Hosts /\ x4 = 1 /\ x5 = "choosing" /\ x7 = 0 /\ x9 \in BOOLEAN /\ x10 \in BOOLEAN
    BY <1>1
  <2>2. x12.there = (IF reused THEN {1} ELSE {}) /\ x12.count = one
    BY <1>1
  <2>3. one \in {0, 1} /\ (reused <=> one = 1) /\ page \in Nat
    OBVIOUS
  <2>4. profiles \in Nat /\ MaxRefreshes \in Nat
    BY <2>1, LadderAssumption
  <2> QED
    BY <2>1, <2>2, <2>3, <2>4
<1>3. /\ x3 \in Seq(Attempts!Tries) /\ Len(x3) = one + profiles + page
      /\ \A i \in DOMAIN x3 : x3[i].file = (IF reused /\ i = 1 THEN 1 ELSE 0) /\ x3[i].kind # "safari"
  BY <1>1, LadderElements
<1>4. Attempts!Least = 0 + profiles + page
  <2>1. \E r : r = Attempts!Ladder(x1, FALSE)
    OBVIOUS
  <2>2. PICK r : r = Attempts!Ladder(x1, FALSE)
    BY <2>1
  <2>3. Len(r) = (IF FALSE THEN 1 ELSE 0) + HostProfiles(x1) + (IF x1 = "tiktok" THEN 1 ELSE 0)
    BY <1>2, <2>2, LadderElements
  <2> QED
    BY <2>2, <2>3 DEF Attempts!Least
<1> HIDE DEF one, page, profiles
<1>5. /\ Len(x3) \in Nat /\ (reused => Len(x3) >= 1) /\ Len(x3) = Attempts!Least + one
      /\ Attempts!Least \in Nat /\ DOMAIN x3 = 1..Len(x3)
  BY <1>2, <1>3, <1>4
<1>6. Attempts!LadderTypeOK
  <2>1. x4 \in 1..Len(x3) + 1
    BY <1>2, <1>5
  <2>2. x7 \in 0..MaxRefreshes
    BY <1>2
  <2>3. x12.count \in Nat /\ x12.there \subseteq 1..x12.count
    BY <1>2
  <2>4. x12 \in [there : SUBSET Nat, count : Nat]
    BY <1>1
  <2> QED
    BY <1>2, <1>3, <2>1, <2>2, <2>3, <2>4 DEF Attempts!LadderTypeOK
<1>7. Attempts!SignedFilesAreSpent
  <2>1. ASSUME reused PROVE 1 \in DOMAIN x3 /\ x3[1].file = 1
    <3>1. 1 \in DOMAIN x3
      BY <1>5, <2>1
    <3> QED
      BY <1>3, <2>1, <3>1
  <2>2. \A i \in x4..Len(x3) : x3[i].file # 0 => x3[i].file \in x12.there
    <3>1. ASSUME NEW i \in x4..Len(x3) PROVE i \in DOMAIN x3
      BY <1>2, <1>5
    <3> QED
      BY <1>2, <1>3, <3>1
  <2> QED
    BY <1>2, <2>1, <2>2 DEF Attempts!SignedFilesAreSpent
<1>8. Attempts!FilesAreOwn
  <2>1. \A i \in DOMAIN x3 : x3[i].file <= one /\ (x3[i].file # 0 => i = 1)
    BY <1>2, <1>3
  <2> QED
    BY <1>2, <2>1 DEF Attempts!FilesAreOwn
<1>9. Attempts!LadderIsPaid
  <2>1. Cardinality(x12.there) = one
    BY <1>2, FS_EmptySet, FS_Singleton
  <2>2. Attempts!Failing = 0 /\ Attempts!Renewing = 0
    BY <1>2 DEF Attempts!Failing, Attempts!Renewing, Attempts!Once
  <2>3. Attempts!Extras \in 0..3
    BY <1>6, LadderNumbers
  <2>4. Len(x3) <= Attempts!Least + Attempts!Extras + 2 * x12.count - Cardinality(x12.there) - Attempts!Failing
    BY <1>2, <1>5, <2>1, <2>2, <2>3
  <2>5. x12.count + Attempts!Renewing <= x7 + 1
    BY <1>2, <2>2
  <2> QED
    BY <2>4, <2>5, SameCount DEF Attempts!LadderIsPaid
<1> QED
  BY <1>6, <1>7, <1>8, <1>9 DEF Attempts!LadderInv

\* What leaves the list and the files alone, and neither starts nor ends an attempt.
LEMMA LadderRests ==
    ASSUME Attempts!LadderInv, UNCHANGED <<x1, x3, x4, x9, x10, x12>>,
           x5' \in {"choosing", "failed", "unwatched", "intervention", "waiting", "renewing", "stopped"},
           x5 \in {"running", "choosing", "failed_once", "waiting", "renewing"},
           x5 = "running" => x5' = "unwatched",
           x7' \in 0..MaxRefreshes, x5' = "renewing" => x7' = x7 + 1, x7' >= x7
    PROVE  Attempts!LadderInv'
<1> USE DEF Attempts!LadderInv
<1>1. Attempts!LadderTypeOK'
  BY DEF Attempts!LadderTypeOK
<1>2. Attempts!SignedFilesAreSpent'
  BY DEF Attempts!SignedFilesAreSpent
<1>3. Attempts!FilesAreOwn'
  BY DEF Attempts!FilesAreOwn
<1>4. Attempts!LadderIsPaid'
  <2> DEFINE there == Cardinality(x12.there)
  <2>1. Attempts!Failing' = 0 /\ Attempts!Renewing' = IF x5' = "renewing" THEN 1 ELSE 0
    BY DEF Attempts!Failing, Attempts!Renewing, Attempts!Once
  <2>2. Attempts!Extras' = Attempts!Extras /\ Attempts!Least' = Attempts!Least
    BY DEF Attempts!Extras, Attempts!Least
  <2>3. /\ Len(x3) <= Attempts!Least + Attempts!Extras + 2 * x12.count - there - Attempts!Failing
        /\ x12.count + Attempts!Renewing <= x7 + 1
    BY SameCount DEF Attempts!LadderIsPaid
  <2>4. /\ Attempts!Least \in Nat /\ Attempts!Extras \in Nat /\ Len(x3) \in Nat /\ x12.count \in Nat
        /\ Attempts!Failing \in Nat /\ Attempts!Renewing \in Nat /\ there \in Nat /\ x7 \in Nat /\ x7' \in Nat
    BY LadderNumbers, LadderAssumption
  <2>5. x12' = x12 /\ there' = there /\ Len(x3)' = Len(x3) /\ Len(x3') = Len(x3)
    OBVIOUS
  <2> HIDE DEF there
  <2>6. Len(x3') <= Attempts!Least' + Attempts!Extras' + 2 * x12'.count - there' - Attempts!Failing'
    BY <2>1, <2>2, <2>3, <2>4, <2>5
  <2>7. x12'.count + Attempts!Renewing' <= x7' + 1
    BY <2>1, <2>3, <2>4, <2>5
  <2> QED
    BY <2>6, <2>7, SameCount DEF Attempts!LadderIsPaid, there
<1> QED
  BY <1>1, <1>2, <1>3, <1>4

\* An attempt starts or ends, and the file it was given goes with it.
LEMMA LadderSpends ==
    ASSUME Attempts!LadderInv, Attempts!Starts \/ Attempts!Stopped \/ Attempts!Exits
    PROVE  Attempts!LadderInv'
<1> DEFINE n == IF x5 = "choosing" THEN x4 ELSE x4 - 1
           f == x3[n].file
<1>1. /\ UNCHANGED <<x1, x3, x7, x9, x10>>
      /\ \/ x5 = "choosing" /\ x4 <= Len(x3) /\ x4' = x4 + 1
         \/ x5 = "running" /\ x4' = x4
      /\ \/ x5 = "choosing" /\ x5' = "running" /\ x12' = x12
         \/ /\ x12' = [x12 EXCEPT !.there = @ \ {f}]
            /\ x5' \in {"choosing", "aborted", "stopped", "succeeded", "failed_once"}
            /\ x5 = "choosing" => x5' # "failed_once"
  BY DEF Attempts!Starts, Attempts!Stopped, Attempts!Exits, Attempts!Without, Attempts!Current, Attempts!counters
<1>2. /\ Attempts!LadderTypeOK /\ Attempts!SignedFilesAreSpent /\ Attempts!FilesAreOwn /\ Attempts!LadderIsPaid
      /\ x3 \in Seq(Attempts!Tries) /\ Len(x3) \in Nat /\ DOMAIN x3 = 1..Len(x3)
      /\ x4 \in 1..Len(x3) + 1 /\ (x5 = "running" => x4 # 1)
      /\ x12 \in [there : SUBSET Nat, count : Nat] /\ x12.there \subseteq 1..x12.count /\ x12.count \in Nat
  BY DEF Attempts!LadderInv, Attempts!LadderTypeOK
<1>3. n \in 1..Len(x3) /\ x4' = n + 1
  BY <1>1, <1>2
<1>4. /\ x12' \in [there : SUBSET Nat, count : Nat] /\ x12'.count = x12.count
      /\ \/ x12'.there = x12.there /\ x5 = "choosing" /\ x5' = "running"
         \/ x12'.there = x12.there \ {f} /\ x5' # "running"
  BY <1>1, <1>2
<1>5. f # 0 => f \in x12.there
  <2>1. CASE x5 = "choosing"
    BY <1>2, <1>3, <2>1 DEF Attempts!SignedFilesAreSpent
  <2>2. CASE x5 = "running"
    BY <1>2, <2>2 DEF Attempts!FilesAreOwn, Attempts!Current
  <2> QED
    BY <1>1, <2>1, <2>2
<1>6. Attempts!Current' = x3[n]
  BY <1>1, <1>3 DEF Attempts!Current
<1>7. Attempts!LadderTypeOK'
  <2>1. x4' \in 1..Len(x3) + 1 /\ x4' # 1
    BY <1>2, <1>3
  <2>2. x12'.there \subseteq 1..x12'.count
    BY <1>2, <1>4
  <2>3. /\ x1' = x1 /\ x3' = x3 /\ x7' = x7 /\ x9' = x9 /\ x10' = x10
        /\ x5' \in {"choosing", "running", "aborted", "stopped", "succeeded", "failed_once"}
    BY <1>1
  <2>4. x1 \in Hosts /\ x7 \in 0..MaxRefreshes /\ x9 \in BOOLEAN /\ x10 \in BOOLEAN
    BY <1>2 DEF Attempts!LadderTypeOK
  <2> QED
    BY <1>2, <1>4, <2>1, <2>2, <2>3, <2>4 DEF Attempts!LadderTypeOK
<1>8. Attempts!SignedFilesAreSpent'
  <2>1. ASSUME NEW g \in x12'.there
        PROVE  \E i \in 1..Len(x3) : x3[i].file = g /\ (i >= n + 1 \/ (i = n /\ x5' = "running"))
    <3>1. g \in x12.there
      BY <1>4, <2>1
    <3>2. PICK i \in 1..Len(x3) : x3[i].file = g /\ i >= n
      BY <1>1, <1>2, <3>1 DEF Attempts!SignedFilesAreSpent
    <3>3. i = n => x5' = "running"
      BY <1>4, <2>1, <3>2
    <3> QED
      BY <1>3, <3>2, <3>3
  <2>2. ASSUME NEW i \in n + 1..Len(x3), x3[i].file # 0
        PROVE  x3[i].file \in x12'.there
    <3>1. i \in x4..Len(x3) /\ i \in 1..Len(x3) /\ i # n
      BY <1>1, <1>2, <1>3
    <3>2. x3[i].file \in x12.there
      BY <1>2, <2>2, <3>1 DEF Attempts!SignedFilesAreSpent
    <3>3. x3[i].file # f
      BY <1>2, <1>3, <2>2, <3>1 DEF Attempts!FilesAreOwn
    <3> QED
      BY <1>4, <3>2, <3>3
  <2>3. x3' = x3 /\ x4' = n + 1 /\ DOMAIN x3 = 1..Len(x3) /\ n + 1 - 1 = n
    BY <1>1, <1>2, <1>3
  <2> QED
    BY <2>1, <2>2, <2>3 DEF Attempts!SignedFilesAreSpent
<1>9. Attempts!FilesAreOwn'
  <2>1. /\ \A i \in DOMAIN x3 : x3[i].file <= x12.count
        /\ \A i, j \in DOMAIN x3 : x3[i].file = x3[j].file /\ i # j => x3[i].file = 0
    BY <1>2 DEF Attempts!FilesAreOwn
  <2>2. x5' = "running" /\ f # 0 => f \in x12'.there
    BY <1>4, <1>5
  <2>3. x3' = x3 /\ x12'.count = x12.count /\ Attempts!Current'.file = f
    BY <1>1, <1>4, <1>6
  <2> QED
    BY <2>1, <2>2, <2>3 DEF Attempts!FilesAreOwn
<1>10. Attempts!LadderIsPaid'
  <2> DEFINE there == Cardinality(x12.there)
             left == Cardinality(x12'.there)
  <2>1. Attempts!Extras' = Attempts!Extras /\ Attempts!Least' = Attempts!Least
    BY <1>1 DEF Attempts!Extras, Attempts!Least
  <2>2. Attempts!Renewing' = 0 /\ Attempts!Renewing = 0 /\ Attempts!Failing = 0
    BY <1>1 DEF Attempts!Renewing, Attempts!Failing, Attempts!Once
  <2>3. Attempts!Failing' = (IF x5' = "failed_once" /\ f # 0 THEN 1 ELSE 0)
    BY <1>6 DEF Attempts!Failing, Attempts!Once
  <2>4. left + Attempts!Failing' <= there /\ left \in Nat /\ there \in Nat
    <3>1. CASE x12'.there = x12.there /\ x5' = "running"
      BY <1>2, <2>3, <3>1, FilesCount
    <3>2. CASE x12'.there = x12.there \ {f}
      <4>1. left \in Nat /\ there \in Nat /\ left <= there /\ (f \in x12.there => left = there - 1)
        BY <1>2, <3>2, FilesCount
      <4> QED
        BY <1>5, <2>3, <4>1
    <3> QED
      BY <1>4, <3>1, <3>2
  <2>5. /\ Len(x3) <= Attempts!Least + Attempts!Extras + 2 * x12.count - there - Attempts!Failing
        /\ x12.count + Attempts!Renewing <= x7 + 1
    BY <1>2, SameCount DEF Attempts!LadderIsPaid
  <2>6. /\ Attempts!Least \in Nat /\ Attempts!Extras \in Nat /\ Attempts!Failing' \in Nat /\ x7 \in Nat
    BY <1>2, <2>3, LadderNumbers
  <2>7. /\ Len(x3') = Len(x3) /\ x7' = x7 /\ x12'.count = x12.count
        /\ Len(x3) \in Nat /\ x12.count \in Nat
    BY <1>1, <1>2, <1>4
  <2> HIDE DEF there, left
  <2>8. Len(x3') <= Attempts!Least' + Attempts!Extras' + 2 * x12'.count - left - Attempts!Failing'
    <3>1. PICK spent \in {0, 1} : spent = Attempts!Failing'
      BY <2>3
    <3>2. left + spent <= there
      BY <2>4, <3>1
    <3>3. Len(x3) <= Attempts!Least + Attempts!Extras + 2 * x12.count - left - spent
      BY <2>2, <2>4, <2>5, <2>6, <2>7, <3>2
    <3> QED
      BY <2>1, <2>7, <3>1, <3>3
  <2>9. x12'.count + Attempts!Renewing' <= x7' + 1
    BY <2>2, <2>5, <2>6, <2>7
  <2> QED
    BY <2>8, <2>9, SameCount DEF Attempts!LadderIsPaid, left
<1> QED
  BY <1>7, <1>8, <1>9, <1>10 DEF Attempts!LadderInv

\* A list that grows keeps what it has.
LEMMA GrownList ==
    ASSUME Attempts!LadderTypeOK, NEW pos \in x4..Len(x3) + 1,
           x3' \in Seq(Attempts!Tries), Len(x3') = Len(x3) + 1,
           \A i \in 1..pos - 1 : x3'[i] = x3[i], \A i \in pos..Len(x3) : x3'[i + 1] = x3[i]
    PROVE  /\ \A i \in 1..Len(x3) : \E j \in 1..Len(x3') : x3'[j] = x3[i] /\ (i >= x4 => j >= x4)
           /\ \A j \in 1..Len(x3') \ {pos} :
                  /\ (IF j < pos THEN j ELSE j - 1) \in 1..Len(x3)
                  /\ x3'[j] = x3[IF j < pos THEN j ELSE j - 1]
                  /\ j >= x4 => (IF j < pos THEN j ELSE j - 1) >= x4
<1>1. Len(x3) \in Nat /\ x4 \in 1..Len(x3) + 1 /\ pos \in 1..Len(x3) + 1
  BY DEF Attempts!LadderTypeOK
<1>2. ASSUME NEW i \in 1..Len(x3)
      PROVE  \E j \in 1..Len(x3') : x3'[j] = x3[i] /\ (i >= x4 => j >= x4)
  <2>1. CASE i < pos
    <3>1. i \in 1..pos - 1 /\ i \in 1..Len(x3')
      BY <1>1, <2>1
    <3> QED
      BY <3>1
  <2>2. CASE i >= pos
    <3>1. i \in pos..Len(x3) /\ i + 1 \in 1..Len(x3') /\ (i >= x4 => i + 1 >= x4)
      BY <1>1, <2>2
    <3> QED
      BY <3>1
  <2> QED
    BY <1>1, <2>1, <2>2
<1>3. ASSUME NEW j \in 1..Len(x3') \ {pos}
      PROVE  /\ (IF j < pos THEN j ELSE j - 1) \in 1..Len(x3)
             /\ x3'[j] = x3[IF j < pos THEN j ELSE j - 1]
             /\ j >= x4 => (IF j < pos THEN j ELSE j - 1) >= x4
  <2>1. CASE j < pos
    <3>1. j \in 1..pos - 1 /\ j \in 1..Len(x3)
      BY <1>1, <2>1
    <3> QED
      BY <2>1, <3>1
  <2>2. CASE j > pos
    <3>1. j - 1 \in pos..Len(x3) /\ (j - 1) + 1 = j /\ j - 1 \in 1..Len(x3) /\ j - 1 >= x4 /\ ~(j < pos)
      BY <1>1, <2>2
    <3> QED
      BY <3>1
  <2> QED
    BY <1>1, <2>1, <2>2
<1> QED
  BY <1>2, <1>3

\* What one more attempt costs: one that is due or spent, or one for a new file.
LEMMA OneMore ==
    ASSUME NEW len \in Nat, NEW least \in Nat, NEW extras \in Nat, NEW more \in Nat, NEW count \in Nat,
           NEW there \in Nat, NEW failing \in {0, 1}, NEW m \in {0, 1},
           len <= least + extras + 2 * count - there - failing, more >= extras + m
    PROVE  /\ m = 1 \/ failing = 1 => len + 1 <= least + more + 2 * count - there - 0
           /\ failing = 0 => len + 1 <= least + more + 2 * (count + 1) - (there + 1) - 0
OBVIOUS

\* After a failure or a renewal an attempt is added to the list: one without a file, which is
\* paid for, or the one the renewed file was written for.
LEMMA LadderGrows ==
    ASSUME Attempts!LadderInv, NEW pos \in x4..Len(x3) + 1, NEW e \in Attempts!Tries,
           x3' \in Seq(Attempts!Tries), Len(x3') = Len(x3) + 1, x3'[pos] = e,
           \A i \in 1..pos - 1 : x3'[i] = x3[i], \A i \in pos..Len(x3) : x3'[i + 1] = x3[i],
           x1' = x1, x4' = x4, x5 \in {"failed_once", "renewing"}, x5' = "choosing", x7' = x7,
           x9' \in BOOLEAN, x10' \in BOOLEAN,
           NEW m \in {0, 1}, Attempts!Extras' >= Attempts!Extras + m,
           \/ e.file = 0 /\ x12' = x12 /\ (m = 1 \/ Attempts!Failing = 1)
           \/ /\ e.file = x12.count + 1 /\ x5 = "renewing"
              /\ x12' = [there |-> x12.there \cup {x12.count + 1}, count |-> x12.count + 1]
    PROVE  Attempts!LadderInv'
<1>1. /\ Attempts!LadderTypeOK /\ Attempts!SignedFilesAreSpent /\ Attempts!FilesAreOwn /\ Attempts!LadderIsPaid
      /\ Len(x3) \in Nat /\ DOMAIN x3 = 1..Len(x3) /\ DOMAIN x3' = 1..Len(x3')
      /\ x4 \in 1..Len(x3) + 1
      /\ x12 \in [there : SUBSET Nat, count : Nat] /\ x12.there \subseteq 1..x12.count /\ x12.count \in Nat
  BY DEF Attempts!LadderInv, Attempts!LadderTypeOK
<1> DEFINE old(j) == IF j < pos THEN j ELSE j - 1
<1>2. \A i \in 1..Len(x3) : \E j \in 1..Len(x3') : x3'[j] = x3[i] /\ (i >= x4 => j >= x4)
  BY <1>1, GrownList
<1>10. \A j \in 1..Len(x3') \ {pos} :
          old(j) \in 1..Len(x3) /\ x3'[j] = x3[old(j)] /\ (j >= x4 => old(j) >= x4)
  BY <1>1, GrownList
<1>3. /\ x12' \in [there : SUBSET Nat, count : Nat] /\ x12'.there \subseteq 1..x12'.count
      /\ x12'.count \in Nat /\ x12'.count >= x12.count /\ x12.there \subseteq x12'.there
      /\ e.file <= x12'.count /\ (e.file # 0 => e.file \in x12'.there)
      /\ x12'.there \subseteq x12.there \cup {e.file}
      /\ e.file # 0 => e.file = x12.count + 1
  BY <1>1
<1>4. /\ \A i, j \in 1..Len(x3') \ {pos} : i # j => old(i) # old(j)
      /\ pos \in 1..Len(x3') /\ pos >= x4
  BY <1>1
<1>5. /\ \A i \in 1..Len(x3) : x3[i].file <= x12.count /\ x3[i].file \in Nat
      /\ \A i, j \in 1..Len(x3) : x3[i].file = x3[j].file /\ i # j => x3[i].file = 0
  <2>1. \A i \in 1..Len(x3) : x3[i] \in Attempts!Tries
    BY <1>1 DEF Attempts!LadderTypeOK
  <2>2. \A i \in 1..Len(x3) : x3[i].file \in Nat
    BY <2>1 DEF Attempts!Tries
  <2> QED
    BY <1>1, <2>2 DEF Attempts!FilesAreOwn
<1> HIDE DEF old
<1>6. Attempts!LadderTypeOK'
  <2>1. x4' \in 1..Len(x3') + 1
    BY <1>1
  <2>2. x1 \in Hosts /\ x7 \in 0..MaxRefreshes
    BY <1>1 DEF Attempts!LadderTypeOK
  <2> QED
    BY <1>3, <2>1, <2>2 DEF Attempts!LadderTypeOK
<1>7. Attempts!SignedFilesAreSpent'
  <2>1. ASSUME NEW g \in x12'.there
        PROVE  \E j \in 1..Len(x3') : x3'[j].file = g /\ j >= x4
    <3>1. CASE g \in x12.there
      <4>1. PICK i \in 1..Len(x3) : x3[i].file = g /\ i >= x4
        BY <1>1, <3>1 DEF Attempts!SignedFilesAreSpent
      <4> QED
        BY <1>2, <4>1
    <3>2. CASE g = e.file
      BY <1>4, <3>2
    <3> QED
      BY <1>3, <3>1, <3>2
  <2>2. ASSUME NEW j \in x4..Len(x3'), x3'[j].file # 0
        PROVE  x3'[j].file \in x12'.there
    <3>1. CASE j = pos
      BY <1>3, <2>2, <3>1
    <3>2. CASE j # pos
      <4>1. j \in 1..Len(x3') \ {pos} /\ j >= x4
        BY <1>1, <3>2
      <4>2. old(j) \in 1..Len(x3) /\ old(j) >= x4 /\ x3'[j] = x3[old(j)]
        BY <1>10, <4>1
      <4>3. old(j) \in x4..Len(x3)
        BY <1>1, <4>2
      <4>4. x3[old(j)].file \in x12.there
        BY <1>1, <2>2, <4>2, <4>3 DEF Attempts!SignedFilesAreSpent
      <4> QED
        BY <1>3, <4>2, <4>4
    <3> QED
      BY <3>1, <3>2
  <2> QED
    BY <1>1, <2>1, <2>2 DEF Attempts!SignedFilesAreSpent
<1>8. Attempts!FilesAreOwn'
  <2>1. ASSUME NEW j \in 1..Len(x3')
        PROVE  x3'[j].file <= x12'.count
    <3>1. CASE j = pos
      BY <1>3, <3>1
    <3>2. CASE j # pos
      <4>1. old(j) \in 1..Len(x3) /\ x3'[j] = x3[old(j)]
        BY <1>10, <3>2
      <4>2. x3[old(j)].file <= x12.count /\ x3[old(j)].file \in Nat
        BY <1>5, <4>1
      <4> QED
        BY <1>1, <1>3, <4>1, <4>2
    <3> QED
      BY <3>1, <3>2
  <2>2. ASSUME NEW j \in 1..Len(x3') \ {pos}, x3'[j].file = e.file
        PROVE  x3'[j].file = 0
    <3>1. old(j) \in 1..Len(x3) /\ x3'[j] = x3[old(j)]
      BY <1>10
    <3>2. x3[old(j)].file <= x12.count /\ x3[old(j)].file \in Nat
      BY <1>5, <3>1
    <3> QED
      BY <1>1, <1>3, <2>2, <3>1, <3>2
  <2>3. ASSUME NEW i \in 1..Len(x3'), NEW j \in 1..Len(x3'), x3'[i].file = x3'[j].file, i # j
        PROVE  x3'[i].file = 0
    <3>1. CASE i = pos \/ j = pos
      BY <2>2, <2>3, <3>1
    <3>2. CASE i # pos /\ j # pos
      <4>1. /\ old(i) \in 1..Len(x3) /\ x3'[i] = x3[old(i)]
            /\ old(j) \in 1..Len(x3) /\ x3'[j] = x3[old(j)]
        BY <1>10, <3>2
      <4>2. old(i) # old(j)
        BY <1>4, <2>3, <3>2
      <4> QED
        BY <1>5, <2>3, <4>1, <4>2
    <3> QED
      BY <3>1, <3>2
  <2> QED
    BY <1>1, <2>1, <2>3 DEF Attempts!FilesAreOwn
<1>9. Attempts!LadderIsPaid'
  <2> DEFINE there == Cardinality(x12.there)
             left == Cardinality(x12'.there)
  <2>1. Attempts!Least' = Attempts!Least /\ Attempts!Renewing' = 0 /\ Attempts!Failing' = 0
    BY DEF Attempts!Least, Attempts!Renewing, Attempts!Failing, Attempts!Once
  <2>2. x5 = "renewing" => Attempts!Renewing = 1 /\ Attempts!Failing = 0
    BY DEF Attempts!Renewing, Attempts!Failing, Attempts!Once
  <2>3. /\ Len(x3) <= Attempts!Least + Attempts!Extras + 2 * x12.count - there - Attempts!Failing
        /\ x12.count + Attempts!Renewing <= x7 + 1
    BY <1>1, SameCount DEF Attempts!LadderIsPaid
  <2>4. /\ Attempts!Least \in Nat /\ Attempts!Extras \in Nat /\ Attempts!Failing \in {0, 1} /\ x7 \in Nat
        /\ Attempts!Renewing \in {0, 1} /\ there \in Nat
    BY <1>1, LadderNumbers
  <2>5. /\ \/ x12'.count = x12.count /\ left = there /\ (m = 1 \/ Attempts!Failing = 1)
           \/ x12'.count = x12.count + 1 /\ left = there + 1 /\ x5 = "renewing"
    <3>1. x12.count + 1 \notin x12.there
      BY <1>1
    <3>2. Cardinality(x12.there \cup {x12.count + 1}) = there + 1
      BY <1>1, <3>1, FilesCount
    <3>3. CASE e.file = 0 /\ x12' = x12 /\ (m = 1 \/ Attempts!Failing = 1)
      BY <3>3
    <3>4. CASE /\ x5 = "renewing"
               /\ x12' = [there |-> x12.there \cup {x12.count + 1}, count |-> x12.count + 1]
      <4>1. x12'.count = x12.count + 1 /\ x12'.there = x12.there \cup {x12.count + 1}
        BY <3>4
      <4> QED
        BY <3>2, <3>4, <4>1
    <3> QED
      BY <3>3, <3>4
  <2>6. PICK more \in 0..3 : more = Attempts!Extras'
    <3>1. Attempts!Extras' \in 0..3
      BY DEF Attempts!Extras, Attempts!Once
    <3> QED
      BY <3>1
  <2>7. more >= Attempts!Extras + m /\ m \in {0, 1} /\ Len(x3) \in Nat /\ x12.count \in Nat
    BY <1>1, <2>6
  <2> HIDE DEF there, left
  <2>8. Len(x3) + 1 <= Attempts!Least + more + 2 * x12'.count - left - 0
    <3>0. /\ m = 1 \/ Attempts!Failing = 1 =>
                Len(x3) + 1 <= Attempts!Least + more + 2 * x12.count - there - 0
          /\ Attempts!Failing = 0 =>
                Len(x3) + 1 <= Attempts!Least + more + 2 * (x12.count + 1) - (there + 1) - 0
      <4>1. more \in Nat
        BY <2>6
      <4> QED
        BY <2>3, <2>4, <2>7, <4>1, OneMore
    <3>1. PICK count \in Nat : count = x12'.count
      BY <1>3
    <3>2. Len(x3) + 1 <= Attempts!Least + more + 2 * count - left - 0
      <4>1. CASE count = x12.count /\ left = there /\ (m = 1 \/ Attempts!Failing = 1)
        BY <2>6, <3>0, <4>1
      <4>2. CASE count = x12.count + 1 /\ left = there + 1 /\ x5 = "renewing"
        BY <2>2, <2>6, <3>0, <4>2
      <4> QED
        BY <2>5, <3>1, <4>1, <4>2
    <3> QED
      BY <3>1, <3>2
  <2>9. x12'.count + 0 <= x7' + 1
    BY <1>1, <2>2, <2>3, <2>4, <2>5
  <2>10. /\ Len(x3') <= Attempts!Least' + Attempts!Extras' + 2 * x12'.count - left - Attempts!Failing'
         /\ x12'.count + Attempts!Renewing' <= x7' + 1
    BY <2>1, <2>6, <2>8, <2>9
  <2> QED
    BY <2>10, SameCount DEF Attempts!LadderIsPaid, left
<1> QED
  BY <1>6, <1>7, <1>8, <1>9 DEF Attempts!LadderInv

\* What a list has beside its profiles grows with it.
LEMMA ExtrasGrow ==
    ASSUME NEW m \in {0, 1}, x9 \in BOOLEAN, x9' \in BOOLEAN, x10 \in BOOLEAN, x10' \in BOOLEAN,
           x9 => x9', x10 => x10',
           \A i \in DOMAIN x3 : \E j \in DOMAIN x3' : x3'[j] = x3[i],
           m = 1 => \/ x9' /\ ~x9
                    \/ x10' /\ ~x10
                    \/ /\ \E i \in DOMAIN x3' : x3'[i].kind = "safari"
                       /\ ~ \E i \in DOMAIN x3 : x3[i].kind = "safari"
    PROVE  Attempts!Extras' >= Attempts!Extras + m
<1> DEFINE safari == \E i \in DOMAIN x3 : x3[i].kind = "safari"
           after == \E i \in DOMAIN x3' : x3'[i].kind = "safari"
           f == IF x10 THEN 1 ELSE 0
           l == IF x9 THEN 1 ELSE 0
           s == IF safari THEN 1 ELSE 0
           ff == IF x10' THEN 1 ELSE 0
           ll == IF x9' THEN 1 ELSE 0
           ss == IF after THEN 1 ELSE 0
<1>1. safari => after
  OBVIOUS
<1>2. /\ f \in {0, 1} /\ l \in {0, 1} /\ s \in {0, 1} /\ ff \in {0, 1} /\ ll \in {0, 1} /\ ss \in {0, 1}
      /\ f <= ff /\ l <= ll /\ s <= ss
  BY <1>1
<1>3. m = 1 => f < ff \/ l < ll \/ s < ss
  OBVIOUS
<1>4. Attempts!Extras = f + l + s /\ Attempts!Extras' = ff + ll + ss
  BY DEF Attempts!Extras, Attempts!Once
<1> HIDE DEF f, l, s, ff, ll, ss
<1>5. ff + ll + ss >= (f + l + s) + m
  BY <1>2, <1>3
<1> QED
  BY <1>4, <1>5

\* The same attempt again without its file, another format or the Safari profile: put where
\* the next attempt would have been.
LEMMA LadderInserts == ASSUME Attempts!LadderInv, Attempts!Inserts PROVE Attempts!LadderInv'
<1>1. /\ Attempts!LadderTypeOK /\ x3 \in Seq(Attempts!Tries) /\ x4 \in 1..Len(x3) + 1 /\ Len(x3) \in Nat
      /\ DOMAIN x3 = 1..Len(x3) /\ x9 \in BOOLEAN /\ x10 \in BOOLEAN /\ x4 # 1
      /\ x5 = "failed_once" /\ x5' = "choosing" /\ UNCHANGED <<x1, x4, x7, x9, x12>>
  BY DEF Attempts!LadderInv, Attempts!LadderTypeOK, Attempts!Inserts
<1>2. PICK e \in Attempts!Tries :
          /\ x3' = Attempts!InsertAt(x3, x4, e) /\ e.file = 0
          /\ \/ x10' = x10 /\ Attempts!Current.file # 0
             \/ x10' = TRUE /\ ~x10
             \/ x10' = x10 /\ e.kind = "safari" /\ ~ \E i \in DOMAIN x3 : x3[i].kind = "safari"
  <2> DEFINE again == Attempts!Attempt(Attempts!Current.kind, 0)
             format == Attempts!Attempt("format", 0)
             safari == Attempts!Attempt("safari", 0)
  <2>1. x4 - 1 \in 1..Len(x3)
    BY <1>1
  <2>2. Attempts!Current \in Attempts!Tries
    BY <1>1, <2>1 DEF Attempts!Current
  <2>3. again \in Attempts!Tries /\ again.file = 0
    BY <2>2 DEF Attempts!Tries, Attempts!Attempt
  <2>4. format \in Attempts!Tries /\ format.file = 0
    BY DEF Attempts!Tries, Attempts!Attempt
  <2>5. safari \in Attempts!Tries /\ safari.file = 0 /\ safari.kind = "safari"
    BY DEF Attempts!Tries, Attempts!Attempt
  <2>6. \/ Attempts!Current.file # 0 /\ x3' = Attempts!Inserted(again) /\ x10' = x10
        \/ ~x10 /\ x10' = TRUE /\ x3' = Attempts!Inserted(format)
        \/ /\ ~ \E i \in DOMAIN x3 : x3[i].kind = "safari"
           /\ x3' = Attempts!Inserted(safari) /\ x10' = x10
    BY DEF Attempts!Inserts, Attempts!LacksMetadata, Attempts!OtherFormat, Attempts!Safari
  <2> HIDE DEF again, format, safari
  <2> QED
    BY <2>3, <2>4, <2>5, <2>6 DEF Attempts!Inserted
<1>3. /\ x3' \in Seq(Attempts!Tries) /\ Len(x3') = Len(x3) + 1 /\ x3'[x4] = e
      /\ \A i \in 1..x4 - 1 : x3'[i] = x3[i]
      /\ \A i \in x4..Len(x3) : x3'[i + 1] = x3[i]
  <2>1. PICK r : r = x3'
    OBVIOUS
  <2>2. r = Attempts!InsertAt(x3, x4, e)
    BY <1>2, <2>1
  <2>3. x3 \in Seq(Attempts!Tries) /\ x4 \in 1..Len(x3) + 1 /\ e \in Attempts!Tries
    BY <1>1
  <2>4. /\ r \in Seq(Attempts!Tries) /\ Len(r) = Len(x3) + 1 /\ r[x4] = e
        /\ \A i \in 1..x4 - 1 : r[i] = x3[i]
        /\ \A i \in x4..Len(x3) : r[i + 1] = x3[i]
    BY <2>2, <2>3, InsertedElements
  <2> QED
    BY <2>1, <2>4
<1>4. x4 \in x4..Len(x3) + 1 /\ DOMAIN x3' = 1..Len(x3') /\ x4 \in DOMAIN x3'
  BY <1>1, <1>3
<1>5. \A i \in DOMAIN x3 : \E j \in DOMAIN x3' : x3'[j] = x3[i]
  BY <1>1, <1>3, <1>4, GrownList
<1> DEFINE m == IF Attempts!Current.file # 0 /\ x10' = x10 THEN 0 ELSE 1
<1>6. m \in {0, 1} /\ (m = 1 \/ Attempts!Failing = 1)
  BY <1>1 DEF Attempts!Failing, Attempts!Once
<1>7. x10' \in BOOLEAN /\ (x10 => x10')
  BY <1>1, <1>2
<1>8. m = 1 => \/ x10' /\ ~x10
               \/ /\ \E i \in DOMAIN x3' : x3'[i].kind = "safari"
                  /\ ~ \E i \in DOMAIN x3 : x3[i].kind = "safari"
  BY <1>2, <1>3, <1>4
<1> HIDE DEF m
<1>9. Attempts!Extras' >= Attempts!Extras + m
  <2>1. x9' \in BOOLEAN /\ (x9 => x9')
    BY <1>1
  <2> QED
    BY <1>1, <1>5, <1>6, <1>7, <1>8, <2>1, ExtrasGrow
<1>10. /\ x1' = x1 /\ x4' = x4 /\ x5 \in {"failed_once", "renewing"} /\ x7' = x7
       /\ x9' \in BOOLEAN /\ x12' = x12
  BY <1>1
<1> QED
  BY <1>1, <1>2, <1>3, <1>4, <1>6, <1>7, <1>9, <1>10, LadderGrows

\* The renewed metadata, and the page itself as a last resort: put at the end.
LEMMA LadderAppends ==
    ASSUME Attempts!LadderInv, NEW e \in Attempts!Tries, x3' = Append(x3, e),
           UNCHANGED <<x1, x4, x7, x10>>, x5 \in {"failed_once", "renewing"}, x5' = "choosing",
           \/ e.file = 0 /\ x12' = x12 /\ x9' = TRUE /\ x9 = FALSE
           \/ /\ e.file = x12.count + 1 /\ x5 = "renewing" /\ x9' = x9
              /\ x12' = [there |-> x12.there \cup {x12.count + 1}, count |-> x12.count + 1]
    PROVE  Attempts!LadderInv'
<1>1. /\ Attempts!LadderTypeOK /\ x3 \in Seq(Attempts!Tries) /\ x4 \in 1..Len(x3) + 1 /\ Len(x3) \in Nat
      /\ DOMAIN x3 = 1..Len(x3) /\ x9 \in BOOLEAN /\ x10 \in BOOLEAN
  BY DEF Attempts!LadderInv, Attempts!LadderTypeOK
<1> DEFINE pos == Len(x3) + 1
<1>2. /\ x3' \in Seq(Attempts!Tries) /\ Len(x3') = Len(x3) + 1 /\ x3'[pos] = e
      /\ \A i \in 1..Len(x3) : x3'[i] = x3[i]
  BY <1>1, AppendedElements
<1>3. /\ pos \in x4..Len(x3) + 1 /\ DOMAIN x3' = 1..Len(x3')
      /\ \A i \in 1..pos - 1 : x3'[i] = x3[i]
      /\ \A i \in pos..Len(x3) : x3'[i + 1] = x3[i]
  BY <1>1, <1>2
<1> HIDE DEF pos
<1>4. \A i \in DOMAIN x3 : \E j \in DOMAIN x3' : x3'[j] = x3[i]
  BY <1>1, <1>2, <1>3, GrownList
<1> DEFINE m == IF x9' = x9 THEN 0 ELSE 1
<1>5. /\ m \in {0, 1} /\ x9' \in BOOLEAN /\ (x9 => x9') /\ (m = 1 => x9' /\ ~x9)
      /\ \/ e.file = 0 /\ x12' = x12 /\ m = 1
         \/ /\ e.file = x12.count + 1 /\ x5 = "renewing"
            /\ x12' = [there |-> x12.there \cup {x12.count + 1}, count |-> x12.count + 1]
  <2>1. CASE e.file = 0 /\ x12' = x12 /\ x9' = TRUE /\ x9 = FALSE
    <3>1. m = 1 /\ x9' /\ ~x9 /\ x9' \in BOOLEAN
      BY <2>1
    <3> QED
      BY <2>1, <3>1
  <2>2. CASE /\ e.file = x12.count + 1 /\ x5 = "renewing" /\ x9' = x9
             /\ x12' = [there |-> x12.there \cup {x12.count + 1}, count |-> x12.count + 1]
    <3>1. m = 0 /\ x9' \in BOOLEAN /\ (x9 => x9')
      BY <1>1, <2>2
    <3> QED
      BY <2>2, <3>1
  <2> QED
    BY <2>1, <2>2
<1>6. x10' \in BOOLEAN /\ (x10 => x10')
  BY <1>1
<1> HIDE DEF m
<1>7. Attempts!Extras' >= Attempts!Extras + m
  BY <1>1, <1>4, <1>5, <1>6, ExtrasGrow
<1>8. x1' = x1 /\ x4' = x4 /\ x7' = x7
  OBVIOUS
<1> QED
  BY <1>2, <1>3, <1>5, <1>6, <1>7, <1>8, LadderGrows

\* The accounts bound the list.
LEMMA LadderBounded == ASSUME Attempts!LadderInv PROVE Attempts!LadderIsBounded
<1>1. Attempts!LadderTypeOK /\ Attempts!LadderIsPaid /\ x1 \in Hosts
  BY DEF Attempts!LadderInv, Attempts!LadderTypeOK
<1>2. PICK long : long = Attempts!Ladder(x1, TRUE)
  OBVIOUS
<1>3. PICK short : short = Attempts!Ladder(x1, FALSE)
  OBVIOUS
<1>4. /\ long \in Seq(Attempts!Tries)
      /\ Len(long) = (IF TRUE THEN 1 ELSE 0) + HostProfiles(x1) + (IF x1 = "tiktok" THEN 1 ELSE 0)
  BY <1>1, <1>2, LadderElements
<1>5. /\ short \in Seq(Attempts!Tries)
      /\ Len(short) = (IF FALSE THEN 1 ELSE 0) + HostProfiles(x1) + (IF x1 = "tiktok" THEN 1 ELSE 0)
  BY <1>1, <1>3, LadderElements
<1>6. HostProfiles(x1) \in Nat
  BY <1>1, LadderAssumption
<1>7. Len(long) = Len(short) + 1 /\ Len(short) \in Nat
  BY <1>4, <1>5, <1>6
<1>8. Attempts!Least = Len(short)
  BY <1>3 DEF Attempts!Least
<1> DEFINE there == Cardinality(x12.there)
<1>9. /\ Len(x3) <= Attempts!Least + Attempts!Extras + 2 * x12.count - there - Attempts!Failing
      /\ x12.count + Attempts!Renewing <= x7 + 1
  BY <1>1, SameCount DEF Attempts!LadderIsPaid
<1>10. /\ Len(x3) \in Nat /\ Attempts!Extras \in 0..3 /\ there \in Nat /\ Attempts!Failing \in {0, 1}
       /\ Attempts!Renewing \in {0, 1} /\ x12.count \in Nat
  BY <1>1, LadderNumbers
<1>11. x7 \in 0..MaxRefreshes /\ MaxRefreshes \in Nat
  BY <1>1, LadderAssumption DEF Attempts!LadderTypeOK
<1> HIDE DEF there
<1>12. x12.count <= MaxRefreshes + 1
  BY <1>9, <1>10, <1>11
<1>13. Len(x3) <= Len(short) + 3 + 2 * x12.count
  <2>1. PICK least \in Nat : least = Attempts!Least /\ least = Len(short)
    BY <1>7, <1>8
  <2>2. Len(x3) <= least + Attempts!Extras + 2 * x12.count
    BY <1>9, <1>10, <2>1
  <2>3. Len(x3) <= least + 3 + 2 * x12.count
    BY <1>10, <2>1, <2>2
  <2> QED
    BY <2>1, <2>3
<1>14. Len(x3) <= Len(long) + 3 + 2 * MaxRefreshes + 1
  BY <1>7, <1>10, <1>11, <1>12, <1>13
<1> QED
  BY <1>2, <1>12, <1>14 DEF Attempts!LadderIsBounded

\* The signed addresses of an attempt never outlive it, and the list of attempts is bounded
\* whatever yt-dlp answers (worker.rs, the loop of run_media_worker_inner): for any hosts with
\* any number of profiles, and any number of renewals.
THEOREM LadderIsSafe == Spec => []LadderSafe
<1> DEFINE Inv == part = "attempts" => Attempts!LadderInv
<1>1. Init => Inv
  BY LadderStart DEF Init
<1>2. Inv /\ [Next]_vars => Inv'
  <2> SUFFICES ASSUME Inv, [Next]_vars, part' = "attempts"
               PROVE  Attempts!LadderInv'
    OBVIOUS
  <2>1. part = "attempts" /\ Attempts!LadderInv
    BY DEF Next, vars
  <2>2. Attempts!LadderNext \/ UNCHANGED <<x1, x2, x3, x4, x5, x6, x7, x8, x9, x10, x11, x12, x13>>
    BY <2>1 DEF Next, vars
  <2>3. CASE UNCHANGED <<x1, x2, x3, x4, x5, x6, x7, x8, x9, x10, x11, x12, x13>>
    <3>1. /\ Attempts!Least' = Attempts!Least /\ Attempts!Extras' = Attempts!Extras
          /\ Attempts!Failing' = Attempts!Failing /\ Attempts!Renewing' = Attempts!Renewing
      BY <2>3 DEF Attempts!Least, Attempts!Extras, Attempts!Failing, Attempts!Renewing, Attempts!Current
    <3>2. Attempts!LadderTypeOK' /\ Attempts!SignedFilesAreSpent' /\ Attempts!FilesAreOwn'
      BY <2>1, <2>3 DEF Attempts!LadderInv, Attempts!LadderTypeOK, Attempts!SignedFilesAreSpent,
                        Attempts!FilesAreOwn, Attempts!Current
    <3>3. Attempts!LadderIsPaid'
      BY <2>1, <2>3, <3>1 DEF Attempts!LadderInv, Attempts!LadderIsPaid
    <3> QED
      BY <3>2, <3>3 DEF Attempts!LadderInv
  <2>4. CASE Attempts!Starts \/ Attempts!Stopped \/ Attempts!Exits
    BY <2>1, <2>4, LadderSpends
  <2>5. CASE Attempts!Inserts
    BY <2>1, <2>5, LadderInserts
  <2>6. x7 \in 0..MaxRefreshes /\ x7 \in Nat /\ MaxRefreshes \in Nat /\ x12.count \in Nat
    BY <2>1, LadderAssumption DEF Attempts!LadderInv, Attempts!LadderTypeOK
  <2>7. CASE Attempts!Renewed
    <3> DEFINE e == Attempts!Attempt("renewed", x12.count + 1)
    <3>1. e \in Attempts!Tries /\ e.file = x12.count + 1
      BY <2>6 DEF Attempts!Tries, Attempts!Attempt
    <3>2. /\ x3' = Append(x3, e) /\ UNCHANGED <<x1, x4, x7, x9, x10>> /\ x5 = "renewing" /\ x5' = "choosing"
          /\ x12' = [there |-> x12.there \cup {x12.count + 1}, count |-> x12.count + 1]
      BY <2>7 DEF Attempts!Renewed, Attempts!counters
    <3> HIDE DEF e
    <3> QED
      BY <2>1, <3>1, <3>2, LadderAppends
  <2>8. CASE Attempts!NotRenewed \/ Attempts!GoesOn
    <3>1. /\ UNCHANGED <<x1, x4, x7, x10, x12>> /\ x5 \in {"failed_once", "renewing"} /\ x5' = "choosing"
          /\ Attempts!LastResort
      BY <2>8 DEF Attempts!NotRenewed, Attempts!GoesOn
    <3>2. CASE x3' = x3 /\ x9' = x9
      BY <2>1, <2>6, <3>1, <3>2, LadderRests
    <3>3. CASE ~(x3' = x3 /\ x9' = x9)
      <4> DEFINE e == Attempts!Attempt("page", 0)
      <4>1. e \in Attempts!Tries /\ e.file = 0
        BY DEF Attempts!Tries, Attempts!Attempt
      <4>2. x3' = Append(x3, e) /\ x9' = TRUE /\ ~x9
        BY <3>1, <3>3 DEF Attempts!LastResort
      <4>3. x9 = FALSE
        BY <2>1, <4>2 DEF Attempts!LadderInv, Attempts!LadderTypeOK
      <4> HIDE DEF e
      <4> QED
        BY <2>1, <3>1, <4>1, <4>2, <4>3, LadderAppends
    <3> QED
      BY <3>2, <3>3
  <2>9. CASE Attempts!Renews
    <3>1. /\ UNCHANGED <<x1, x3, x4, x9, x10, x12>> /\ x5 = "failed_once" /\ x5' = "renewing"
          /\ x7 < MaxRefreshes /\ x7' = x7 + 1
      BY <2>9 DEF Attempts!Renews, Attempts!MayRenew
    <3>2. x7' \in 0..MaxRefreshes /\ x7' >= x7
      BY <2>6, <3>1
    <3> QED
      BY <2>1, <3>1, <3>2, LadderRests
  <2>10. CASE \/ Attempts!GivesUp \/ Attempts!DropsCookies \/ Attempts!NeedsPerson
              \/ Attempts!Waits \/ Attempts!Waited \/ Attempts!Unwatched
    <3>1. /\ UNCHANGED <<x1, x3, x4, x7, x9, x10, x12>>
          /\ x5 \in {"running", "choosing", "failed_once", "waiting"}
          /\ x5' \in {"choosing", "failed", "unwatched", "intervention", "waiting", "stopped"}
          /\ x5 = "running" => x5' = "unwatched"
      BY <2>10 DEF Attempts!GivesUp, Attempts!DropsCookies, Attempts!NeedsPerson, Attempts!Waits,
                   Attempts!Waited, Attempts!Unwatched, Attempts!counters
    <3>2. x7' \in 0..MaxRefreshes /\ x7' >= x7 /\ x5' # "renewing"
      BY <2>6, <3>1
    <3> QED
      BY <2>1, <3>1, <3>2, LadderRests
  <2> QED
    BY <2>2, <2>3, <2>4, <2>5, <2>7, <2>8, <2>9, <2>10 DEF Attempts!LadderNext, Attempts!LadderSteps
<1>3. Inv => LadderSafe
  BY LadderBounded DEF LadderSafe, Attempts!LadderSafe, Attempts!LadderInv
<1> QED
  BY <1>1, <1>2, <1>3, PTL DEF Spec

----------------------------------------------------------------------------
(* the speed limit: see Bandwidth, whose theorems these instances use *)

LimitFacts == INSTANCE BandwidthProof WITH
    Jobs <- {1, 2}, job <- 1, Playlist <- {1, 2}, Readers <- {1}, Sequential <- TRUE,
    Second <- 4, MinRate <- 2, MaxRate <- 5, MinGrant <- 1, MaxGrant <- 2, Share <- 2,
    Offered <- {0, 5, 6}, Stored <- {2}, MaxClock <- 3, MaxPaid <- 3, MaxOps <- 4,
    general <- x1, own <- x2, writing <- x3, ops <- x4, clock <- x5, limiter <- x6, asked <- x7,
    reader <- x8, kept <- x9, cap <- x10, crossed <- x11
SegmentsFacts == INSTANCE BandwidthProof WITH
    Jobs <- {1}, job <- 1, Playlist <- {1}, Readers <- {1, 2}, Sequential <- FALSE,
    Second <- 4, MinRate <- 2, MaxRate <- 5, MinGrant <- 1, MaxGrant <- 2, Share <- 2,
    Offered <- {}, Stored <- {2, 5}, MaxClock <- 4, MaxPaid <- 4, MaxOps <- 2,
    general <- x1, own <- x2, writing <- x3, ops <- x4, clock <- x5, limiter <- x6, asked <- x7,
    reader <- x8, kept <- x9, cap <- x10, crossed <- x11

\* The instance of the transfer loop is the one the theorems of Bandwidth are about.
LEMMA LimitIsBandwidth ==
    /\ Limit!Bounds => LimitFacts!Bounds
    /\ Limit!Init => LimitFacts!Init
    /\ [Limit!Next]_(Limit!vars) => [LimitFacts!Next]_(LimitFacts!vars)
    /\ LimitFacts!TypeOK /\ LimitFacts!Paced /\ LimitFacts!CapHolds
           => Limit!TypeOK /\ Limit!Paced /\ Limit!CapHolds
<1>1. Limit!Bounds => LimitFacts!Bounds
  BY DEF Limit!Bounds, LimitFacts!Bounds
<1>2. Limit!Init => LimitFacts!Init
  BY DEF Limit!Init, LimitFacts!Init, Limit!NoLimiter, LimitFacts!NoLimiter, Limit!NoBytes,
         LimitFacts!NoBytes, Limit!Bytes, LimitFacts!Bytes, Limit!General,
         LimitFacts!General, Limit!Valid, LimitFacts!Valid
<1>3. Limit!vars = LimitFacts!vars /\ Limit!vars' = LimitFacts!vars'
  BY DEF Limit!vars, LimitFacts!vars, Limit!settings, LimitFacts!settings
<1>4. Limit!Next => LimitFacts!Next
  BY DEF Limit!Next, LimitFacts!Next, Limit!SaveGeneral, LimitFacts!SaveGeneral,
         Limit!SavePlaylist, LimitFacts!SavePlaylist, Limit!SaveOwn, LimitFacts!SaveOwn,
         Limit!PlaylistRow, LimitFacts!PlaylistRow, Limit!Launch, LimitFacts!Launch,
         Limit!Tick, LimitFacts!Tick, Limit!Turn, LimitFacts!Turn, Limit!Replace,
         LimitFacts!Replace, Limit!Keep, LimitFacts!Keep, Limit!Interrupted,
         LimitFacts!Interrupted, Limit!Ends, LimitFacts!Ends, Limit!Read, LimitFacts!Read,
         Limit!Command, LimitFacts!Command, Limit!SettingsOnly, LimitFacts!SettingsOnly,
         Limit!Recap, LimitFacts!Recap, Limit!Accepted, LimitFacts!Accepted, Limit!Valid,
         LimitFacts!Valid, Limit!General, LimitFacts!General, Limit!Policy,
         LimitFacts!Policy, Limit!InForce, LimitFacts!InForce, Limit!Fresh,
         LimitFacts!Fresh, Limit!Cap, LimitFacts!Cap, Limit!ReadGrant, LimitFacts!ReadGrant,
         Limit!Duration, LimitFacts!Duration, Limit!At, LimitFacts!At, Limit!Bytes,
         LimitFacts!Bytes, Limit!NoBytes, LimitFacts!NoBytes, Limit!Goto, LimitFacts!Goto,
         Limit!ReaderOnly, LimitFacts!ReaderOnly, Limit!NextTurn, LimitFacts!NextTurn,
         Limit!settings, LimitFacts!settings, Limit!vars, LimitFacts!vars
<1>5. LimitFacts!TypeOK /\ LimitFacts!Paced /\ LimitFacts!CapHolds
      => Limit!TypeOK /\ Limit!Paced /\ Limit!CapHolds
  BY DEF Limit!TypeOK, LimitFacts!TypeOK, Limit!Paced, LimitFacts!Paced, Limit!CapHolds,
         LimitFacts!CapHolds
<1> QED
  BY <1>1, <1>2, <1>3, <1>4, <1>5

\* The instance of two segments is the one the theorems of Bandwidth are about.
LEMMA SegmentsIsBandwidth ==
    /\ Segments!Bounds => SegmentsFacts!Bounds
    /\ Segments!Init => SegmentsFacts!Init
    /\ [Segments!Next]_(Segments!vars) => [SegmentsFacts!Next]_(SegmentsFacts!vars)
    /\ SegmentsFacts!TypeOK /\ SegmentsFacts!Paced /\ SegmentsFacts!CapHolds
           => Segments!TypeOK /\ Segments!Paced /\ Segments!CapHolds
<1>1. Segments!Bounds => SegmentsFacts!Bounds
  BY DEF Segments!Bounds, SegmentsFacts!Bounds
<1>2. Segments!Init => SegmentsFacts!Init
  BY DEF Segments!Init, SegmentsFacts!Init, Segments!NoLimiter, SegmentsFacts!NoLimiter,
         Segments!NoBytes, SegmentsFacts!NoBytes, Segments!Bytes, SegmentsFacts!Bytes,
         Segments!General, SegmentsFacts!General, Segments!Valid, SegmentsFacts!Valid
<1>3. Segments!vars = SegmentsFacts!vars /\ Segments!vars' = SegmentsFacts!vars'
  BY DEF Segments!vars, SegmentsFacts!vars, Segments!settings, SegmentsFacts!settings
<1>4. Segments!Next => SegmentsFacts!Next
  BY DEF Segments!Next, SegmentsFacts!Next, Segments!SaveGeneral, SegmentsFacts!SaveGeneral,
         Segments!SavePlaylist, SegmentsFacts!SavePlaylist, Segments!SaveOwn,
         SegmentsFacts!SaveOwn, Segments!PlaylistRow, SegmentsFacts!PlaylistRow,
         Segments!Launch, SegmentsFacts!Launch, Segments!Tick, SegmentsFacts!Tick,
         Segments!Turn, SegmentsFacts!Turn, Segments!Replace, SegmentsFacts!Replace,
         Segments!Keep, SegmentsFacts!Keep, Segments!Interrupted, SegmentsFacts!Interrupted,
         Segments!Ends, SegmentsFacts!Ends, Segments!Read, SegmentsFacts!Read,
         Segments!Command, SegmentsFacts!Command, Segments!SettingsOnly,
         SegmentsFacts!SettingsOnly, Segments!Recap, SegmentsFacts!Recap, Segments!Accepted,
         SegmentsFacts!Accepted, Segments!Valid, SegmentsFacts!Valid, Segments!General,
         SegmentsFacts!General, Segments!Policy, SegmentsFacts!Policy, Segments!InForce,
         SegmentsFacts!InForce, Segments!Fresh, SegmentsFacts!Fresh, Segments!Cap,
         SegmentsFacts!Cap, Segments!ReadGrant, SegmentsFacts!ReadGrant, Segments!Duration,
         SegmentsFacts!Duration, Segments!At, SegmentsFacts!At, Segments!Bytes,
         SegmentsFacts!Bytes, Segments!NoBytes, SegmentsFacts!NoBytes, Segments!Goto,
         SegmentsFacts!Goto, Segments!ReaderOnly, SegmentsFacts!ReaderOnly,
         Segments!NextTurn, SegmentsFacts!NextTurn, Segments!settings,
         SegmentsFacts!settings, Segments!vars, SegmentsFacts!vars
<1>5. SegmentsFacts!TypeOK /\ SegmentsFacts!Paced /\ SegmentsFacts!CapHolds
      => Segments!TypeOK /\ Segments!Paced /\ Segments!CapHolds
  BY DEF Segments!TypeOK, SegmentsFacts!TypeOK, Segments!Paced, SegmentsFacts!Paced,
         Segments!CapHolds, SegmentsFacts!CapHolds
<1> QED
  BY <1>1, <1>2, <1>3, <1>4, <1>5

\* No byte is kept before its turn, by the loop or by one of the segments, and the loop keeps to
\* the limit in force but for the one read under way (downloads/bandwidth.rs throttle_bytes,
\* downloads/worker.rs:1001).
THEOREM LimitIsSafe == Spec => []LimitSafe
<1> DEFINE Inv == /\ part = "limit" => LimitFacts!PacedInv /\ LimitFacts!LoopInv
                  /\ part = "segments" => SegmentsFacts!PacedInv /\ SegmentsFacts!LoopInv
<1>1. LimitFacts!Bounds /\ SegmentsFacts!Bounds
  BY LimitAssumption, LimitIsBandwidth, SegmentsIsBandwidth
<1>2. Init => Inv
  <2>1. Init => /\ part = "limit" => Limit!Init
                /\ part = "segments" => Segments!Init
    BY DEF Init
  <2> QED
    BY <1>1, <2>1, LimitIsBandwidth, SegmentsIsBandwidth, LimitFacts!PacedInit, LimitFacts!LoopInit,
       SegmentsFacts!PacedInit, SegmentsFacts!LoopInit
<1>3. Inv /\ [Next]_vars => Inv'
  <2> SUFFICES ASSUME Inv, [Next]_vars
               PROVE  Inv'
    OBVIOUS
  <2>1. part' = part
    BY DEF Next, vars
  <2>2. CASE part = "limit"
    <3>1. [Limit!Next]_(Limit!vars)
      BY <2>2 DEF Next, vars, Limit!vars, Limit!settings
    <3>2. [LimitFacts!Next]_(LimitFacts!vars)
      BY <3>1, LimitIsBandwidth
    <3> QED
      BY <1>1, <2>1, <2>2, <3>2, LimitFacts!PacedStep, LimitFacts!LoopStep
  <2>3. CASE part = "segments"
    <3>1. [Segments!Next]_(Segments!vars)
      BY <2>3 DEF Next, vars, Segments!vars, Segments!settings
    <3>2. [SegmentsFacts!Next]_(SegmentsFacts!vars)
      BY <3>1, SegmentsIsBandwidth
    <3> QED
      BY <1>1, <2>1, <2>3, <3>2, SegmentsFacts!PacedStep, SegmentsFacts!LoopStep
  <2> QED
    BY <2>1, <2>2, <2>3
<1>4. Inv => LimitSafe
  <2>1. ASSUME LimitFacts!PacedInv /\ LimitFacts!LoopInv
        PROVE  Limit!TypeOK /\ Limit!Paced /\ Limit!CapHolds
    BY <2>1, LimitIsBandwidth DEF LimitFacts!PacedInv, LimitFacts!LoopInv
  <2>2. ASSUME SegmentsFacts!PacedInv /\ SegmentsFacts!LoopInv
        PROVE  Segments!TypeOK /\ Segments!Paced /\ Segments!CapHolds
    BY <2>2, SegmentsIsBandwidth DEF SegmentsFacts!PacedInv, SegmentsFacts!LoopInv
  <2> QED
    BY <2>1, <2>2 DEF LimitSafe
<1> QED
  BY <1>2, <1>3, <1>4, PTL DEF Spec

----------------------------------------------------------------------------
(* the tools: see ToolOverlay and ToolCatalog *)

\* A store with the bundled tool only (tools/overlay.rs).
LEMMA OverlayStart == ASSUME Overlay!Init PROVE Overlay!OverlayInv
<1> USE DEF Overlay!None, Overlay!NoPointer
<1>1. x6 = Overlay!Idle /\ x8 = [Overlay!Resting EXCEPT !.pc = "lease"]
  BY DEF Overlay!Init
<1>2. Overlay!UpdaterTypeOK
  BY <1>1 DEF Overlay!UpdaterTypeOK, Overlay!Copying, Overlay!Writing, Overlay!Idle, Overlay!Resting
<1>3. x11 \in BOOLEAN /\ x13 \in BOOLEAN
  BY Zenon DEF Overlay!Init
<1>4. Overlay!TypeOK
  BY <1>3 DEF Overlay!Init, Overlay!TypeOK, Overlay!Contents, Overlay!Pointers
<1>5. Overlay!NamedAreWhole /\ Overlay!LateRepair /\ Overlay!SessionIsHeld
  BY DEF Overlay!Init, Overlay!NamedAreWhole, Overlay!LateRepair, Overlay!SessionIsHeld
<1>6. Overlay!NewIsUnnamed /\ Overlay!PreviousIsKnown /\ Overlay!WrittenStays
  BY DEF Overlay!Init, Overlay!Idle, Overlay!NewIsUnnamed, Overlay!PreviousIsKnown,
            Overlay!WrittenStays,
         Overlay!Copying, Overlay!Writing
<1> QED
  BY <1>2, <1>4, <1>5, <1>6 DEF Overlay!OverlayInv

\* A resolution repairs the store step by step, whatever the updater is doing (overlay.rs
\* recover_at); the tool of the session starts and ends.
LEMMA OverlayRepairs ==
    ASSUME Overlay!OverlayInv,
           Overlay!ResolveStarts \/ Overlay!Resolve \/ Overlay!ToolStarts \/ Overlay!ToolEnds
    PROVE  Overlay!OverlayInv'
<1> USE ToolsAssumption
    DEF Overlay!OverlayInv, Overlay!TypeOK, Overlay!UpdaterTypeOK, Overlay!NamedAreWhole,
        Overlay!LateRepair, Overlay!NewIsUnnamed, Overlay!PreviousIsKnown, Overlay!WrittenStays,
        Overlay!SessionIsHeld, Overlay!Target, Overlay!Copying, Overlay!Writing, Overlay!Pointers,
        Overlay!Contents, Overlay!NoPointer, Overlay!None, Overlay!UpdaterKeeps, Overlay!ResGoto,
        Overlay!store, Overlay!process, Overlay!history
<1>0. x11' \in BOOLEAN /\ x13' \in BOOLEAN
  BY Zenon DEF Overlay!ResolveStarts, Overlay!Resolve, Overlay!RecoverAsks, Overlay!RecoverStaging,
         Overlay!RecoverTemp, Overlay!RecoverLooks, Overlay!RecoverRenames, Overlay!RecoverDirs,
         Overlay!ResolveReads, Overlay!ToolStarts, Overlay!ToolEnds
<1>1. CASE Overlay!ResolveStarts
  BY <1>1 DEF Overlay!ResolveStarts
<1>2. CASE Overlay!RecoverAsks
  BY <1>2 DEF Overlay!RecoverAsks, Overlay!LeaseHeld
<1>3. CASE Overlay!RecoverStaging
  BY <1>3 DEF Overlay!RecoverStaging
<1>4. CASE Overlay!RecoverTemp
  <2>1. \/ x13' = TRUE
        \/ x13' = x13 /\ (x4 => x6.pc \notin {"away", "place"})
    BY <1>4 DEF Overlay!RecoverTemp
  <2>2. /\ x4' = FALSE /\ x8' = [x8 EXCEPT !.pc = "look"]
        /\ UNCHANGED <<x1, x2, x3, x5, x6, x7, x9, x10, x11, x12>>
    BY <1>4 DEF Overlay!RecoverTemp
  <2>3. Overlay!WrittenStays'
    BY <2>1, <2>2
  <2>4. Overlay!SessionIsHeld'
    BY <2>1, <2>2
  <2>5. Overlay!TypeOK'
    <3>1. Overlay!TypeOK
      OBVIOUS
    <3> HIDE DEF Overlay!OverlayInv, Overlay!UpdaterTypeOK, Overlay!NamedAreWhole, Overlay!LateRepair,
                 Overlay!NewIsUnnamed, Overlay!PreviousIsKnown, Overlay!WrittenStays,
                 Overlay!SessionIsHeld,
                 Overlay!Pointers, Overlay!Contents
    <3> QED
      BY <1>0, <2>2, <3>1
  <2>7. Overlay!UpdaterTypeOK'
    BY <2>2
  <2>6. Overlay!NamedAreWhole' /\ Overlay!LateRepair' /\ Overlay!NewIsUnnamed'
            /\ Overlay!PreviousIsKnown'
    BY <2>2
  <2> QED
    BY <2>3, <2>4, <2>5, <2>6, <2>7
<1>5. CASE Overlay!RecoverLooks
  BY <1>5 DEF Overlay!RecoverLooks
<1>6. CASE Overlay!RecoverRenames
  <2>1. CASE x8.missing /\ x3 # Overlay!NoPointer
    <3>1. /\ x2' = x3 /\ x3' = Overlay!NoPointer /\ UNCHANGED <<x1, x4, x5, x6, x7, x9, x10, x11,
              x12>>
          /\ x8' = [x8 EXCEPT !.pc = "dirs"] /\ (x13' <=> x13 \/ x2 # Overlay!NoPointer)
      BY <1>6, <2>1 DEF Overlay!RecoverRenames
    <3>2. x2 # Overlay!NoPointer => x6.pc = "tidy"
      BY <2>1
    <3>3. Overlay!PreviousIsKnown'
      BY <2>1, <3>1, <3>2
    <3>4. Overlay!WrittenStays' /\ Overlay!SessionIsHeld'
      BY <2>1, <3>1, <3>2
    <3> QED
      BY <1>0, <2>1, <3>1, <3>2, <3>3, <3>4
  <2>2. CASE ~(x8.missing /\ x3 # Overlay!NoPointer)
    BY <1>0, <1>6, <2>2 DEF Overlay!RecoverRenames
  <2> QED
    BY <2>1, <2>2
<1>7. CASE Overlay!RecoverDirs
  BY <1>7 DEF Overlay!RecoverDirs, Overlay!Repaired
<1>8. CASE Overlay!ResolveReads
  BY <1>8 DEF Overlay!ResolveReads, Overlay!Resolved, Overlay!ValidPointer, Overlay!Resting
<1>9. CASE Overlay!ToolStarts \/ Overlay!ToolEnds
  <2>1. UNCHANGED <<x1, x2, x3, x4, x5, x6, x7, x8, x9, x10, x12, x13>>
    BY <1>9 DEF Overlay!ToolStarts, Overlay!ToolEnds
  <2> QED
    BY <1>0, <2>1
<1> QED
  BY <1>1, <1>2, <1>3, <1>4, <1>5, <1>6, <1>7, <1>8, <1>9 DEF Overlay!Resolve

\* What is staged is in no pointer (tools/download.rs).
LEMMA OverlayStages ==
    ASSUME Overlay!OverlayInv,
           \/ Overlay!UpdateStarts \/ Overlay!StageBegin \/ Overlay!StageFails \/ Overlay!StageFetched
           \/ Overlay!StageRename \/ Overlay!StageProbe \/ Overlay!StageCommit
    PROVE  Overlay!OverlayInv'
<1> USE ToolsAssumption
    DEF Overlay!OverlayInv, Overlay!TypeOK, Overlay!UpdaterTypeOK, Overlay!NamedAreWhole,
        Overlay!LateRepair, Overlay!NewIsUnnamed, Overlay!PreviousIsKnown, Overlay!WrittenStays,
        Overlay!SessionIsHeld, Overlay!Copying, Overlay!Writing, Overlay!Pointers,
        Overlay!Contents, Overlay!NoPointer, Overlay!None, Overlay!Others, Overlay!Goto, Overlay!Fail,
        Overlay!store, Overlay!process, Overlay!Idle
<1>1. CASE Overlay!UpdateStarts
  <2>1. PICK v \in ToolVersions : x6' = [Overlay!Idle EXCEPT !.pc = "stage", !.v = v]
    BY <1>1 DEF Overlay!UpdateStarts
  <2>2. Overlay!UpdaterTypeOK' /\ x6'.pc = "stage" /\ ~x6'.restore
    BY <1>1, <2>1 DEF Overlay!UpdateStarts
  <2>3. UNCHANGED <<x1, x2, x3, x4, x5, x7, x8, x9, x10, x11, x12, x13>> /\ x6.pc = "idle"
    BY <1>1 DEF Overlay!UpdateStarts
  <2>4. Overlay!TypeOK' /\ Overlay!NamedAreWhole' /\ Overlay!LateRepair'
    BY <2>2, <2>3
  <2>5. Overlay!NewIsUnnamed' /\ Overlay!PreviousIsKnown' /\ Overlay!WrittenStays'
    BY <2>2, <2>3
  <2>6. Overlay!SessionIsHeld'
    BY <2>2, <2>3
  <2> QED
    BY <2>2, <2>4, <2>5, <2>6
<1>2. CASE Overlay!StageBegin \/ Overlay!StageFetched \/ Overlay!StageRename \/ Overlay!StageProbe
  BY <1>2 DEF Overlay!StageBegin, Overlay!StageFetched, Overlay!StageRename, Overlay!StageProbe
<1>3. CASE Overlay!StageFails
  BY <1>3 DEF Overlay!StageFails
<1>4. CASE Overlay!StageCommit
  <2>1. CASE x5 = "json.part"
    BY <1>4, <2>1 DEF Overlay!StageCommit
  <2>2. CASE x5 # "json.part"
    <3>1. /\ x6' = Overlay!Idle /\ x7' = [state |-> "failed", v |-> x6.v] /\ x5' = "none"
          /\ UNCHANGED <<x1, x2, x3, x4, x8, x9, x10, x11, x12, x13>> /\ x6.pc = "stageJson"
      BY <1>4, <2>2 DEF Overlay!StageCommit
    <3> QED
      BY <3>1
  <2> QED
    BY <2>1, <2>2
<1> QED
  BY <1>1, <1>2, <1>3, <1>4


\* An update that fails before the pointer is written leaves the pointer alone.
LEMMA OverlayFails ==
    ASSUME Overlay!OverlayInv,
           x6.pc \in {"promote", "mkdir", "health"} \cup Overlay!Copying,
           x6' = Overlay!Idle, x7' = [state |-> "failed", v |-> x6.v],
           UNCHANGED <<x2, x3, x4, x5, x8, x9, x10, x11, x12, x13>>,
           x6.pc # "health" => x1' = x1,
           x1' \in [ToolVersions -> Overlay!Contents], \A v \in ToolVersions \ {x6.v} : x1'[v] = x1[v]
    PROVE  Overlay!OverlayInv'
<1> USE ToolsAssumption
    DEF Overlay!Idle, Overlay!OverlayInv, Overlay!TypeOK, Overlay!UpdaterTypeOK,
              Overlay!NamedAreWhole,
        Overlay!LateRepair, Overlay!NewIsUnnamed, Overlay!PreviousIsKnown, Overlay!WrittenStays,
        Overlay!SessionIsHeld, Overlay!Copying, Overlay!Writing, Overlay!Pointers,
        Overlay!Contents, Overlay!NoPointer, Overlay!None
<1>1. x6.v \in ToolVersions /\ ~x6.restore
  OBVIOUS
<1>2. Overlay!TypeOK' /\ Overlay!UpdaterTypeOK'
  <2>1. Overlay!TypeOK'
    <3>1. Overlay!TypeOK
      OBVIOUS
    <3> HIDE DEF Overlay!OverlayInv, Overlay!UpdaterTypeOK, Overlay!NamedAreWhole, Overlay!LateRepair,
                 Overlay!NewIsUnnamed, Overlay!PreviousIsKnown, Overlay!WrittenStays,
                 Overlay!SessionIsHeld,
                 Overlay!Pointers, Overlay!Contents
    <3> QED
      BY <1>1, <3>1
  <2>2. Overlay!UpdaterTypeOK'
    BY <1>1
  <2> QED
    BY <2>1, <2>2
<1>3. Overlay!NamedAreWhole' /\ Overlay!LateRepair'
  BY <1>1
<1>4. Overlay!NewIsUnnamed' /\ Overlay!PreviousIsKnown' /\ Overlay!WrittenStays'
  OBVIOUS
<1>5. Overlay!SessionIsHeld'
  BY <1>1
<1> QED
  BY <1>2, <1>3, <1>4, <1>5

\* The promotion repairs the store once more and learns the version before (overlay.rs promote_at).
LEMMA OverlayPromotes == ASSUME Overlay!OverlayInv, Overlay!PromoteBegins PROVE Overlay!OverlayInv'
<1>1. CASE Overlay!Fail /\ UNCHANGED Overlay!store
  <2>1. /\ x6.pc = "promote" /\ x6' = Overlay!Idle /\ x7' = [state |-> "failed", v |-> x6.v]
        /\ UNCHANGED <<x2, x3, x4, x5, x8, x9, x10, x11, x12, x13>> /\ x1' = x1
    BY <1>1 DEF Overlay!PromoteBegins, Overlay!Fail, Overlay!store, Overlay!Others, Overlay!process
  <2>2. /\ x1' \in [ToolVersions -> Overlay!Contents]
        /\ \A v \in ToolVersions \ {x6.v} : x1'[v] = x1[v]
    BY <2>1 DEF Overlay!OverlayInv, Overlay!TypeOK, Overlay!Contents
  <2> QED
    BY <2>1, <2>2, OverlayFails
<1>2. CASE ~(Overlay!Fail /\ UNCHANGED Overlay!store)
  <2> USE ToolsAssumption
    DEF Overlay!OverlayInv, Overlay!TypeOK, Overlay!UpdaterTypeOK, Overlay!NamedAreWhole,
        Overlay!LateRepair, Overlay!NewIsUnnamed, Overlay!PreviousIsKnown, Overlay!WrittenStays,
        Overlay!SessionIsHeld, Overlay!Target, Overlay!Copying, Overlay!Writing, Overlay!Pointers,
        Overlay!Contents, Overlay!NoPointer, Overlay!None
  <2>1. /\ x4' = FALSE /\ x1' = Overlay!Repaired /\ x6.pc = "promote"
        /\ \/ x2 = Overlay!NoPointer /\ x3 # Overlay!NoPointer /\ x2' = x3 /\ x3' = Overlay!NoPointer
           \/ (x2 = Overlay!NoPointer => x3 = Overlay!NoPointer) /\ x2' = x2 /\ x3' = x3
        /\ UNCHANGED <<x5, x8, x9, x10, x11, x12, x13>>
    BY <1>2 DEF Overlay!PromoteBegins, Overlay!Others, Overlay!process
  <2>2. /\ x1' \in [ToolVersions -> Overlay!Contents]
        /\ \A v \in ToolVersions : x1[v] = "full" => x1'[v] = "full"
    BY <2>1 DEF Overlay!Repaired
  <2>3. /\ x2' \in Overlay!Pointers /\ x3' \in Overlay!Pointers
        /\ x2' = Overlay!NoPointer => x3' = Overlay!NoPointer
        /\ ~x6.restore /\ x6.v \in ToolVersions
    BY <2>1
  <2>4. \/ x6' = Overlay!Idle /\ x7' = [state |-> "failed", v |-> x6.v]
        \/ x6' = [x6 EXCEPT !.pc = "mkdir", !.prev = x2'.version] /\ x7' = x7
    BY <1>2, <2>1 DEF Overlay!PromoteBegins, Overlay!Fail
  <2>5. Overlay!NamedAreWhole' /\ Overlay!LateRepair'
    <3>1. Overlay!NamedAreWhole'
      <4>1. /\ x2' # Overlay!NoPointer => x2' \in {x2, x3}
            /\ x3' # Overlay!NoPointer => x3' \in {x2, x3}
        BY <2>1
      <4>2. \A pointer \in {x2, x3} :
                pointer # Overlay!NoPointer => pointer.version \in ToolVersions
                          /\ x1'[pointer.version] = "full"
        BY <2>2
      <4> QED
        BY <4>1, <4>2
    <3>2. Overlay!LateRepair'
      BY <2>1
    <3> QED
      BY <3>1, <3>2
  <2>6. /\ Overlay!UpdaterTypeOK' /\ x6'.pc \in {"idle", "mkdir"} /\ ~x6'.restore
        /\ x6'.pc = "mkdir" => x6'.prev = x2'.version
        /\ x6'.pc = "idle" => x7'.state = "failed"
    <3>1. CASE x6' = Overlay!Idle /\ x7' = [state |-> "failed", v |-> x6.v]
      BY <2>1, <2>4, <3>1 DEF Overlay!Idle
    <3>2. CASE x6' = [x6 EXCEPT !.pc = "mkdir", !.prev = x2'.version]
      <4>1. x2'.version \in ToolVersions \cup {0}
        BY <2>3
      <4>2. x6' \in [pc : {"mkdir"}, v : {x6.v}, prev : {x2'.version}, had : BOOLEAN,
                restore : {x6.restore}]
        BY <3>2
      <4> QED
        BY <2>1, <2>3, <4>1, <4>2
    <3> QED
      BY <2>4, <3>1, <3>2
  <2>7. Overlay!TypeOK'
    <3>1. x7' \in [state : {"none", "failed", "updated"}, v : ToolVersions \cup {0}]
      BY <2>3, <2>4
    <3> QED
      BY <2>1, <2>2, <2>3, <3>1
  <2>8. Overlay!NewIsUnnamed' /\ Overlay!PreviousIsKnown'
    BY <2>3, <2>6
  <2>9. Overlay!WrittenStays'
    BY <2>6
  <2>10. Overlay!SessionIsHeld'
    BY <2>1, <2>2, <2>6
  <2> QED
    BY <2>5, <2>6, <2>7, <2>8, <2>9, <2>10
<1> QED
  BY <1>1, <1>2

\* The copy goes into a directory that no pointer names (overlay.rs copy_artifact).
LEMMA OverlayCopies ==
    ASSUME Overlay!OverlayInv,
           \/ Overlay!CopyDirectory \/ Overlay!CopyExecutable \/ Overlay!CopyRename
           \/ Overlay!CopyMetadata \/ Overlay!CopyCommit
    PROVE  Overlay!OverlayInv'
<1> USE DEF Overlay!Copy, Overlay!CopyDirectory, Overlay!CopyExecutable, Overlay!CopyRename,
            Overlay!CopyMetadata, Overlay!CopyCommit, Overlay!Others, Overlay!process, Overlay!Copying
<1>1. CASE Overlay!Fail /\ x1' = x1
  <2>1. /\ x6.pc \in {"mkdir"} \cup Overlay!Copying
        /\ x6' = Overlay!Idle /\ x7' = [state |-> "failed", v |-> x6.v]
        /\ UNCHANGED <<x2, x3, x4, x5, x8, x9, x10, x11, x12, x13>> /\ x1' = x1
    BY <1>1 DEF Overlay!Fail
  <2>2. /\ x1' \in [ToolVersions -> Overlay!Contents]
        /\ \A v \in ToolVersions \ {x6.v} : x1'[v] = x1[v]
    BY <2>1 DEF Overlay!OverlayInv, Overlay!TypeOK, Overlay!Contents
  <2> QED
    BY <2>1, <2>2, OverlayFails
<1>2. CASE ~(Overlay!Fail /\ x1' = x1)
  <2>1. /\ x6.pc \in {"mkdir"} \cup Overlay!Copying /\ x7' = x7
        /\ UNCHANGED <<x2, x3, x4, x5, x8, x9, x10, x11, x12, x13>>
    BY <1>2
  <2>2. PICK to \in {"dir", "exe.tmp", "exe", "json.tmp", "full"},
            target \in Overlay!Copying \cup {"health"} :
            /\ x1[x6.v] # "full" /\ x1' = [x1 EXCEPT ![x6.v] = to] /\ x6' = [x6 EXCEPT !.pc = target]
            /\ x6.pc = "mkdir" => x1[x6.v] = "none"
            /\ target = "health" => to = "full"
    BY <1>2 DEF Overlay!Goto
  <2> USE ToolsAssumption
    DEF Overlay!OverlayInv, Overlay!TypeOK, Overlay!UpdaterTypeOK, Overlay!NamedAreWhole,
        Overlay!LateRepair, Overlay!NewIsUnnamed, Overlay!PreviousIsKnown, Overlay!WrittenStays,
        Overlay!SessionIsHeld, Overlay!Target, Overlay!Copying, Overlay!Writing, Overlay!Pointers,
        Overlay!Contents, Overlay!NoPointer, Overlay!None
  <2>3. ~x6.restore /\ x6.v \in ToolVersions
    BY <2>1
  <2>4. Overlay!TypeOK' /\ Overlay!UpdaterTypeOK'
    BY <2>1, <2>2, <2>3
  <2>5. Overlay!NamedAreWhole' /\ Overlay!LateRepair'
    BY <2>1, <2>2, <2>3
  <2>6. Overlay!NewIsUnnamed'
    BY <2>1, <2>2, <2>3
  <2>7. Overlay!PreviousIsKnown' /\ Overlay!WrittenStays'
    BY <2>1, <2>2, <2>3
  <2>8. Overlay!SessionIsHeld'
    BY <2>1, <2>2, <2>3
  <2> QED
    BY <2>4, <2>5, <2>6, <2>7, <2>8
<1> QED
  BY <1>1, <1>2

\* The probe of a complete version, and its removal when it fails.
LEMMA OverlayChecks == ASSUME Overlay!OverlayInv, Overlay!HealthCheck PROVE Overlay!OverlayInv'
<1>1. CASE Overlay!Fail /\ x1' = Overlay!Removed(x6.v)
  <2>1. /\ x6.pc = "health" /\ x1' = [x1 EXCEPT ![x6.v] = "none"]
        /\ x6' = Overlay!Idle /\ x7' = [state |-> "failed", v |-> x6.v]
        /\ UNCHANGED <<x2, x3, x4, x5, x8, x9, x10, x11, x12, x13>>
    BY <1>1 DEF Overlay!HealthCheck, Overlay!Fail, Overlay!Removed, Overlay!Others, Overlay!process
  <2>2. /\ x1' \in [ToolVersions -> Overlay!Contents]
        /\ \A v \in ToolVersions \ {x6.v} : x1'[v] = x1[v]
    BY <2>1 DEF Overlay!OverlayInv, Overlay!TypeOK, Overlay!Contents
  <2> QED
    BY <2>1, <2>2, OverlayFails
<1>2. CASE ~(Overlay!Fail /\ x1' = Overlay!Removed(x6.v))
  <2>1. /\ x6' = [x6 EXCEPT !.pc = "writeTemp"] /\ x6.pc = "health"
        /\ UNCHANGED <<x1, x2, x3, x4, x5, x7, x8, x9, x10, x11, x12, x13>>
    BY <1>2 DEF Overlay!HealthCheck, Overlay!Goto, Overlay!Others, Overlay!process
  <2> QED
    BY <2>1, ToolsAssumption
    DEF Overlay!OverlayInv, Overlay!TypeOK, Overlay!UpdaterTypeOK, Overlay!NamedAreWhole,
        Overlay!LateRepair, Overlay!NewIsUnnamed, Overlay!PreviousIsKnown, Overlay!WrittenStays,
        Overlay!SessionIsHeld, Overlay!Copying, Overlay!Writing, Overlay!Pointers,
        Overlay!Contents, Overlay!NoPointer, Overlay!None
<1> QED
  BY <1>1, <1>2

\* The writing of the pointer, but for the rename that places it (overlay.rs atomic_write_active).
LEMMA OverlayWrites ==
    ASSUME Overlay!OverlayInv, Overlay!PointerTemp \/ Overlay!PointerAway \/ Overlay!PointerTidy
    PROVE  Overlay!OverlayInv'
<1> USE ToolsAssumption
    DEF Overlay!OverlayInv, Overlay!TypeOK, Overlay!UpdaterTypeOK, Overlay!NamedAreWhole,
        Overlay!LateRepair, Overlay!NewIsUnnamed, Overlay!PreviousIsKnown, Overlay!WrittenStays,
        Overlay!SessionIsHeld, Overlay!Target, Overlay!Copying, Overlay!Writing, Overlay!Pointers,
        Overlay!Contents, Overlay!NoPointer, Overlay!None, Overlay!Others, Overlay!Goto, Overlay!Fail,
        Overlay!Idle, Overlay!process
<1>1. CASE Overlay!PointerTemp
  BY <1>1 DEF Overlay!PointerTemp
<1>2. CASE Overlay!PointerAway
  <2>1. /\ x3' = x2 /\ x2' = Overlay!NoPointer /\ x6.pc = "away"
        /\ x6' \in [pc : {"place"}, v : {x6.v}, prev : {x6.prev}, had : BOOLEAN,
                  restore : {x6.restore}]
        /\ UNCHANGED <<x1, x4, x5, x7, x8, x9, x10, x11, x12, x13>>
    BY <1>2 DEF Overlay!PointerAway
  <2> QED
    BY <2>1
<1>3. CASE Overlay!PointerTidy
  <2>1. x3' = Overlay!NoPointer /\ UNCHANGED <<x1, x2, x4, x5, x8, x9, x10, x11, x12, x13>>
            /\ x6.pc = "tidy"
    BY <1>3 DEF Overlay!PointerTidy
  <2>2. CASE x6.restore
    <3>1. x6' = Overlay!Idle /\ x7' = [state |-> "failed", v |-> x6.v]
      BY <1>3, <2>2 DEF Overlay!PointerTidy
    <3> QED
      BY <2>1, <2>2, <3>1
  <2>3. CASE ~x6.restore
    <3>1. x6' = [x6 EXCEPT !.pc = "secondHealth"] /\ x7' = x7
      BY <1>3, <2>3 DEF Overlay!PointerTidy
    <3> QED
      BY <2>1, <2>3, <3>1
  <2> QED
    BY <2>2, <2>3
<1> QED
  BY <1>1, <1>2, <1>3

\* The rename places the pointer, or a repair has taken the file and the old one comes back.
LEMMA OverlayPlaces == ASSUME Overlay!OverlayInv, Overlay!PointerPlace PROVE Overlay!OverlayInv'
<1> USE ToolsAssumption
    DEF Overlay!OverlayInv, Overlay!TypeOK, Overlay!UpdaterTypeOK, Overlay!NamedAreWhole,
        Overlay!LateRepair, Overlay!NewIsUnnamed, Overlay!PreviousIsKnown, Overlay!WrittenStays,
        Overlay!SessionIsHeld, Overlay!Target, Overlay!Copying, Overlay!Writing, Overlay!Pointers,
        Overlay!Contents, Overlay!NoPointer, Overlay!None
<1>1. x6.pc = "place" /\ x6.v \in ToolVersions /\ UNCHANGED <<x5, x8, x9, x10, x11, x12, x13>>
          /\ x4' = FALSE
  BY DEF Overlay!PointerPlace, Overlay!Others, Overlay!process
<1>2. CASE x4
  <2>1. /\ x2' = Overlay!Target /\ x6' = [x6 EXCEPT !.pc = "tidy"] /\ UNCHANGED <<x1, x3, x7>>
    BY <1>2 DEF Overlay!PointerPlace, Overlay!Goto
  <2>2. Overlay!Target \in Overlay!Pointers /\ Overlay!Target.version \in ToolVersions
    BY <1>1
  <2>3. Overlay!TypeOK'
    <3>1. Overlay!TypeOK
      OBVIOUS
    <3> HIDE DEF Overlay!OverlayInv, Overlay!UpdaterTypeOK, Overlay!NamedAreWhole, Overlay!LateRepair,
                 Overlay!NewIsUnnamed, Overlay!PreviousIsKnown, Overlay!WrittenStays,
                 Overlay!SessionIsHeld,
                 Overlay!Pointers, Overlay!Contents, Overlay!Target
    <3> QED
      BY <1>1, <2>1, <2>2, <3>1
  <2>7. Overlay!UpdaterTypeOK'
    BY <1>1, <2>1
  <2>4. Overlay!NamedAreWhole' /\ Overlay!LateRepair' /\ Overlay!NewIsUnnamed'
    BY <1>1, <2>1, <2>2
  <2>5. Overlay!PreviousIsKnown' /\ Overlay!WrittenStays'
    BY <1>1, <2>1, <2>2
  <2>6. Overlay!SessionIsHeld'
    BY <1>1, <2>1
  <2> QED
    BY <2>3, <2>4, <2>5, <2>6, <2>7
<1>3. CASE ~x4
  <2>1. x6' = Overlay!Idle /\ x7' = [state |-> "failed", v |-> x6.v] /\ x13
    BY <1>1, <1>3 DEF Overlay!PointerPlace, Overlay!Fail
  <2>2. /\ x2' \in {x2, x3, Overlay!NoPointer} /\ x3' \in {x3, Overlay!NoPointer}
        /\ x3' # Overlay!NoPointer => x2' = Overlay!NoPointer
        /\ IF x6.restore THEN x1' = x1 ELSE x1' = [x1 EXCEPT ![x6.v] = "none"]
    BY <1>1, <1>3 DEF Overlay!PointerPlace, Overlay!Removed
  <2>3. /\ x1' \in [ToolVersions -> Overlay!Contents]
        /\ \A v \in ToolVersions : x1'[v] = x1[v] \/ (v = x6.v /\ ~x6.restore)
    BY <1>1, <2>2
  <2>8. x2' \in Overlay!Pointers /\ x3' \in Overlay!Pointers
    BY <2>2
  <2>9. x7' \in [state : {"none", "failed", "updated"}, v : ToolVersions \cup {0}]
    BY <1>1, <2>1
  <2>4. Overlay!TypeOK'
    BY <1>1, <2>3, <2>8, <2>9
  <2>5. Overlay!UpdaterTypeOK'
    BY <1>1, <2>1 DEF Overlay!Idle
  <2>6. Overlay!NamedAreWhole'
    <3>1. ASSUME NEW pointer \in {x2, x3}, pointer # Overlay!NoPointer
          PROVE  pointer.version \in ToolVersions /\ x1'[pointer.version] = "full"
      <4>1. pointer.version \in ToolVersions /\ x1[pointer.version] = "full"
        BY <3>1
      <4>2. pointer.version = x6.v => x6.restore
        BY <1>1, <3>1
      <4> QED
        BY <4>1, <4>2, <2>3
    <3> QED
      BY <3>1, <2>2
  <2>10. Overlay!LateRepair'
    BY <1>1, <2>2
  <2>7. Overlay!NewIsUnnamed' /\ Overlay!PreviousIsKnown' /\ Overlay!WrittenStays'
            /\ Overlay!SessionIsHeld'
    BY <1>1, <2>1 DEF Overlay!Idle
  <2> QED
    BY <2>4, <2>5, <2>6, <2>7, <2>10
<1> QED
  BY <1>2, <1>3

\* The second probe, what is retained, and a crash.
LEMMA OverlaySettles ==
    ASSUME Overlay!OverlayInv, Overlay!SecondHealth \/ Overlay!Retain \/ Overlay!Crash
    PROVE  Overlay!OverlayInv'
<1> USE ToolsAssumption
    DEF Overlay!OverlayInv, Overlay!TypeOK, Overlay!UpdaterTypeOK, Overlay!NamedAreWhole,
        Overlay!LateRepair, Overlay!NewIsUnnamed, Overlay!PreviousIsKnown, Overlay!WrittenStays,
        Overlay!SessionIsHeld, Overlay!Target, Overlay!Copying, Overlay!Writing, Overlay!Pointers,
        Overlay!Contents, Overlay!NoPointer, Overlay!None, Overlay!Others, Overlay!process
<1>1. CASE Overlay!SecondHealth
  <2>1. /\ x6.pc = "secondHealth" /\ ~x6.restore /\ x6.v \in ToolVersions /\ x3 = Overlay!NoPointer
        /\ UNCHANGED <<x1, x3, x4, x5, x8, x9, x10, x11, x12, x13>>
    BY <1>1 DEF Overlay!SecondHealth
  <2>2. CASE x6' = [x6 EXCEPT !.pc = "retain"] /\ UNCHANGED <<x2, x7>>
    BY <2>1, <2>2
  <2>3. CASE /\ x6' = [x6 EXCEPT !.pc = "writeTemp", !.restore = TRUE] /\ UNCHANGED <<x2, x7>>
             /\ Overlay!Restorable
    <3>1. /\ x6' \in [pc : {"writeTemp"}, v : {x6.v}, prev : {x6.prev}, had : BOOLEAN,
              restore : {TRUE}]
          /\ x6.prev # 0 /\ x1[x6.prev] = "full"
      BY <2>3 DEF Overlay!Restorable
    <3>2. x6'.pc = "writeTemp" /\ x6'.prev = x6.prev /\ x6'.v = x6.v /\ x6'.restore = TRUE
      BY <3>1
    <3>3. Overlay!TypeOK'
      BY <2>1, <2>3
    <3>6. Overlay!UpdaterTypeOK'
      BY <2>1, <3>1
    <3>4. Overlay!NamedAreWhole' /\ Overlay!LateRepair' /\ Overlay!NewIsUnnamed'
      BY <2>1, <2>3, <3>2
    <3>5. Overlay!PreviousIsKnown' /\ Overlay!WrittenStays' /\ Overlay!SessionIsHeld'
      BY <2>1, <2>3, <3>1, <3>2
    <3> QED
      BY <3>3, <3>4, <3>5, <3>6
  <2>4. CASE /\ x6' = Overlay!Idle /\ x7' = [state |-> "failed", v |-> x6.v]
             /\ x2' = Overlay!NoPointer /\ ~Overlay!Restorable
    <3>1. Overlay!TypeOK' /\ Overlay!UpdaterTypeOK'
      BY <2>1, <2>4 DEF Overlay!Idle
    <3>2. Overlay!NamedAreWhole' /\ Overlay!LateRepair' /\ Overlay!NewIsUnnamed'
      BY <2>1, <2>4 DEF Overlay!Idle
    <3>3. Overlay!PreviousIsKnown' /\ Overlay!WrittenStays'
      BY <2>1, <2>4 DEF Overlay!Idle
    <3>4. Overlay!SessionIsHeld'
      BY <2>1, <2>4 DEF Overlay!Idle, Overlay!Restorable
    <3> QED
      BY <3>1, <3>2, <3>3, <3>4
  <2> QED
    BY <1>1, <2>2, <2>3, <2>4 DEF Overlay!SecondHealth, Overlay!Goto, Overlay!Fail
<1>2. CASE Overlay!Retain
  BY <1>2 DEF Overlay!Retain, Overlay!Idle
<1>3. CASE Overlay!Crash
  <2>1. /\ x6' = Overlay!Idle /\ x7' = [state |-> "none", v |-> 0]
            /\ x8' = [pc |-> "lease", missing |-> FALSE]
        /\ x10' = -1 /\ x11' = FALSE /\ x12' = 0
        /\ UNCHANGED <<x1, x2, x3, x4, x5, x9, x13>>
    BY <1>3 DEF Overlay!Crash, Overlay!store, Overlay!Resting
  <2>2. Overlay!TypeOK'
    BY <2>1
  <2>3. Overlay!UpdaterTypeOK'
    BY <2>1 DEF Overlay!Idle
  <2> QED
    BY <2>1, <2>2, <2>3 DEF Overlay!Idle
<1> QED
  BY <1>1, <1>2, <1>3

\* The invariant has what is promised of the store.
LEMMA OverlayKeepsTools ==
    ASSUME Overlay!OverlayInv
    PROVE  /\ Overlay!TypeOK /\ Overlay!PointerIsWhole /\ Overlay!SessionToolKept
              /\ Overlay!ReportedIsActive
  BY ToolsAssumption
  DEF Overlay!OverlayInv, Overlay!NamedAreWhole, Overlay!WrittenStays, Overlay!SessionIsHeld,
      Overlay!PointerIsWhole, Overlay!SessionToolKept, Overlay!ReportedIsActive

\* The steps at which a file is placed, one by one.
LEMMA PlacingSteps ==
    /\ {Catalog!Placing[f] : f \in Catalog!Files} = {"placeCurrent", "placeMetadata", "placeSequence"}
    /\ Catalog!Placing["current"] = "placeCurrent" /\ Catalog!Placing["metadata"] = "placeMetadata"
    /\ Catalog!Placing["sequence"] = "placeSequence"
<1>1. /\ Catalog!Placing["current"] = "placeCurrent" /\ Catalog!Placing["metadata"] = "placeMetadata"
      /\ Catalog!Placing["sequence"] = "placeSequence"
  BY DEF Catalog!Placing
<1> QED
  BY <1>1 DEF Catalog!Files

\* Nothing is cached, nothing was accepted (tools/catalog.rs).
LEMMA CatalogStart == Catalog!Init => Catalog!CatalogInv
<1> SUFFICES ASSUME Catalog!Init PROVE Catalog!CatalogInv
  OBVIOUS
<1> USE ToolsAssumption
    DEF Catalog!Init, Catalog!Sequences, Catalog!Absent, Catalog!Files
<1>1. Catalog!TypeOK
  <2>1. x1 \in [Catalog!Files -> 0 .. MaxSequence] /\ x2 \in [Catalog!Files -> 0 .. MaxSequence]
    OBVIOUS
  <2>2. {x6, x7, x8, x10} \subseteq 0 .. MaxSequence /\ x3 \in 1 .. MaxSequence
    OBVIOUS
  <2> QED
    BY <2>1, <2>2 DEF Catalog!TypeOK
<1>2. \A f \in Catalog!Files : f # Catalog!Placing[f] /\ x4 # Catalog!Placing[f]
  BY DEF Catalog!Placing
<1>3. Catalog!Highest = 0
  BY DEF Catalog!Highest, Catalog!Larger, Catalog!Cache
<1>4. Catalog!WitnessIsLeft
  BY <1>3 DEF Catalog!WitnessIsLeft
<1>5. Catalog!Undisturbed
  BY <1>2 DEF Catalog!Undisturbed
<1> QED
  BY <1>1, <1>4, <1>5 DEF Catalog!CatalogInv, Catalog!NoRollback

\* A check reads both witnesses.
LEMMA CatalogReads == ASSUME Catalog!CatalogInv, Catalog!CheckReads PROVE Catalog!CatalogInv'
<1> USE DEF Catalog!CatalogInv, Catalog!CheckReads, Catalog!Sequences, Catalog!Files, Catalog!Absent
<1>1. Catalog!Highest \in Catalog!Sequences /\ Catalog!Cache \in Catalog!Sequences
  <2>1. x1["current"] \in 0 .. MaxSequence /\ x1["sequence"] \in 0 .. MaxSequence
    BY DEF Catalog!TypeOK
  <2>2. Catalog!Cache \in 0 .. MaxSequence
    BY <2>1, ToolsAssumption DEF Catalog!Cache
  <2> QED
    BY <2>1, <2>2 DEF Catalog!Highest, Catalog!Larger
<1>2. Catalog!TypeOK'
  BY <1>1 DEF Catalog!TypeOK
<1>3. Catalog!Highest' = Catalog!Highest
  BY DEF Catalog!Highest, Catalog!Larger, Catalog!Cache
<1>4. Catalog!WitnessIsLeft'
  BY <1>1, <1>3 DEF Catalog!WitnessIsLeft, Catalog!TypeOK
<1>5. x12 = 0 => Catalog!Highest = x10 /\ Catalog!Cache = x10
  BY DEF Catalog!Undisturbed, Catalog!OldAt, Catalog!Before, Catalog!Highest, Catalog!Larger,
         Catalog!Cache, Catalog!TypeOK
<1>6. Catalog!Undisturbed'
  BY <1>5 DEF Catalog!Undisturbed, Catalog!OldAt, Catalog!Before, Catalog!Placing
<1> QED
  BY <1>2, <1>4, <1>6 DEF Catalog!NoRollback

\* What a fetch does, whatever it answers.
LEMMA CatalogFetches ==
    ASSUME Catalog!CatalogInv,
           Catalog!FetchKeepsCache \/ Catalog!FetchReplay \/ Catalog!FetchAccepts
    PROVE  Catalog!CatalogInv'
<1> USE DEF Catalog!CatalogInv, Catalog!Sequences, Catalog!Files, Catalog!Absent
<1>1. Catalog!Highest' = Catalog!Highest
  BY DEF Catalog!Highest, Catalog!Larger, Catalog!Cache, Catalog!FetchKeepsCache,
         Catalog!FetchReplay, Catalog!FetchAccepts
<1>2. CASE Catalog!FetchKeepsCache
  <2> USE <1>2 DEF Catalog!FetchKeepsCache
  <2>1. Catalog!TypeOK'
    BY DEF Catalog!TypeOK
  <2>2. Catalog!WitnessIsLeft'
    BY <1>1 DEF Catalog!WitnessIsLeft, Catalog!TypeOK
  <2>3. Catalog!Undisturbed'
    BY DEF Catalog!Undisturbed, Catalog!OldAt, Catalog!Before, Catalog!Placing
  <2> QED
    BY <2>1, <2>2, <2>3 DEF Catalog!NoRollback
<1>3. CASE Catalog!FetchReplay
  <2> USE <1>3 DEF Catalog!FetchReplay
  <2>0. x3 \in 1 .. MaxSequence
    BY DEF Catalog!TypeOK
  <2>1. x6' \in 1 .. MaxSequence /\ x6' <= x3
    BY <2>0, ToolsAssumption
  <2>6. Catalog!TypeOK'
    BY <2>1 DEF Catalog!TypeOK
  <2>2. Catalog!WitnessIsLeft'
    BY <1>1 DEF Catalog!WitnessIsLeft, Catalog!TypeOK
  <2>3. x12 = 0 => x6' < x10
    BY DEF Catalog!Undisturbed, Catalog!Superseded, Catalog!TypeOK
  <2>4. Catalog!Undisturbed'
    BY <2>3 DEF Catalog!Undisturbed, Catalog!OldAt, Catalog!Before, Catalog!Placing
  <2> QED
    BY <2>1, <2>2, <2>4, <2>6 DEF Catalog!NoRollback
<1>4. CASE Catalog!FetchAccepts
  <2> USE <1>4 DEF Catalog!FetchAccepts
  <2>0. x3 \in 1 .. MaxSequence
    BY DEF Catalog!TypeOK
  <2>1. x6' \in 1 .. MaxSequence /\ x6' <= x3
    BY <2>0, ToolsAssumption
  <2>6. Catalog!TypeOK'
    BY <2>1 DEF Catalog!TypeOK
  <2>2. x6' >= x7
    BY DEF Catalog!TypeOK, Catalog!Superseded
  <2>3. Catalog!WitnessIsLeft'
    BY <2>2 DEF Catalog!WitnessIsLeft, Catalog!TypeOK, Catalog!NewAt
  <2>4. Catalog!Undisturbed'
    BY DEF Catalog!Undisturbed, Catalog!OldAt, Catalog!Before, Catalog!Placing
  <2>5. Catalog!NoRollback'
    BY <2>2, <2>1 DEF Catalog!NoRollback, Catalog!WitnessIsLeft, Catalog!TypeOK
  <2> QED
    BY <2>1, <2>3, <2>4, <2>5, <2>6
<1> QED
  BY <1>2, <1>3, <1>4

\* Without an interruption, one of the two witnesses is whole at every step of the writing.
LEMMA OneWitness ==
    ASSUME Catalog!CatalogInv, x12 = 0
    PROVE  /\ x4 # "placeSequence" => x1["sequence"] = x10
           /\ x4 = "placeSequence" => x1["current"] = x6 /\ x1["metadata"] = x6 /\ x6 >= x10
<1>1. ASSUME x4 # "placeSequence"
      PROVE  x1["sequence"] = x10
  <2>1. x4 \in Catalog!OldAt["sequence"]
    BY <1>1, PlacingSteps
    DEF Catalog!CatalogInv, Catalog!TypeOK, Catalog!OldAt, Catalog!Before, Catalog!Files
  <2> QED
    BY <2>1 DEF Catalog!CatalogInv, Catalog!Undisturbed, Catalog!Files
<1>2. ASSUME x4 = "placeSequence"
      PROVE  x1["current"] = x6 /\ x1["metadata"] = x6 /\ x6 >= x10
  <2>1. x4 \in Catalog!NewAt["current"] /\ x4 \in Catalog!NewAt["metadata"]
    BY <1>2 DEF Catalog!NewAt
  <2> QED
    BY <1>2, <2>1
    DEF Catalog!CatalogInv, Catalog!WitnessIsLeft, Catalog!TypeOK, Catalog!Files, Catalog!Sequences
<1> QED
  BY <1>1, <1>2

\* One whole witness is enough for the highest number that was accepted.
LEMMA WitnessHolds ==
    ASSUME Catalog!CatalogInv,
           /\ x1'["current"] \in Nat /\ x1'["sequence"] \in Nat
           /\ \/ x1'["sequence"] >= x10
              \/ x1'["current"] = x1'["metadata"] /\ x1'["current"] >= x10
    PROVE  Catalog!Highest' >= x10
  BY DEF Catalog!CatalogInv, Catalog!TypeOK, Catalog!Sequences, Catalog!Highest, Catalog!Larger,
         Catalog!Cache, Catalog!Absent

\* The server publishes; the program is interrupted, which may spoil one witness only.
LEMMA CatalogIsPublished ==
    ASSUME Catalog!CatalogInv, Catalog!Publish \/ Catalog!Crash PROVE Catalog!CatalogInv'
<1> USE ToolsAssumption DEF Catalog!CatalogInv, Catalog!Sequences, Catalog!Files, Catalog!Absent
<1>1. Catalog!Highest' = Catalog!Highest
  BY DEF Catalog!Highest, Catalog!Larger, Catalog!Cache, Catalog!Publish, Catalog!Crash
<1>2. CASE Catalog!Publish
  <2>1. Catalog!TypeOK' /\ x6' <= x3' /\ x10' <= x3'
    BY <1>2 DEF Catalog!TypeOK, Catalog!Publish
  <2>2. Catalog!WitnessIsLeft' /\ Catalog!Undisturbed' /\ Catalog!NoRollback'
    BY <1>1, <1>2 DEF Catalog!WitnessIsLeft, Catalog!Undisturbed, Catalog!NoRollback, Catalog!Publish
  <2> QED
    BY <2>1, <2>2, <1>2 DEF Catalog!Publish
<1>3. CASE Catalog!Crash
  <2> USE <1>3 DEF Catalog!Crash
  <2>1. Catalog!TypeOK'
    BY DEF Catalog!TypeOK
  <2>2. x12' > 0 /\ (x12' <= 1 => x12 = 0)
    OBVIOUS
  <2>3. x12 = 0 => Catalog!Highest' >= x10
    BY OneWitness, WitnessHolds DEF Catalog!TypeOK
  <2>4. Catalog!WitnessIsLeft'
    BY <2>2, <2>3 DEF Catalog!WitnessIsLeft
  <2>5. Catalog!Undisturbed' /\ Catalog!NoRollback'
    BY <2>2 DEF Catalog!Undisturbed, Catalog!NoRollback
  <2> QED
    BY <2>1, <2>4, <2>5
<1> QED
  BY <1>2, <1>3

\* One of the three files is written, or its writing fails and what was there stays (catalog.rs
\* atomic_write).
LEMMA CatalogWrites ==
    ASSUME Catalog!CatalogInv, NEW f \in Catalog!Files,
           Catalog!WriteAside(f) \/ Catalog!WritePlace(f) \/ Catalog!WriteFails(f)
    PROVE  Catalog!CatalogInv'
<1> USE ToolsAssumption DEF Catalog!Sequences, Catalog!Absent
<1>1. /\ x1 \in [Catalog!Files -> 0 .. MaxSequence] /\ x2 \in [Catalog!Files -> 0 .. MaxSequence]
      /\ x3 \in 1 .. MaxSequence /\ x6 \in 0 .. MaxSequence /\ x7 \in 0 .. MaxSequence
      /\ x10 \in 0 .. MaxSequence /\ x12 \in Nat /\ x6 <= x3 /\ x10 <= x3
  BY DEF Catalog!CatalogInv, Catalog!TypeOK
<1>2. CASE Catalog!WriteAside(f)
  <2> USE <1>2 DEF Catalog!WriteAside
  <2>1. /\ x1' = [x1 EXCEPT ![f] = 0] /\ x4 = f /\ x4' = Catalog!Placing[f]
        /\ UNCHANGED <<x3, x6, x7, x8, x9, x10, x11, x12>>
        /\ x1[f] # 0 => x5' = TRUE /\ x2' = [x2 EXCEPT ![f] = x1[f]]
        /\ x1[f] = 0 => x5' = FALSE /\ x2' = x2
    OBVIOUS
  <2>2. x1' \in [Catalog!Files -> 0 .. MaxSequence] /\ x2' \in [Catalog!Files -> 0 .. MaxSequence]
    BY <1>1, <2>1
  <2>3. x5' \in BOOLEAN
    BY <2>1
  <2>4. Catalog!TypeOK'
    BY <2>1, <2>2, <2>3 DEF Catalog!CatalogInv, Catalog!TypeOK
  <2>5. Catalog!WitnessIsLeft'
    <3>1. x12 <= 1 => x7 >= x10 /\ x6 >= x7
      BY <2>1 DEF Catalog!CatalogInv, Catalog!WitnessIsLeft, Catalog!Files
    <3>2. \A g \in Catalog!Files :
             x4' \in Catalog!NewAt[g] => x4 \in Catalog!NewAt[g] /\ g # f
      BY <2>1, PlacingSteps DEF Catalog!Files, Catalog!NewAt
    <3>3. x12 <= 1 => \A g \in Catalog!Files : x4' \in Catalog!NewAt[g] => x1'[g] = x6
      BY <1>1, <2>1, <3>2 DEF Catalog!CatalogInv, Catalog!WitnessIsLeft, Catalog!Files
    <3>4. x4' \notin {"idle", "fetch"}
      BY <2>1, PlacingSteps DEF Catalog!Files
    <3> QED
      BY <2>1, <3>1, <3>3, <3>4 DEF Catalog!WitnessIsLeft
  <2>6. Catalog!Undisturbed'
    <3>1. \A g \in Catalog!Files :
             x4' \in Catalog!OldAt[g] => x4 \in Catalog!OldAt[g] /\ g # f
      BY <2>1, PlacingSteps DEF Catalog!Files, Catalog!OldAt, Catalog!Before
    <3>2. \A g \in Catalog!Files : x4' = Catalog!Placing[g] => g = f
      BY <2>1, PlacingSteps DEF Catalog!Files
    <3>3. x4 \in Catalog!OldAt[f]
      BY <2>1 DEF Catalog!Files, Catalog!OldAt, Catalog!Before
    <3>4. x12 = 0 => x1[f] = x10
      BY <3>3 DEF Catalog!CatalogInv, Catalog!Undisturbed
    <3>5. x4' \notin {"idle", "fetch"}
      BY <2>1, PlacingSteps DEF Catalog!Files
    <3>6. x12 = 0 => \A g \in Catalog!Files : x4' \in Catalog!OldAt[g] => x1'[g] = x10
      BY <1>1, <2>1, <3>1 DEF Catalog!CatalogInv, Catalog!Undisturbed
    <3>7. x12 = 0 => IF x5' THEN x2'[f] = x10 ELSE x10 = 0
      BY <1>1, <2>1, <3>4
    <3> QED
      BY <2>1, <3>2, <3>5, <3>6, <3>7 DEF Catalog!Undisturbed
  <2> QED
    BY <2>1, <2>4, <2>5, <2>6 DEF Catalog!CatalogInv, Catalog!NoRollback
<1>3. CASE Catalog!WritePlace(f)
  <2> USE <1>3 DEF Catalog!WritePlace
  <2>1. /\ x1' = [x1 EXCEPT ![f] = Catalog!Value(f)] /\ x2' = [x2 EXCEPT ![f] = 0]
        /\ x4 = Catalog!Placing[f] /\ x4' = Catalog!Following[f]
        /\ UNCHANGED <<x3, x5, x6, x7, x8, x11, x12>>
        /\ f = "sequence" => x9' = "remote" /\ x10' = Catalog!Larger(x10, x6)
        /\ f # "sequence" => x9' = x9 /\ x10' = x10
    OBVIOUS
  <2>2. /\ Catalog!Value(f) \in 0 .. MaxSequence /\ x10' \in 0 .. MaxSequence /\ x10' <= x3
        /\ f # "sequence" => Catalog!Value(f) = x6
    BY <1>1, <2>1 DEF Catalog!Value, Catalog!Larger
  <2>3. x1' \in [Catalog!Files -> 0 .. MaxSequence] /\ x2' \in [Catalog!Files -> 0 .. MaxSequence]
    BY <1>1, <2>1, <2>2
  <2>4. x4' \in {"idle"} \cup Catalog!Files
    BY <2>1 DEF Catalog!Files, Catalog!Following
  <2>5. Catalog!TypeOK'
    BY <2>1, <2>2, <2>3, <2>4 DEF Catalog!CatalogInv, Catalog!TypeOK
  <2>6. x12 <= 1 => /\ x7 >= x10 /\ x6 >= x7
                    /\ \A g \in Catalog!Files : x4 \in Catalog!NewAt[g] => x1[g] = x6
    BY <2>1, PlacingSteps DEF Catalog!CatalogInv, Catalog!WitnessIsLeft, Catalog!Files
  <2>7. CASE f = "sequence"
    <3>1. x4 = "placeSequence" /\ x4' = "idle"
      BY <2>1, <2>7, PlacingSteps DEF Catalog!Following
    <3>2. x12 <= 1 => x1["current"] = x6 /\ x1["metadata"] = x6
      BY <2>6, <3>1 DEF Catalog!NewAt, Catalog!Files
    <3>3. x12 <= 1 => x10' = x6 /\ Catalog!Value(f) = x6
      BY <1>1, <2>1, <2>6, <2>7 DEF Catalog!Value, Catalog!Larger
    <3>4. x12 <= 1 => \A g \in Catalog!Files : x1'[g] = x10'
      BY <1>1, <2>1, <2>7, <3>2, <3>3 DEF Catalog!Files
    <3>5. x12 <= 1 => Catalog!Highest' = x10'
      BY <3>4, <2>2 DEF Catalog!Highest, Catalog!Larger, Catalog!Cache, Catalog!Files
    <3>6. Catalog!WitnessIsLeft'
      BY <2>1, <2>2, <3>1, <3>5 DEF Catalog!WitnessIsLeft
    <3>7. Catalog!Undisturbed'
      BY <2>1, <2>7, <3>1, <3>4, PlacingSteps DEF Catalog!Undisturbed, Catalog!Files
    <3> QED
      BY <2>1, <2>2, <2>5, <3>6, <3>7, <1>1 DEF Catalog!CatalogInv, Catalog!NoRollback
  <2>8. CASE f # "sequence"
    <3>1. x4' \in {"metadata", "sequence"} /\ x10' = x10 /\ x9' = x9
      BY <2>1, <2>8 DEF Catalog!Files, Catalog!Following
    <3>2. \A g \in Catalog!Files :
             x4' \in Catalog!NewAt[g] => g = f \/ x4 \in Catalog!NewAt[g]
      BY <2>1, <2>8, PlacingSteps DEF Catalog!Files, Catalog!NewAt, Catalog!Following
    <3>3. \A g \in Catalog!Files :
             x4' \in Catalog!OldAt[g] => g # f /\ x4 \in Catalog!OldAt[g]
      BY <2>1, <2>8, PlacingSteps
      DEF Catalog!Files, Catalog!OldAt, Catalog!Before, Catalog!Following
    <3>4. Catalog!WitnessIsLeft'
      BY <1>1, <2>1, <2>2, <2>6, <2>8, <3>1, <3>2 DEF Catalog!WitnessIsLeft
    <3>5. x12 = 0 => \A g \in Catalog!Files : x4' \in Catalog!OldAt[g] => x1'[g] = x10
      BY <1>1, <2>1, <3>3 DEF Catalog!CatalogInv, Catalog!Undisturbed
    <3>6. \A g \in Catalog!Files : x4' # Catalog!Placing[g]
      BY <3>1, PlacingSteps DEF Catalog!Files
    <3>7. Catalog!Undisturbed'
      BY <2>1, <3>1, <3>5, <3>6 DEF Catalog!Undisturbed
    <3> QED
      BY <2>1, <2>2, <2>5, <3>4, <3>7, <1>1 DEF Catalog!CatalogInv, Catalog!NoRollback
  <2> QED
    BY <2>7, <2>8
<1>4. CASE Catalog!WriteFails(f)
  <2> USE <1>4 DEF Catalog!WriteFails
  <2>1. /\ x4' = "idle" /\ x9' = "corrupt" /\ x12' = x12 + 1
        /\ UNCHANGED <<x3, x5, x6, x7, x8, x10, x11>>
        /\ x4 \in {f, Catalog!Placing[f]}
    OBVIOUS
  <2>4. ASSUME x1' \in [Catalog!Files -> 0 .. MaxSequence], x2' \in [Catalog!Files -> 0 .. MaxSequence],
               x12 = 0 => Catalog!Highest' >= x10
        PROVE  Catalog!CatalogInv'
    <3>1. Catalog!TypeOK'
      BY <2>1, <2>4 DEF Catalog!CatalogInv, Catalog!TypeOK
    <3>2. Catalog!WitnessIsLeft' /\ Catalog!Undisturbed'
      BY <1>1, <2>1, <2>4 DEF Catalog!WitnessIsLeft, Catalog!Undisturbed
    <3> QED
      BY <1>1, <2>1, <3>1, <3>2 DEF Catalog!CatalogInv, Catalog!NoRollback
  <2>2. CASE x4 = Catalog!Placing[f] /\ x5
    <3>1. x1' = [x1 EXCEPT ![f] = x2[f]] /\ x2' = [x2 EXCEPT ![f] = 0]
      BY <2>2
    <3>2. x1' \in [Catalog!Files -> 0 .. MaxSequence] /\ x2' \in [Catalog!Files -> 0 .. MaxSequence]
      BY <1>1, <3>1
    <3>3. x12 = 0 => x1'[f] = x10
      BY <1>1, <2>2, <3>1 DEF Catalog!CatalogInv, Catalog!Undisturbed
    <3>4. x12 = 0 => x1'["sequence"] = x10
      <4>1. CASE f = "sequence"
        BY <3>3, <4>1
      <4>2. CASE f # "sequence"
        <5>1. x4 # "placeSequence" /\ x1'["sequence"] = x1["sequence"]
          BY <1>1, <2>2, <3>1, <4>2, PlacingSteps DEF Catalog!Files
        <5> QED
          BY <5>1, OneWitness
      <4> QED
        BY <4>1, <4>2
    <3>5. x12 = 0 => Catalog!Highest' >= x10
      <4>1. x1'["current"] \in Nat /\ x1'["sequence"] \in Nat
        BY <3>2 DEF Catalog!Files
      <4> QED
        BY <1>1, <3>4, <4>1, WitnessHolds
    <3> QED
      BY <2>4, <3>2, <3>5
  <2>3. CASE UNCHANGED <<x1, x2>>
    <3>1. x1'["current"] \in Nat /\ x1'["sequence"] \in Nat
      BY <1>1, <2>3 DEF Catalog!Files
    <3>2. x12 = 0 => Catalog!Highest' >= x10
      BY <1>1, <2>3, <3>1, OneWitness, WitnessHolds
    <3> QED
      BY <1>1, <2>3, <2>4, <3>2
  <2> QED
    BY <2>2, <2>3
<1> QED
  BY <1>2, <1>3, <1>4

\* A step of the store of the tools keeps its invariant.
LEMMA OverlayStep ==
    ASSUME Overlay!OverlayInv, [Overlay!Next]_(Overlay!vars) PROVE Overlay!OverlayInv'
<1>1. CASE UNCHANGED Overlay!vars
  <2>1. UNCHANGED <<x1, x2, x3, x4, x5, x6, x7, x8, x9, x10, x11, x12, x13>>
    BY <1>1 DEF Overlay!vars, Overlay!store, Overlay!process, Overlay!history, Overlay!budget
  <2> QED
    BY <2>1 DEF Overlay!OverlayInv, Overlay!TypeOK, Overlay!UpdaterTypeOK, Overlay!NamedAreWhole,
        Overlay!LateRepair, Overlay!NewIsUnnamed, Overlay!PreviousIsKnown, Overlay!WrittenStays,
        Overlay!SessionIsHeld, Overlay!Target
<1>2. CASE Overlay!Next
  BY <1>2, OverlayRepairs, OverlayStages, OverlayPromotes, OverlayCopies, OverlayChecks,
     OverlayWrites, OverlayPlaces, OverlaySettles
  DEF Overlay!Next, Overlay!Update
<1> QED
  BY <1>1, <1>2

\* A step of the catalogue keeps its invariant.
LEMMA CatalogStep ==
    ASSUME Catalog!CatalogInv, [Catalog!Next]_(Catalog!vars) PROVE Catalog!CatalogInv'
<1>1. CASE UNCHANGED Catalog!vars
  BY <1>1
  DEF Catalog!vars, Catalog!CatalogInv, Catalog!TypeOK, Catalog!WitnessIsLeft, Catalog!Undisturbed,
      Catalog!NoRollback, Catalog!Highest, Catalog!Cache, Catalog!Larger
<1>2. CASE Catalog!Next
  BY <1>2, CatalogReads, CatalogFetches, CatalogIsPublished, CatalogWrites DEF Catalog!Next
<1> QED
  BY <1>1, <1>2

\* The invariant has what is promised of the catalogue.
LEMMA CatalogKeepsTools ==
    ASSUME Catalog!CatalogInv
    PROVE  Catalog!TypeOK /\ Catalog!NoRollback /\ Catalog!NewestAccepted
<1>1. Catalog!NewestAccepted
  BY DEF Catalog!CatalogInv, Catalog!TypeOK, Catalog!Sequences, Catalog!Undisturbed,
         Catalog!NewestAccepted
<1> QED
  BY <1>1 DEF Catalog!CatalogInv

\* The pointer names a complete version whatever falls between two renames, the tool of the session
\* is there until a second update has replaced it, an update reported as done is in the pointer
\* (tools/overlay.rs promote_at, recover_at, retain_versions); no catalogue older than one that was
\* accepted is accepted before a second interruption, and the newest is refused only after one
\* (tools/catalog.rs check_tool_catalog_with).
THEOREM ToolsAreSafe == Spec => []ToolsSafe
<1> DEFINE Inv == /\ part = "overlay" => Overlay!OverlayInv
                  /\ part = "catalog" => Catalog!CatalogInv
<1>1. Init => Inv
  <2>1. Init => /\ part = "overlay" => Overlay!Init
                /\ part = "catalog" => Catalog!Init
    BY DEF Init
  <2> QED
    BY <2>1, OverlayStart, CatalogStart
<1>2. Inv /\ [Next]_vars => Inv'
  <2> SUFFICES ASSUME Inv, [Next]_vars
               PROVE  Inv'
    OBVIOUS
  <2>1. part' = part
    BY DEF Next, vars
  <2>2. CASE part = "overlay"
    <3>1. [Overlay!Next]_(Overlay!vars)
      BY <2>2 DEF Next, vars, Overlay!vars, Overlay!store, Overlay!process, Overlay!history,
                  Overlay!budget
    <3> QED
      BY <2>1, <2>2, <3>1, OverlayStep
  <2>3. CASE part = "catalog"
    <3>1. [Catalog!Next]_(Catalog!vars)
      BY <2>3 DEF Next, vars, Catalog!vars
    <3> QED
      BY <2>1, <2>3, <3>1, CatalogStep
  <2> QED
    BY <2>1, <2>2, <2>3
<1>3. Inv => ToolsSafe
  BY OverlayKeepsTools, CatalogKeepsTools DEF ToolsSafe
<1> QED
  BY <1>1, <1>2, <1>3, PTL DEF Spec
----------------------------------------------------------------------------
(* the preparation windows and the resolver: see WindowOps and MediaResolver *)

\* The operations of the windows, some of them cancelled or closed.
Moved(old, new) ==
    /\ new \in Seq(Preparation!Operation) /\ Len(new) = Len(old)
    /\ \A g \in 1 .. Len(old) : /\ new[g].processes = old[g].processes
                                /\ old[g].cancelled => new[g].cancelled
                                /\ old[g].closed => new[g].closed

\* Closing operations moves none of their processes.
LEMMA ClosedIsMoved ==
    ASSUME x2 \in Seq(Preparation!Operation), NEW os
    PROVE  /\ Moved(x2, Preparation!Closed(os))
           /\ \A g \in 1 .. Len(x2) : g \notin os => Preparation!Closed(os)[g] = x2[g]
<1> DEFINE c == Preparation!Closed(os)
<1>1. /\ Len(x2) \in Nat /\ DOMAIN x2 = 1 .. Len(x2)
      /\ x2 \in [1 .. Len(x2) -> Preparation!Operation]
  BY LenProperties
<1>2. c = [g \in 1 .. Len(x2) |->
              IF g \in os THEN [x2[g] EXCEPT !.closed = TRUE, !.cancelled = TRUE] ELSE x2[g]]
  BY <1>1 DEF Preparation!Closed
<1>3. \A g \in 1 .. Len(x2) :
         [x2[g] EXCEPT !.closed = TRUE, !.cancelled = TRUE]
             \in [cancelled : {TRUE}, closed : {TRUE}, processes : {x2[g].processes}]
  BY <1>1 DEF Preparation!Operation
<1>7. \A g \in 1 .. Len(x2) : x2[g].processes \in SUBSET Requests
  BY <1>1 DEF Preparation!Operation
<1>8. \A g \in 1 .. Len(x2) :
         [x2[g] EXCEPT !.closed = TRUE, !.cancelled = TRUE] \in Preparation!Operation
  BY <1>3, <1>7 DEF Preparation!Operation
<1>4. c \in [1 .. Len(x2) -> Preparation!Operation]
  BY <1>1, <1>2, <1>8
<1>5. c \in Seq(Preparation!Operation) /\ Len(c) = Len(x2)
  BY <1>1, <1>4, SeqDef
<1>6. ASSUME NEW g \in 1 .. Len(x2)
      PROVE  /\ g \in os => c[g].cancelled = TRUE /\ c[g].closed = TRUE
                            /\ c[g].processes = x2[g].processes
             /\ g \notin os => c[g] = x2[g]
  BY <1>2, <1>3
<1> QED
  BY <1>5, <1>6 DEF Moved

\* A new operation, and the closed one of a label that had none, have no process.
LEMMA FreshOperation ==
    /\ Preparation!Fresh = [cancelled |-> FALSE, closed |-> FALSE, processes |-> {}]
    /\ Preparation!Fresh \in Preparation!Operation
    /\ [Preparation!Fresh EXCEPT !.closed = TRUE, !.cancelled = TRUE] \in Preparation!Operation
    /\ [Preparation!Fresh EXCEPT !.closed = TRUE, !.cancelled = TRUE].processes = {}
<1>1. [Preparation!Fresh EXCEPT !.closed = TRUE, !.cancelled = TRUE]
          \in [cancelled : {TRUE}, closed : {TRUE}, processes : {{}}]
  BY DEF Preparation!Fresh
<1> QED
  BY <1>1 DEF Preparation!Fresh, Preparation!Operation

\* What a change of the registry leaves to the rest.
OperationsKept ==
    /\ x2' \in Seq(Preparation!Operation) /\ Len(x2') >= Len(x2)
    /\ \A g \in 1 .. Len(x2) : /\ x2[g].cancelled => x2'[g].cancelled
                               /\ x2[g].closed => x2'[g].closed

\* What it keeps of the registry and of the operations being drained.
RegistryKept ==
    /\ x1' \in [Preparation!Labels -> 0 .. Len(x2')]
    /\ x3' \subseteq (1 .. Len(x2')) \X {"ui", "command"}
    /\ Preparation!CancelledOwnsNothing'
    /\ \A m \in Preparation!Labels : x1[m] # 0 => x1'[m] # 0

\* What is known of the registry.
RegistryOK ==
    /\ x1 \in [Preparation!Labels -> 0 .. Len(x2)] /\ x2 \in Seq(Preparation!Operation)
    /\ x3 \subseteq (1 .. Len(x2)) \X {"ui", "command"}
    /\ Preparation!CancelledOwnsNothing

\* A new operation cancels the label's former one, which is drained (begin_window_operation).
LEMMA BegunIsKept ==
    ASSUME RegistryOK, NEW before, Moved(x2, before), NEW drained,
           x3 \subseteq drained, drained \subseteq (1 .. Len(x2)) \X {"ui", "command"},
           \A g \in 1 .. Len(x2) : before[g] # x2[g] => \E d \in drained : d[1] = g,
           NEW l \in Preparation!Labels, NEW t \in {"ui", "command"},
           Preparation!Begun(l, before, drained, t)
    PROVE  OperationsKept /\ RegistryKept /\ x1'[l] # 0
<1> DEFINE old == x1[l]
           marked == [before EXCEPT ![old] = [@ EXCEPT !.cancelled = TRUE]]
           base == IF old = 0 THEN before ELSE marked
<1>1. Len(x2) \in Nat /\ Len(before) = Len(x2) /\ before \in Seq(Preparation!Operation)
      /\ old \in 0 .. Len(x2)
  BY DEF Moved, RegistryOK
<1>2. ASSUME old # 0
      PROVE  /\ marked \in Seq(Preparation!Operation) /\ Len(marked) = Len(x2)
             /\ \A g \in 1 .. Len(x2) : g # old => marked[g] = before[g]
             /\ marked[old].cancelled = TRUE /\ marked[old].closed = before[old].closed
             /\ marked[old].processes = before[old].processes
  <2>1. before[old] \in Preparation!Operation
    BY <1>1, <1>2
  <2>2. [before[old] EXCEPT !.cancelled = TRUE]
           \in [cancelled : {TRUE}, closed : {before[old].closed}, processes : {before[old].processes}]
    BY <2>1 DEF Preparation!Operation
  <2>3. [before[old] EXCEPT !.cancelled = TRUE] \in Preparation!Operation
    BY <2>1, <2>2 DEF Preparation!Operation
  <2>4. marked = [before EXCEPT ![old] = [before[old] EXCEPT !.cancelled = TRUE]]
    BY <1>1, <1>2
  <2>5. /\ marked \in Seq(Preparation!Operation) /\ Len(marked) = Len(x2)
        /\ \A g \in 1 .. Len(x2) :
              marked[g] = IF g = old THEN [before[old] EXCEPT !.cancelled = TRUE] ELSE before[g]
    BY <1>1, <1>2, <2>3, <2>4, ExceptSeq
  <2> QED
    BY <1>1, <1>2, <2>2, <2>5
<1>3. base \in Seq(Preparation!Operation) /\ Len(base) = Len(x2)
  BY <1>1, <1>2
<1>4. x2' = Append(base, Preparation!Fresh) /\ x1' = [x1 EXCEPT ![l] = Len(x2) + 1]
  BY DEF Preparation!Begun
<1>5. /\ x2' \in Seq(Preparation!Operation) /\ Len(x2') = Len(x2) + 1
      /\ \A g \in 1 .. Len(x2) : x2'[g] = base[g]
      /\ x2'[Len(x2) + 1] = Preparation!Fresh
  BY <1>3, <1>4, FreshOperation, AppendProperties
<1>6. x3' = drained \cup (IF old = 0 THEN {} ELSE {<<old, t>>})
  BY DEF Preparation!Begun
<1>7. OperationsKept
  <2>1. \A g \in 1 .. Len(x2) : /\ before[g].cancelled => base[g].cancelled
                                /\ before[g].closed => base[g].closed
    BY <1>1, <1>2
  <2>2. \A g \in 1 .. Len(x2) : /\ x2[g].cancelled => before[g].cancelled
                                /\ x2[g].closed => before[g].closed
    BY DEF Moved
  <2>3. \A g \in 1 .. Len(x2) : x2'[g] = base[g]
    BY <1>5
  <2>4. \A g \in 1 .. Len(x2) : /\ x2[g].cancelled => x2'[g].cancelled
                                /\ x2[g].closed => x2'[g].closed
    BY <2>1, <2>2, <2>3
  <2> QED
    BY <1>1, <1>5, <2>4 DEF OperationsKept
<1>8. ASSUME NEW g \in 1 .. Len(x2)
      PROVE  x2'[g] = x2[g] \/ \E d \in x3' : d[1] = g
  <2>1. CASE old # 0 /\ g = old
    <3>1. <<old, t>> \in x3' /\ <<old, t>>[1] = g
      BY <1>6, <2>1
    <3> QED
      BY <3>1
  <2>2. CASE ~(old # 0 /\ g = old)
    <3>1. x2'[g] = before[g]
      BY <1>2, <1>5, <2>2
    <3> QED
      BY <1>6, <3>1
  <2> QED
    BY <2>1, <2>2
<1>9. Preparation!CancelledOwnsNothing'
  <2> SUFFICES ASSUME NEW g \in 1 .. Len(x2'), (x2'[g].cancelled \/ x2'[g].closed),
                      \A d \in x3' : d[1] # g
               PROVE  x2'[g].processes = {}
    BY <1>5, LenProperties DEF Preparation!CancelledOwnsNothing, Preparation!IsCancelled
  <2>1. CASE g = Len(x2) + 1
    BY <1>5, <2>1, FreshOperation
  <2>2. CASE g \in 1 .. Len(x2)
    <3>1. x2'[g] = x2[g]
      BY <1>8, <2>2
    <3>2. \A d \in x3 : d[1] # g
      BY <1>6
    <3> QED
      BY <2>2, <3>1, <3>2, LenProperties
      DEF RegistryOK, Preparation!CancelledOwnsNothing, Preparation!IsCancelled
  <2> QED
    BY <1>1, <1>5, <2>1, <2>2
<1>10. x3' \subseteq (1 .. Len(x2')) \X {"ui", "command"}
  <2>1. (1 .. Len(x2)) \subseteq 1 .. Len(x2')
    BY <1>1, <1>5
  <2>2. old # 0 => <<old, t>> \in (1 .. Len(x2)) \X {"ui", "command"}
    BY <1>1
  <2> QED
    BY <1>6, <2>1, <2>2
<1>11. x1' \in [Preparation!Labels -> 0 .. Len(x2')] /\ x1'[l] # 0
       /\ \A m \in Preparation!Labels : x1[m] # 0 => x1'[m] # 0
  BY <1>1, <1>4, <1>5 DEF RegistryOK
<1> QED
  BY <1>7, <1>9, <1>10, <1>11 DEF RegistryKept

\* So does an invalidation (invalidate_window_operation).
LEMMA InvalidatedIsKept ==
    ASSUME RegistryOK, NEW l \in Preparation!Labels, NEW t \in {"ui", "command"},
           Preparation!Invalidated(l, t)
    PROVE  OperationsKept /\ RegistryKept
<1>1. Len(x2) \in Nat /\ DOMAIN x2 = 1 .. Len(x2) /\ x1[l] \in 0 .. Len(x2)
  BY LenProperties DEF RegistryOK
<1>2. CASE x1[l] = 0
  <2> DEFINE shut == [Preparation!Fresh EXCEPT !.closed = TRUE, !.cancelled = TRUE]
  <2>1. /\ x2' = Append(x2, shut) /\ x1' = [x1 EXCEPT ![l] = Len(x2) + 1]
        /\ x3' = x3 \cup {<<Len(x2) + 1, t>>}
    BY <1>2 DEF Preparation!Invalidated
  <2>2. /\ x2' \in Seq(Preparation!Operation) /\ Len(x2') = Len(x2) + 1
        /\ \A g \in 1 .. Len(x2) : x2'[g] = x2[g]
        /\ x2'[Len(x2) + 1] = shut /\ shut.processes = {}
    BY <2>1, FreshOperation, AppendProperties DEF RegistryOK
  <2>3. OperationsKept
    BY <1>1, <2>2 DEF OperationsKept
  <2>4. Preparation!CancelledOwnsNothing'
    <3> SUFFICES ASSUME NEW g \in 1 .. Len(x2'), (x2'[g].cancelled \/ x2'[g].closed),
                        \A d \in x3' : d[1] # g
                 PROVE  x2'[g].processes = {}
      BY <2>2, LenProperties DEF Preparation!CancelledOwnsNothing, Preparation!IsCancelled
    <3>1. CASE g = Len(x2) + 1
      BY <2>2, <3>1
    <3>2. CASE g \in 1 .. Len(x2)
      BY <1>1, <2>1, <2>2, <3>2 DEF RegistryOK, Preparation!CancelledOwnsNothing, Preparation!IsCancelled
    <3> QED
      BY <1>1, <2>2, <3>1, <3>2
  <2>5. x3' \subseteq (1 .. Len(x2')) \X {"ui", "command"}
    <3>1. (1 .. Len(x2)) \subseteq 1 .. Len(x2') /\ Len(x2) + 1 \in 1 .. Len(x2')
      BY <1>1, <2>2
    <3> QED
      BY <2>1, <3>1 DEF RegistryOK
  <2>6. x1' \in [Preparation!Labels -> 0 .. Len(x2')] /\ \A m \in Preparation!Labels : x1[m] # 0 => x1'[m] # 0
    BY <1>1, <2>1, <2>2 DEF RegistryOK
  <2> QED
    BY <2>3, <2>4, <2>5, <2>6 DEF RegistryKept
<1>3. CASE x1[l] # 0
  <2>1. x2' = Preparation!Closed({x1[l]}) /\ x3' = x3 \cup {<<x1[l], t>>} /\ x1' = x1
    BY <1>3 DEF Preparation!Invalidated
  <2>2. Moved(x2, x2') /\ \A g \in 1 .. Len(x2) : g # x1[l] => x2'[g] = x2[g]
    BY <2>1, ClosedIsMoved DEF RegistryOK
  <2>3. OperationsKept
    BY <1>1, <2>2 DEF OperationsKept, Moved
  <2>4. Preparation!CancelledOwnsNothing'
    <3> SUFFICES ASSUME NEW g \in 1 .. Len(x2'), (x2'[g].cancelled \/ x2'[g].closed),
                        \A d \in x3' : d[1] # g
                 PROVE  x2'[g].processes = {}
      BY <2>2, LenProperties DEF Preparation!CancelledOwnsNothing, Preparation!IsCancelled, Moved
    <3>1. <<x1[l], t>> \in x3' /\ <<x1[l], t>>[1] = x1[l] /\ x3 \subseteq x3'
      BY <2>1
    <3>2. g # x1[l] /\ \A d \in x3 : d[1] # g
      BY <3>1
    <3> QED
      BY <1>1, <2>2, <3>2 DEF RegistryOK, Preparation!CancelledOwnsNothing, Preparation!IsCancelled, Moved
  <2>5. x3' \subseteq (1 .. Len(x2')) \X {"ui", "command"}
    BY <1>1, <1>3, <2>1, <2>2 DEF RegistryOK, Moved
  <2> QED
    BY <2>1, <2>2, <2>3, <2>4, <2>5 DEF RegistryKept, RegistryOK, Moved
<1> QED
  BY <1>2, <1>3

\* An operation that is drained has no process (cancel_window_operation).
LEMMA DrainIsKept ==
    ASSUME RegistryOK, NEW g, NEW t, Preparation!Drain(g, t)
    PROVE  OperationsKept /\ RegistryKept
<1> DEFINE rid == [x2[g] EXCEPT !.processes = {}]
<1>1. g \in 1 .. Len(x2) /\ Len(x2) \in Nat /\ DOMAIN x2 = 1 .. Len(x2) /\ x2[g] \in Preparation!Operation
  BY LenProperties DEF RegistryOK, Preparation!Drain
<1>2. rid \in [cancelled : {x2[g].cancelled}, closed : {x2[g].closed}, processes : {{}}]
  BY <1>1 DEF Preparation!Operation
<1>3. rid \in Preparation!Operation
  BY <1>1, <1>2 DEF Preparation!Operation
<1>4. x2' = [x2 EXCEPT ![g] = rid] /\ x3' = x3 \ {<<g, t>>} /\ x1' = x1
  BY <1>1 DEF Preparation!Drain
<1>5. /\ x2' \in Seq(Preparation!Operation) /\ Len(x2') = Len(x2)
      /\ \A q \in 1 .. Len(x2) : x2'[q] = IF q = g THEN rid ELSE x2[q]
  BY <1>1, <1>3, <1>4, ExceptSeq DEF RegistryOK
<1>6. OperationsKept
  BY <1>1, <1>2, <1>5 DEF OperationsKept
<1>7. Preparation!CancelledOwnsNothing'
  <2> SUFFICES ASSUME NEW q \in 1 .. Len(x2), (x2'[q].cancelled \/ x2'[q].closed),
                      \A d \in x3' : d[1] # q
               PROVE  x2'[q].processes = {}
    BY <1>5, LenProperties DEF Preparation!CancelledOwnsNothing, Preparation!IsCancelled
  <2>1. CASE q = g
    BY <1>2, <1>5, <2>1
  <2>2. CASE q # g
    <3>1. \A d \in x3 : d[1] # q
      BY <1>4, <2>2
    <3> QED
      BY <1>1, <1>5, <2>2, <3>1 DEF RegistryOK, Preparation!CancelledOwnsNothing, Preparation!IsCancelled
  <2> QED
    BY <2>1, <2>2
<1> QED
  BY <1>4, <1>5, <1>6, <1>7 DEF RegistryKept, RegistryOK

\* What is queued for the UI thread.
Tasks == ({"open"} \X Windows) \cup ({"close", "build", "show"} \X Preparation!Labels)

\* What is known of the windows.
WindowsOK ==
    /\ RegistryOK
    /\ x4 \in [Preparation!Labels -> {"none", "hidden", "shown", "dying"}]
    /\ x5 \subseteq Windows /\ x6 \in BOOLEAN /\ x7 \in Seq(Tasks)
    /\ Preparation!WindowsHaveOperations /\ Preparation!MainNeverStuck

\* The UI thread takes what was queued.
LEMMA TaskIsTaken ==
    ASSUME WindowsOK, NEW task, Preparation!Head1(task)
    PROVE  task \in Tasks /\ x7' \in Seq(Tasks)
<1>1. x7 \in Seq(Tasks) /\ x7 # << >> /\ Head(x7) = task /\ x7' = Tail(x7)
  BY DEF WindowsOK, Preparation!Head1
<1> QED
  BY <1>1, HeadTailProperties

\* The labels that the queued tasks name.
LEMMA LabelsOfTasks ==
    /\ \A l : <<"open", l>> \in Tasks => l \in Windows
    /\ \A l \in Windows : {<<"open", l>>, <<"show", l>>, <<"close", l>>} \subseteq Tasks
    /\ \A task \in {"close", "build", "show"} : <<task, Player>> \in Tasks
    /\ \A l \in Preparation!Labels : <<"close", l>> \in Tasks
  BY DEF Tasks, Preparation!Labels

\* What was known of the registry is known after such a change.
LEMMA KeptIsOK == ASSUME RegistryOK, OperationsKept, RegistryKept PROVE RegistryOK'
  BY DEF RegistryOK, OperationsKept, RegistryKept

\* No change is one.
LEMMA NothingIsKept == ASSUME RegistryOK, UNCHANGED <<x1, x2, x3>> PROVE OperationsKept /\ RegistryKept
<1>1. Len(x2) \in Nat
  BY LenProperties DEF RegistryOK
<1> QED
  BY <1>1 DEF RegistryOK, OperationsKept, RegistryKept, Preparation!CancelledOwnsNothing,
      Preparation!IsCancelled

\* The commands and clicks that only queue, and what is done without a window.
LEMMA WindowsAreAsked ==
    ASSUME WindowsOK,
           \/ \E l \in Preparation!Labels :
                 Preparation!AskOpen(l) \/ Preparation!AskShow(l) \/ Preparation!AskClose(l)
           \/ Preparation!AskPlay \/ Preparation!AskPlayFile
           \/ \E d \in x3 : Preparation!Drain(d[1], d[2])
    PROVE  WindowsOK' /\ OperationsKept
<1>1. UNCHANGED <<x4, x5, x6>>
  BY DEF Preparation!AskOpen, Preparation!AskShow, Preparation!AskClose, Preparation!AskPlay,
         Preparation!AskPlayFile, Preparation!Drain
<1>2. x7' = x7 \/ \E task \in Tasks : x7' = Append(x7, task)
  <2>1. CASE \E l \in Preparation!Labels : Preparation!AskOpen(l) \/ Preparation!AskShow(l)
    BY <2>1, LabelsOfTasks DEF Preparation!AskOpen, Preparation!AskShow
  <2>2. CASE \E l \in Preparation!Labels : Preparation!AskClose(l)
    BY <2>2, LabelsOfTasks DEF Preparation!AskClose
  <2>3. CASE Preparation!AskPlay \/ Preparation!AskPlayFile
    BY <2>3, LabelsOfTasks DEF Preparation!AskPlay, Preparation!AskPlayFile
  <2>4. CASE \E d \in x3 : Preparation!Drain(d[1], d[2])
    BY <2>4 DEF Preparation!Drain
  <2> QED
    BY <2>1, <2>2, <2>3, <2>4
<1>3. x7' \in Seq(Tasks)
  BY <1>2, AppendProperties DEF WindowsOK
<1>4. OperationsKept /\ RegistryKept
  <2>1. CASE \/ \E l \in Preparation!Labels : Preparation!AskOpen(l) \/ Preparation!AskShow(l)
             \/ Preparation!AskPlayFile
    <3>1. UNCHANGED <<x1, x2, x3>>
      BY <2>1 DEF Preparation!AskOpen, Preparation!AskShow, Preparation!AskPlayFile
    <3> QED
      BY <3>1, NothingIsKept DEF WindowsOK
  <2>2. CASE \E l \in Preparation!Labels : Preparation!AskClose(l)
    BY <2>2, InvalidatedIsKept DEF WindowsOK, Preparation!AskClose
  <2>3. CASE Preparation!AskPlay
    <3>1. Preparation!Begun(Player, x2, x3, "command") /\ RegistryOK
      BY <2>3 DEF WindowsOK, Preparation!AskPlay
    <3>2. Moved(x2, x2) /\ x3 \subseteq (1 .. Len(x2)) \X {"ui", "command"} /\ Player \in Preparation!Labels
      BY <3>1 DEF Moved, RegistryOK, Preparation!Labels
    <3> QED
      BY <3>1, <3>2, BegunIsKept
  <2>4. CASE \E d \in x3 : Preparation!Drain(d[1], d[2])
    BY <2>4, DrainIsKept DEF WindowsOK
  <2> QED
    BY <2>1, <2>2, <2>3, <2>4
<1>5. RegistryOK'
  BY <1>4, KeptIsOK DEF WindowsOK
<1>6. Preparation!WindowsHaveOperations' /\ Preparation!MainNeverStuck'
  BY <1>1, <1>4 DEF WindowsOK, RegistryKept, Preparation!WindowsHaveOperations,
     Preparation!MainNeverStuck, Preparation!Labels
<1> QED
  BY <1>1, <1>3, <1>4, <1>5, <1>6 DEF WindowsOK

\* A window goes: by its close button, by a command or by the system.
LEMMA WindowsGo ==
    ASSUME WindowsOK, NEW l \in Preparation!Labels,
           \/ Preparation!NativeClose(l) \/ Preparation!RunClose(l) \/ Preparation!Destroyed(l)
    PROVE  WindowsOK' /\ OperationsKept
<1>1. x7' \in Seq(Tasks)
  <2>1. CASE Preparation!RunClose(l)
    BY <2>1, TaskIsTaken DEF Preparation!RunClose
  <2>2. CASE Preparation!NativeClose(l) \/ Preparation!Destroyed(l)
    BY <2>2 DEF Preparation!NativeClose, Preparation!Destroyed, WindowsOK
  <2> QED
    BY <2>1, <2>2
<1>2. \/ UNCHANGED <<x1, x2, x3>>
      \/ Preparation!Invalidated(l, "ui")
  BY DEF Preparation!NativeClose, Preparation!RunClose, Preparation!Destroyed, Preparation!CloseRequested
<1>3. OperationsKept /\ RegistryKept
  BY <1>2, NothingIsKept, InvalidatedIsKept DEF WindowsOK
<1>4. RegistryOK'
  BY <1>3, KeptIsOK DEF WindowsOK
<1>5. /\ x4' = [x4 EXCEPT ![l] = x4'[l]] /\ x4'[l] \in {"none", "dying"}
      /\ x4'[l] # "none" => x4[l] # "none"
      /\ x5' = x5 \/ x5' = x5 \ {l}
      /\ l \in Windows => x5' = x5 \ {l} \/ (x4'[l] = "none" /\ x4[l] = "none")
      /\ x6' \in BOOLEAN
      /\ ~x6' => ~x6 /\ (l \in Windows => x5' = x5 \/ x5 \ {l} # {})
  <2>1. /\ x4 \in [Preparation!Labels -> {"none", "hidden", "shown", "dying"}]
        /\ x5 \subseteq Windows /\ x6 \in BOOLEAN
    BY DEF WindowsOK
  <2>2. CASE UNCHANGED <<x4, x5, x6>> /\ x4[l] \in {"none", "dying"} /\ (l \in Windows => x4[l] = "none")
    BY <2>1, <2>2
  <2>3. CASE /\ x4' = [x4 EXCEPT ![l] = "dying"] /\ x4[l] # "none" /\ x5' = x5 \ {l}
             /\ x6' \in BOOLEAN /\ (~x6' => ~x6 /\ (l \in Windows => x5 \ {l} # {}))
    BY <2>1, <2>3
  <2>4. CASE /\ x4' = x4 /\ x4[l] = "dying" /\ x5' = x5 \ {l} /\ x6' = TRUE
    BY <2>1, <2>4
  <2>5. CASE /\ x4' = [x4 EXCEPT ![l] = "none"] /\ x4[l] # "none"
             /\ \/ l \notin Windows /\ UNCHANGED <<x5, x6>>
                \/ x5' = x5 \ {l} /\ x6' \in BOOLEAN /\ (~x6' => ~x6 /\ x5 \ {l} # {})
    BY <2>1, <2>5
  <2>6. CASE Preparation!NativeClose(l)
    BY <2>1, <2>3, <2>6 DEF Preparation!NativeClose, Preparation!CloseRequested
  <2>7. CASE Preparation!RunClose(l)
    BY <2>1, <2>2, <2>3, <2>4, <2>7, PreparationAssumption
    DEF Preparation!RunClose, Preparation!CloseRequested, Preparation!Labels
  <2>8. CASE Preparation!Destroyed(l)
    BY <2>5, <2>8, PreparationAssumption DEF Preparation!Destroyed
  <2> QED
    BY <2>6, <2>7, <2>8
<1>6. Preparation!WindowsHaveOperations'
  BY <1>3, <1>5 DEF WindowsOK, RegistryKept, Preparation!WindowsHaveOperations, Preparation!Labels
<1>7. Preparation!MainNeverStuck'
  BY <1>5, PreparationAssumption DEF WindowsOK, Preparation!MainNeverStuck, Preparation!Labels
<1> QED
  BY <1>1, <1>3, <1>4, <1>5, <1>6, <1>7 DEF WindowsOK

\* The player's window comes up: it owns no modality.
LEMMA PlayerComes ==
    ASSUME WindowsOK, Preparation!RunBuild \/ Preparation!RunShow
    PROVE  WindowsOK' /\ OperationsKept
<1>1. x7' \in Seq(Tasks)
  BY TaskIsTaken DEF Preparation!RunBuild, Preparation!RunShow
<1>2. UNCHANGED <<x1, x2, x3, x5, x6>>
  BY DEF Preparation!RunBuild, Preparation!RunShow
<1>3. OperationsKept /\ RegistryKept
  BY <1>2, NothingIsKept DEF WindowsOK
<1>4. /\ x4' \in [Preparation!Labels -> {"none", "hidden", "shown", "dying"}]
      /\ \A l \in Windows : x4'[l] = x4[l]
  BY PreparationAssumption DEF WindowsOK, Preparation!RunBuild, Preparation!RunShow, Preparation!Labels
<1>5. RegistryOK'
  BY <1>3, KeptIsOK DEF WindowsOK
<1> QED
  BY <1>1, <1>2, <1>3, <1>4, <1>5
  DEF WindowsOK, Preparation!WindowsHaveOperations, Preparation!MainNeverStuck

\* A preparation window is shown again, with the operation that it had.
LEMMA WindowReveals ==
    ASSUME WindowsOK, NEW l, Preparation!RunReveal(l)
    PROVE  WindowsOK' /\ OperationsKept
<1>1. l \in Windows /\ x7' \in Seq(Tasks)
  BY TaskIsTaken DEF Preparation!RunReveal
<1>2. OperationsKept /\ RegistryKept
  BY NothingIsKept DEF WindowsOK, Preparation!RunReveal
<1>3. RegistryOK'
  BY <1>2, KeptIsOK DEF WindowsOK
<1>4. \/ UNCHANGED <<x4, x5, x6>>
      \/ UNCHANGED <<x4, x5>> /\ x6' = (x5 = {})
      \/ /\ x4[l] # "none" /\ x5' = x5 \cup {l} /\ x6' = FALSE
         /\ x4' = [x4 EXCEPT ![l] = IF x4[l] = "dying" THEN x4[l] ELSE "shown"]
  BY DEF Preparation!RunReveal
<1>5. /\ x4' \in [Preparation!Labels -> {"none", "hidden", "shown", "dying"}]
      /\ x5' \subseteq Windows /\ x6' \in BOOLEAN
      /\ ~x6' => x5' # {}
      /\ \A m \in Windows : /\ x4'[m] # "none" => x4[m] # "none"
                            /\ m \in x5' => x4'[m] \in {"shown", "dying"}
  BY <1>1, <1>4 DEF WindowsOK, Preparation!MainNeverStuck, Preparation!Labels
<1>6. Preparation!WindowsHaveOperations' /\ Preparation!MainNeverStuck'
  BY <1>2, <1>5 DEF WindowsOK, RegistryKept, Preparation!WindowsHaveOperations,
     Preparation!MainNeverStuck, Preparation!Labels
<1> QED
  BY <1>1, <1>2, <1>3, <1>5, <1>6 DEF WindowsOK

\* A preparation window opens in front of the others.
LEMMA WindowOpens ==
    ASSUME WindowsOK, NEW l, Preparation!RunOpen(l)
    PROVE  WindowsOK' /\ OperationsKept
<1> DEFINE others == {m \in Windows \ {l} : x4[m] # "none"}
           theirs == {x1[m] : m \in others}
           kept   == x5 \ others
           aside  == [m \in Preparation!Labels |->
                        IF m \in others /\ x4[m] = "shown" THEN "hidden" ELSE x4[m]]
           drained == x3 \cup {<<g, "ui">> : g \in theirs}
<1>1. l \in Windows /\ x7' \in Seq(Tasks)
  BY TaskIsTaken, LabelsOfTasks DEF Preparation!RunOpen
<1>2. Preparation!Begun(l, Preparation!Closed(theirs), drained, "ui")
  BY DEF Preparation!RunOpen
<1>3. \/ x4' = [aside EXCEPT ![l] = IF @ = "dying" THEN @ ELSE "shown"]
         /\ x5' = kept \cup {l} /\ x6' = FALSE
      \/ x4' = [aside EXCEPT ![l] = IF @ = "none" THEN "hidden" ELSE @]
         /\ x5' = kept /\ x6' = (kept = {})
      \/ x4' = aside /\ x5' = kept /\ x6' = TRUE
  BY DEF Preparation!RunOpen
<1> HIDE DEF others, theirs, kept, aside, drained
<1>4. theirs \subseteq 1 .. Len(x2)
  BY DEF theirs, others, WindowsOK, RegistryOK, Preparation!WindowsHaveOperations, Preparation!Labels
<1>5. OperationsKept /\ RegistryKept /\ x1'[l] # 0
  <2>1. RegistryOK /\ x2 \in Seq(Preparation!Operation)
    BY DEF WindowsOK, RegistryOK
  <2>2. Moved(x2, Preparation!Closed(theirs))
        /\ \A g \in 1 .. Len(x2) : g \notin theirs => Preparation!Closed(theirs)[g] = x2[g]
    BY <2>1, ClosedIsMoved
  <2>3. x3 \subseteq drained /\ drained \subseteq (1 .. Len(x2)) \X {"ui", "command"}
    BY <1>4, <2>1 DEF drained, RegistryOK
  <2>4. ASSUME NEW g \in theirs PROVE \E d \in drained : d[1] = g
    <3>1. <<g, "ui">> \in drained /\ <<g, "ui">>[1] = g
      BY <2>4 DEF drained
    <3> QED
      BY <3>1
  <2>5. l \in Preparation!Labels
    BY <1>1 DEF Preparation!Labels
  <2> QED
    BY <1>2, <2>1, <2>2, <2>3, <2>4, <2>5, BegunIsKept
<1>6. RegistryOK'
  BY <1>5, KeptIsOK DEF WindowsOK
<1>7. /\ aside \in [Preparation!Labels -> {"none", "hidden", "shown", "dying"}]
      /\ \A m \in Preparation!Labels \ others : aside[m] = x4[m]
      /\ \A m \in Preparation!Labels : aside[m] # "none" => x4[m] # "none"
  BY DEF WindowsOK, aside
<1>8. kept \subseteq {l} /\ kept \subseteq x5
  BY DEF kept, others, WindowsOK, Preparation!MainNeverStuck
<1>9. /\ x4' \in [Preparation!Labels -> {"none", "hidden", "shown", "dying"}]
      /\ \A m \in Preparation!Labels \ {l} : x4'[m] = aside[m]
  BY <1>3, <1>7
<1>10. l \notin others /\ l \in Preparation!Labels
  BY <1>1 DEF others, Preparation!Labels
<1>11. l \in x5' => x4'[l] \in {"shown", "dying"}
  BY <1>3, <1>7, <1>8, <1>10, <1>1 DEF WindowsOK, Preparation!MainNeverStuck
<1>12. x5' \subseteq {l} /\ (~x6' => x5' # {}) /\ x6' \in BOOLEAN
  BY <1>3, <1>8
<1>13. Preparation!MainNeverStuck'
  BY <1>11, <1>12 DEF Preparation!MainNeverStuck
<1>14. Preparation!WindowsHaveOperations'
  BY <1>5, <1>7, <1>9, <1>10
  DEF WindowsOK, RegistryKept, Preparation!WindowsHaveOperations, Preparation!Labels
<1> QED
  BY <1>1, <1>5, <1>6, <1>9, <1>12, <1>13, <1>14 DEF WindowsOK

\* A step of the windows cancels no less than there was.
LEMMA WindowsStep ==
    ASSUME WindowsOK, Preparation!WinNext
    PROVE  WindowsOK' /\ OperationsKept
  BY WindowsAreAsked, WindowsGo, PlayerComes, WindowReveals, WindowOpens
  DEF Preparation!WinNext, Preparation!Ui

\* The results in the cache.
Entries == [key : Preparation!Keys, value : Preparation!Good, fresh : BOOLEAN]

\* The types of the resolver's state.
RequestsTypeOK ==
    /\ x9 \in [Requests -> Preparation!Request] /\ x10 \in Seq(Preparation!FlightRecord)
    /\ x11 \in [Preparation!Keys -> 0 .. Len(x10)] /\ x12 \in Seq(Entries)
    /\ \A r \in Requests :
          /\ x9[r].op \in 0 .. Len(x2) /\ x9[r].flight \in 0 .. Len(x10)
          /\ x9[r].pc # "idle" => x9[r].key \in Preparation!Keys
          /\ x9[r].pc \in Preparation!Asking => x9[r].flight = 0
          /\ x9[r].pc \in Preparation!Consuming => x9[r].flight # 0

\* What is known of the requests and of their flights.
ResolverOK ==
    /\ x2 \in Seq(Preparation!Operation) /\ RequestsTypeOK
    /\ Preparation!FlightsAreLed /\ Preparation!ConsumersAreCounted
    /\ Preparation!CausesAreOwn /\ Preparation!CancelNeedsACause

\* The invariant is what is known of the windows and of the resolver.
LEMMA PreparationParts == Preparation!PreparationInv <=> WindowsOK /\ ResolverOK
<1>1. \A s \in Seq(Preparation!Operation) : DOMAIN s = 1 .. Len(s)
  BY LenProperties
<1> QED
  BY <1>1
  DEF Preparation!PreparationInv, WindowsOK, RegistryOK, ResolverOK, RequestsTypeOK, Tasks, Entries,
      Preparation!WinTypeOK, Preparation!ResolverTypeOK

\* The steps of a request, and its answers.
LEMMA StepSets ==
    /\ Preparation!Asking = {"idle", "look", "look at analysis", "acquire"}
    /\ Preparation!Leading = {"loop", "spawned", "running", "embed", "put", "publish", "remove"}
    /\ Preparation!Consuming = {"loop", "spawned", "running", "embed", "put", "publish", "remove",
                                "leave", "wait"}
    /\ Preparation!Good = {"complete", "partial"}
    /\ Preparation!Answers = {"complete", "partial", "error", "cancelled"}
  BY DEF Preparation!Asking, Preparation!Deciding, Preparation!Leading, Preparation!Consuming,
         Preparation!Good, Preparation!Answers

\* The types of a flight.
LEMMA FlightsTyped ==
    ASSUME RequestsTypeOK
    PROVE  /\ Len(x10) \in Nat /\ DOMAIN x10 = 1 .. Len(x10)
           /\ \A f \in 1 .. Len(x10) :
                 /\ x10[f].consumers \in Nat /\ x10[f].cancelled \in BOOLEAN /\ x10[f].leader \in Requests
                 /\ x10[f].result \in Preparation!Answers \cup {"none"}
<1>1. Len(x10) \in Nat /\ DOMAIN x10 = 1 .. Len(x10)
      /\ \A f \in 1 .. Len(x10) : x10[f] \in Preparation!FlightRecord
  BY LenProperties DEF RequestsTypeOK
<1> QED
  BY <1>1 DEF Preparation!FlightRecord

\* A request at work, or one that was cancelled, has a flight.
LEMMA FlightOfRequest ==
    ASSUME ResolverOK, NEW r \in Requests
    PROVE  /\ x9[r].pc \in Preparation!Consuming => x9[r].flight \in 1 .. Len(x10)
           /\ x9[r].pc = "done" /\ x9[r].answer = "cancelled" => x9[r].flight \in 1 .. Len(x10)
           /\ x9[r].op # 0 => x9[r].op \in 1 .. Len(x2)
<1>1. RequestsTypeOK
  BY DEF ResolverOK
<1>2. /\ x9[r].op \in 0 .. Len(x2) /\ x9[r].flight \in 0 .. Len(x10)
      /\ x9[r].pc \in Preparation!Consuming => x9[r].flight # 0
  BY DEF ResolverOK, RequestsTypeOK
<1>3. x9[r].pc = "done" /\ x9[r].answer = "cancelled" => x9[r].flight # 0
  BY StepSets DEF ResolverOK, Preparation!CausesAreOwn
<1>4. Len(x10) \in Nat /\ Len(x2) \in Nat
  BY <1>1, FlightsTyped, LenProperties DEF ResolverOK
<1> QED
  BY <1>2, <1>3, <1>4

\* Who leads a flight still wants it, and stops for its own window only.
LEMMA LeaderIsConsumer ==
    ASSUME ResolverOK, NEW r \in Requests, x9[r].pc \in Preparation!Consuming
    PROVE  /\ x9[r].flight \in 1 .. Len(x10) /\ r \in Preparation!Consumers(x9[r].flight)
           /\ ~x10[x9[r].flight].cancelled
           /\ Preparation!SharedCancelled(r) => Preparation!OwnerGone(r)
<1>1. x9[r].flight \in 1 .. Len(x10)
  BY FlightOfRequest
<1>2. r \in Preparation!Consumers(x9[r].flight)
  BY DEF Preparation!Consumers
<1>3. ~x10[x9[r].flight].cancelled
  BY <1>1, <1>2, FlightsTyped DEF ResolverOK, Preparation!ConsumersAreCounted
<1> QED
  BY <1>1, <1>2, <1>3 DEF Preparation!SharedCancelled, Preparation!Flight

\* Windows come and go: cancellations stay, and nothing else of the resolver moves.
LEMMA WindowsMoveOn ==
    ASSUME ResolverOK, OperationsKept, UNCHANGED <<x9, x10, x11>>, x12' \in Seq(Entries)
    PROVE  ResolverOK'
<1>1. \A r \in Requests : x9[r].op # 0 => x9[r].op \in 1 .. Len(x2)
  BY DEF ResolverOK, RequestsTypeOK
<1>2. \A r \in Requests : Preparation!OwnerGone(r) => Preparation!OwnerGone(r)'
  BY <1>1 DEF OperationsKept, Preparation!OwnerGone, Preparation!IsCancelled
<1>3. RequestsTypeOK'
  BY LenProperties DEF ResolverOK, RequestsTypeOK, OperationsKept
<1>4. Preparation!FlightsAreLed' /\ Preparation!ConsumersAreCounted'
  BY DEF ResolverOK, Preparation!FlightsAreLed, Preparation!ConsumersAreCounted,
         Preparation!Consumers, Preparation!Flight
<1>5. \A f \in 1 .. Len(x10) : Preparation!OwnerGone(x10[f].leader) => Preparation!OwnerGone(x10[f].leader)'
  BY <1>1, FlightsTyped DEF ResolverOK, OperationsKept, Preparation!OwnerGone, Preparation!IsCancelled
<1>6. Preparation!CausesAreOwn'
  BY <1>2, <1>5, FlightsTyped DEF ResolverOK, Preparation!CausesAreOwn
<1>7. Preparation!CancelNeedsACause'
  <2> SUFFICES ASSUME NEW r \in Requests, x9[r].pc = "done", x9[r].answer = "cancelled"
               PROVE  Preparation!OwnerGone(r)' \/ Preparation!OwnerGone(x10[x9[r].flight].leader)'
    BY DEF Preparation!CancelNeedsACause, Preparation!Flight
  <2>1. x9[r].flight \in 1 .. Len(x10)
    BY FlightOfRequest
  <2> QED
    BY <1>2, <1>5, <2>1 DEF ResolverOK, Preparation!CancelNeedsACause, Preparation!Flight
<1> QED
  BY <1>3, <1>4, <1>6, <1>7 DEF ResolverOK, OperationsKept

\* A request that leads a flight goes on with its work.
LEMMA LeaderWorks ==
    ASSUME ResolverOK, OperationsKept, NEW r \in Requests, NEW n \in Preparation!Request,
           x9' = [x9 EXCEPT ![r] = n], UNCHANGED <<x10, x11>>, x12' \in Seq(Entries),
           x9[r].pc \in Preparation!Leading, n.pc \in Preparation!Leading,
           n.key = x9[r].key, n.op = x9[r].op, n.flight = x9[r].flight,
           n.pc \in {"put", "publish", "remove"} /\ n.answer = "cancelled" => Preparation!OwnerGone(r)
    PROVE  ResolverOK'
<1>1. x9 \in [Requests -> Preparation!Request] /\ x9' \in [Requests -> Preparation!Request]
  BY DEF ResolverOK, RequestsTypeOK
<1>2. /\ x9'[r] = n /\ \A s \in Requests \ {r} : x9'[s] = x9[s]
      /\ \A s \in Requests : /\ x9'[s].key = x9[s].key /\ x9'[s].op = x9[s].op
                             /\ x9'[s].flight = x9[s].flight
                             /\ x9'[s].pc \in Preparation!Leading <=> x9[s].pc \in Preparation!Leading
                             /\ x9'[s].pc \in Preparation!Consuming <=> x9[s].pc \in Preparation!Consuming
  BY <1>1, StepSets
<1>3. \A s \in Requests : x9[s].op # 0 => x9[s].op \in 1 .. Len(x2)
  BY DEF ResolverOK, RequestsTypeOK
<1>4. \A s \in Requests : Preparation!OwnerGone(s) => Preparation!OwnerGone(s)'
  BY <1>2, <1>3 DEF OperationsKept, Preparation!OwnerGone, Preparation!IsCancelled
<1>5. RequestsTypeOK'
  <2>1. \A s \in Requests :
           /\ x9'[s].op \in 0 .. Len(x2') /\ x9'[s].flight \in 0 .. Len(x10)
           /\ x9'[s].pc \in Preparation!Consuming => x9'[s].flight # 0
    BY <1>2, LenProperties DEF ResolverOK, RequestsTypeOK, OperationsKept
  <2>2. \A s \in Requests :
           /\ x9'[s].pc # "idle" => x9'[s].key \in Preparation!Keys
           /\ x9'[s].pc \in Preparation!Asking => x9'[s].flight = 0
    BY <1>2, StepSets DEF ResolverOK, RequestsTypeOK
  <2> QED
    BY <1>1, <2>1, <2>2 DEF ResolverOK, RequestsTypeOK
<1>6. Preparation!FlightsAreLed'
  <2>1. \A f \in 1 .. Len(x10) : x9'[x10[f].leader].flight = f
    BY <1>2, FlightsTyped DEF ResolverOK, Preparation!FlightsAreLed
  <2>2. \A s \in Requests : x9'[s].pc \in Preparation!Leading =>
           x11[x9'[s].key] = x9'[s].flight /\ x10[x9'[s].flight].leader = s
    BY <1>2 DEF ResolverOK, Preparation!FlightsAreLed, Preparation!Flight
  <2>3. ASSUME NEW key \in Preparation!Keys, x11[key] # 0
        PROVE  /\ x9'[x10[x11[key]].leader].pc \in Preparation!Leading
               /\ x9'[x10[x11[key]].leader].key = key
    <3>1. x11[key] \in 1 .. Len(x10)
      BY <2>3, FlightsTyped DEF ResolverOK, RequestsTypeOK
    <3> QED
      BY <1>2, <2>3, <3>1, FlightsTyped DEF ResolverOK, Preparation!FlightsAreLed
  <2> QED
    BY <2>1, <2>2, <2>3, FlightsTyped DEF ResolverOK, Preparation!FlightsAreLed, Preparation!Flight
<1>7. \A f \in 1 .. Len(x10) : Preparation!Consumers(f)' = Preparation!Consumers(f)
  BY <1>2 DEF Preparation!Consumers
<1>8. Preparation!ConsumersAreCounted'
  BY <1>7, FlightsTyped DEF ResolverOK, Preparation!ConsumersAreCounted
<1>9. \A f \in 1 .. Len(x10) : Preparation!OwnerGone(x10[f].leader) => Preparation!OwnerGone(x10[f].leader)'
  BY <1>2, <1>3, FlightsTyped DEF ResolverOK, OperationsKept, Preparation!OwnerGone, Preparation!IsCancelled
<1>10. Preparation!CausesAreOwn'
  <2>1. ASSUME NEW s \in Requests,
               x9'[s].pc \in {"put", "publish", "remove", "leave"}, x9'[s].answer = "cancelled"
        PROVE  Preparation!OwnerGone(s)'
    <3>1. CASE s = r
      BY <1>2, <1>4, <2>1, <3>1, StepSets
    <3>2. CASE s # r
      BY <1>2, <1>4, <2>1, <3>2 DEF ResolverOK, Preparation!CausesAreOwn
    <3> QED
      BY <3>1, <3>2
  <2>2. \A s \in Requests : x9'[s].pc = "done" /\ x9'[s].flight = 0 =>
                               x9'[s].answer \in Preparation!Good
    BY <1>2, StepSets DEF ResolverOK, Preparation!CausesAreOwn
  <2>3. \A f \in DOMAIN x10 : x10[f].result = "cancelled" => Preparation!OwnerGone(x10[f].leader)'
    BY <1>9, FlightsTyped DEF ResolverOK, Preparation!CausesAreOwn
  <2> QED
    BY <2>1, <2>2, <2>3 DEF Preparation!CausesAreOwn
<1>11. Preparation!CancelNeedsACause'
  <2> SUFFICES ASSUME NEW s \in Requests, x9'[s].pc = "done", x9'[s].answer = "cancelled"
               PROVE  Preparation!OwnerGone(s)' \/ Preparation!OwnerGone(x10[x9[s].flight].leader)'
    BY <1>2 DEF Preparation!CancelNeedsACause, Preparation!Flight
  <2>1. s # r /\ x9'[s] = x9[s]
    BY <1>2, StepSets
  <2>2. x9[s].flight \in 1 .. Len(x10)
    BY <2>1, FlightOfRequest
  <2> QED
    BY <1>4, <1>9, <2>1, <2>2 DEF ResolverOK, Preparation!CancelNeedsACause, Preparation!Flight
<1> QED
  BY <1>5, <1>6, <1>8, <1>10, <1>11 DEF ResolverOK, OperationsKept

\* The window of a request is gone after the step.
WillBeGone(s) == x9'[s].op # 0 /\ (x2'[x9'[s].op].cancelled \/ x2'[x9'[s].op].closed)

\* A step of one request leaves the others', and no window comes back.
LEMMA GoneStays ==
    ASSUME ResolverOK, OperationsKept, NEW r \in Requests, NEW n \in Preparation!Request,
           x9' = [x9 EXCEPT ![r] = n]
    PROVE  /\ x9' \in [Requests -> Preparation!Request]
           /\ x9'[r] = n /\ \A s \in Requests \ {r} : x9'[s] = x9[s]
           /\ \A s \in Requests :
                 (s # r \/ n.op = x9[r].op) /\ Preparation!OwnerGone(s) => WillBeGone(s)
<1>1. x9 \in [Requests -> Preparation!Request] /\ x9' \in [Requests -> Preparation!Request]
  BY DEF ResolverOK, RequestsTypeOK
<1>2. x9'[r] = n /\ \A s \in Requests \ {r} : x9'[s] = x9[s]
  BY <1>1
<1>3. \A s \in Requests : (s # r \/ n.op = x9[r].op) /\ x9[s].op # 0 =>
         x9[s].op \in 1 .. Len(x2) /\ x9'[s].op = x9[s].op
  BY <1>2, FlightOfRequest
<1> QED
  BY <1>1, <1>2, <1>3 DEF OperationsKept, WillBeGone, Preparation!OwnerGone, Preparation!IsCancelled

\* A request without a flight goes on, or is answered by the cache.
LEMMA RequestAsks ==
    ASSUME ResolverOK, OperationsKept, NEW r \in Requests, NEW n \in Preparation!Request,
           x9' = [x9 EXCEPT ![r] = n], UNCHANGED <<x10, x11>>, x12' \in Seq(Entries),
           x9[r].pc \in Preparation!Asking, n.pc \in (Preparation!Asking \ {"idle"}) \cup {"done"},
           n.key \in Preparation!Keys, n.flight = 0, x9[r].pc = "idle" \/ n.op = x9[r].op,
           n.op \in 0 .. Len(x2), n.pc = "done" => n.answer \in Preparation!Good
    PROVE  ResolverOK'
<1>1. /\ x9' \in [Requests -> Preparation!Request]
      /\ x9'[r] = n /\ \A s \in Requests \ {r} : x9'[s] = x9[s]
      /\ \A s \in Requests \ {r} : Preparation!OwnerGone(s) => WillBeGone(s)
  BY GoneStays
<1>2. /\ x9[r].flight = 0 /\ x9[r].pc \notin Preparation!Consuming /\ x9[r].pc # "done"
      /\ n.pc \notin Preparation!Consuming /\ n.pc \notin Preparation!Leading
  BY StepSets DEF ResolverOK, RequestsTypeOK
<1>3. RequestsTypeOK /\ Len(x10) \in Nat /\ DOMAIN x10 = 1 .. Len(x10)
  BY FlightsTyped DEF ResolverOK
<1>4. \A f \in 1 .. Len(x10) : x10[f].leader \in Requests \ {r}
  BY <1>2, <1>3, FlightsTyped DEF ResolverOK, Preparation!FlightsAreLed
<1>5. RequestsTypeOK'
  <2>1. Len(x2) \in Nat /\ Len(x2') \in Nat /\ Len(x2') >= Len(x2)
    BY LenProperties DEF ResolverOK, OperationsKept
  <2>2. \A s \in Requests :
           /\ x9'[s].op \in 0 .. Len(x2') /\ x9'[s].flight \in 0 .. Len(x10)
           /\ x9'[s].pc \in Preparation!Consuming => x9'[s].flight # 0
    BY <1>1, <1>2, <1>3, <2>1 DEF RequestsTypeOK
  <2>3. \A s \in Requests :
           /\ x9'[s].pc # "idle" => x9'[s].key \in Preparation!Keys
           /\ x9'[s].pc \in Preparation!Asking => x9'[s].flight = 0
    BY <1>1, <1>3 DEF RequestsTypeOK
  <2> QED
    BY <1>1, <1>3, <2>2, <2>3 DEF RequestsTypeOK
<1>6. Preparation!FlightsAreLed'
  <2>1. \A f \in 1 .. Len(x10) : x9'[x10[f].leader].flight = f
    BY <1>1, <1>3, <1>4 DEF ResolverOK, Preparation!FlightsAreLed
  <2>2. \A s \in Requests : x9'[s].pc \in Preparation!Leading =>
           x11[x9'[s].key] = x9'[s].flight /\ x10[x9'[s].flight].leader = s
    BY <1>1, <1>2 DEF ResolverOK, Preparation!FlightsAreLed, Preparation!Flight
  <2>3. ASSUME NEW key \in Preparation!Keys, x11[key] # 0
        PROVE  /\ x9'[x10[x11[key]].leader].pc \in Preparation!Leading
               /\ x9'[x10[x11[key]].leader].key = key
    <3>1. x11[key] \in 1 .. Len(x10)
      BY <1>3, <2>3 DEF RequestsTypeOK
    <3> QED
      BY <1>1, <1>4, <2>3, <3>1 DEF ResolverOK, Preparation!FlightsAreLed
  <2> QED
    BY <1>3, <2>1, <2>2, <2>3 DEF ResolverOK, Preparation!FlightsAreLed, Preparation!Flight
<1>7. \A f \in 1 .. Len(x10) : Preparation!Consumers(f)' = Preparation!Consumers(f)
  BY <1>1, <1>2 DEF Preparation!Consumers
<1>8. Preparation!ConsumersAreCounted'
  BY <1>3, <1>7 DEF ResolverOK, Preparation!ConsumersAreCounted
<1>9. Preparation!CausesAreOwn'
  <2>1. \A s \in Requests :
          /\ x9'[s].pc \in {"put", "publish", "remove", "leave"} /\ x9'[s].answer = "cancelled" =>
                Preparation!OwnerGone(s)
          /\ x9'[s].pc = "done" /\ x9'[s].flight = 0 => x9'[s].answer \in Preparation!Good
    BY <1>1, <1>2, StepSets DEF ResolverOK, Preparation!CausesAreOwn
  <2>2. \A f \in 1 .. Len(x10) : x10[f].result = "cancelled" => Preparation!OwnerGone(x10[f].leader)
    BY <1>3 DEF ResolverOK, Preparation!CausesAreOwn
  <2>3. \A s \in Requests :
          x9'[s].pc \in {"put", "publish", "remove", "leave"} => s # r
    BY <1>1, <1>2, StepSets
  <2> QED
    BY <1>1, <1>3, <1>4, <2>1, <2>2, <2>3
    DEF Preparation!CausesAreOwn, WillBeGone, Preparation!OwnerGone, Preparation!IsCancelled
<1>10. Preparation!CancelNeedsACause'
  <2> SUFFICES ASSUME NEW s \in Requests, x9'[s].pc = "done", x9'[s].answer = "cancelled"
               PROVE  WillBeGone(s) \/ WillBeGone(x10[x9'[s].flight].leader)
    BY <1>1
    DEF Preparation!CancelNeedsACause, Preparation!Flight, WillBeGone, Preparation!OwnerGone,
        Preparation!IsCancelled
  <2>1. s # r /\ x9'[s] = x9[s]
    BY <1>1, StepSets
  <2>2. x9[s].flight \in 1 .. Len(x10)
    BY <2>1, FlightOfRequest
  <2>3. Preparation!OwnerGone(s) \/ Preparation!OwnerGone(x10[x9[s].flight].leader)
    BY <2>1 DEF ResolverOK, Preparation!CancelNeedsACause, Preparation!Flight
  <2> QED
    BY <1>1, <1>4, <2>1, <2>2, <2>3
<1> QED
  BY <1>5, <1>6, <1>8, <1>9, <1>10 DEF ResolverOK, OperationsKept

\* One request steps and its flight changes: the others keep theirs.
LEMMA FlightChanges ==
    ASSUME ResolverOK, OperationsKept, NEW r \in Requests, NEW n \in Preparation!Request,
           x9' = [x9 EXCEPT ![r] = n], NEW f \in 1 .. Len(x10), NEW m \in Preparation!FlightRecord,
           x10' = [x10 EXCEPT ![f] = m], UNCHANGED <<x11, x12>>,
           m.leader = x10[f].leader, n.op = x9[r].op, n.key = x9[r].key, n.flight = f,
           x9[r].flight \in {0, f}, x9[r].pc # "idle",
           n.pc \in Preparation!Consuming \cup {"done"},
           n.pc \in Preparation!Leading <=> x9[r].pc \in Preparation!Leading,
           m.consumers = Preparation!Cardinality(Preparation!Consumers(f)'),
           m.cancelled => Preparation!Consumers(f)' = {},
           m.result = "cancelled" => Preparation!OwnerGone(x10[f].leader),
           n.pc \in {"put", "publish", "remove", "leave"} /\ n.answer = "cancelled" =>
               Preparation!OwnerGone(r),
           n.pc = "done" /\ n.answer = "cancelled" =>
               Preparation!OwnerGone(r) \/ Preparation!OwnerGone(x10[f].leader)
    PROVE  ResolverOK'
<1>1. /\ x9' \in [Requests -> Preparation!Request]
      /\ x9'[r] = n /\ \A s \in Requests \ {r} : x9'[s] = x9[s]
      /\ \A s \in Requests : Preparation!OwnerGone(s) => WillBeGone(s)
  BY GoneStays
<1>2. RequestsTypeOK /\ Len(x10) \in Nat /\ DOMAIN x10 = 1 .. Len(x10)
  BY FlightsTyped DEF ResolverOK
<1>3. /\ x10' \in Seq(Preparation!FlightRecord) /\ Len(x10') = Len(x10)
      /\ \A g \in 1 .. Len(x10) : x10'[g] = IF g = f THEN m ELSE x10[g]
  BY ExceptSeq DEF ResolverOK, RequestsTypeOK
<1>4. DOMAIN x10' = 1 .. Len(x10)
  BY <1>3, LenProperties
<1>5. \A g \in 1 .. Len(x10) : /\ x10'[g].leader = x10[g].leader /\ x10[g].leader \in Requests
                               /\ g # f => x10'[g] = x10[g]
  BY <1>2, <1>3, FlightsTyped
<1>6. \A s \in Requests : /\ x9'[s].op = x9[s].op /\ x9'[s].key = x9[s].key
                          /\ x9'[s].flight = x9[s].flight \/ (s = r /\ x9[s].flight = 0 /\ x9'[s].flight = f)
                          /\ x9'[s].pc \in Preparation!Leading <=> x9[s].pc \in Preparation!Leading
  BY <1>1
<1>7. RequestsTypeOK'
  <2>1. Len(x2) \in Nat /\ Len(x2') \in Nat /\ Len(x2') >= Len(x2)
    BY LenProperties DEF ResolverOK, OperationsKept
  <2>2. n.pc \notin Preparation!Asking /\ n.pc # "idle"
    BY StepSets
  <2>3. \A s \in Requests :
           /\ x9'[s].op \in 0 .. Len(x2') /\ x9'[s].flight \in 0 .. Len(x10)
           /\ x9'[s].pc \in Preparation!Consuming => x9'[s].flight # 0
    BY <1>1, <1>2, <2>1 DEF RequestsTypeOK
  <2>4. \A s \in Requests :
           /\ x9'[s].pc # "idle" => x9'[s].key \in Preparation!Keys
           /\ x9'[s].pc \in Preparation!Asking => x9'[s].flight = 0
    BY <1>1, <1>2, <2>2 DEF RequestsTypeOK
  <2> QED
    BY <1>1, <1>2, <1>3, <2>3, <2>4 DEF RequestsTypeOK
<1>8. Preparation!FlightsAreLed'
  <2>1. ASSUME NEW g \in 1 .. Len(x10) PROVE x9'[x10[g].leader].flight = g
    <3>1. x9[x10[g].leader].flight = g
      BY <1>2 DEF ResolverOK, Preparation!FlightsAreLed
    <3> QED
      BY <1>1, <1>2, <1>5, <3>1
  <2>2. ASSUME NEW s \in Requests, x9'[s].pc \in Preparation!Leading
        PROVE  x11[x9'[s].key] = x9'[s].flight /\ x10'[x9'[s].flight].leader = s
    <3>1. /\ x9[s].pc \in Preparation!Leading /\ x9[s].pc \in Preparation!Consuming
          /\ x9[s].flight \in 1 .. Len(x10)
      BY <1>6, <2>2, FlightOfRequest, StepSets
    <3>2. x11[x9[s].key] = x9[s].flight /\ x10[x9[s].flight].leader = s
      BY <3>1 DEF ResolverOK, Preparation!FlightsAreLed, Preparation!Flight
    <3>3. x9'[s].flight = x9[s].flight
      BY <1>2, <1>6, <3>1
    <3> QED
      BY <1>5, <1>6, <3>1, <3>2, <3>3
  <2>3. ASSUME NEW key \in Preparation!Keys, x11[key] # 0
        PROVE  /\ x9'[x10'[x11[key]].leader].pc \in Preparation!Leading
               /\ x9'[x10'[x11[key]].leader].key = key
    <3>1. x11[key] \in 1 .. Len(x10)
      BY <1>2, <2>3 DEF RequestsTypeOK
    <3>2. /\ x9[x10[x11[key]].leader].pc \in Preparation!Leading
          /\ x9[x10[x11[key]].leader].key = key
      BY <2>3 DEF ResolverOK, Preparation!FlightsAreLed
    <3> QED
      BY <1>5, <1>6, <3>1, <3>2
  <2>4. \A g \in 1 .. Len(x10) : x9'[x10'[g].leader].flight = g
    BY <1>5, <2>1
  <2> QED
    BY <1>4, <2>2, <2>3, <2>4 DEF ResolverOK, Preparation!FlightsAreLed, Preparation!Flight
<1>9. \A g \in 1 .. Len(x10) : g # f => Preparation!Consumers(g)' = Preparation!Consumers(g)
  <2> SUFFICES ASSUME NEW g \in 1 .. Len(x10), g # f
               PROVE  Preparation!Consumers(g)' = Preparation!Consumers(g)
    OBVIOUS
  <2>1. x9[r].flight # g /\ n.flight # g
    BY <1>2
  <2> QED
    BY <1>1, <2>1 DEF Preparation!Consumers
<1>10. Preparation!ConsumersAreCounted'
  <2> SUFFICES ASSUME NEW g \in DOMAIN x10'
               PROVE  (/\ x10[g].consumers = Preparation!Cardinality(Preparation!Consumers(g))
                       /\ x10[g].cancelled => Preparation!Consumers(g) = {})'
    BY DEF Preparation!ConsumersAreCounted
  <2>1. CASE g = f
    BY <1>3, <2>1
  <2>2. CASE g # f
    <3>1. Preparation!Consumers(g)' = Preparation!Consumers(g)
      BY <1>4, <1>9, <2>2
    <3>2. x10'[g] = x10[g] /\ g \in 1 .. Len(x10)
      BY <1>4, <1>5, <2>2
    <3> QED
      BY <1>2, <3>1, <3>2 DEF ResolverOK, Preparation!ConsumersAreCounted
  <2> QED
    BY <2>1, <2>2
<1>12. Preparation!CausesAreOwn'
  <2>1. \A s \in Requests :
          /\ x9'[s].pc \in {"put", "publish", "remove", "leave"} /\ x9'[s].answer = "cancelled" =>
                Preparation!OwnerGone(s)
          /\ x9'[s].pc = "done" /\ x9'[s].flight = 0 => x9'[s].answer \in Preparation!Good
    BY <1>1, <1>2 DEF ResolverOK, Preparation!CausesAreOwn
  <2>2. \A g \in 1 .. Len(x10) : x10'[g].result = "cancelled" => Preparation!OwnerGone(x10[g].leader)
    BY <1>2, <1>3 DEF ResolverOK, Preparation!CausesAreOwn
  <2>3. \A g \in 1 .. Len(x10) : x10'[g].result = "cancelled" => WillBeGone(x10'[g].leader)
    BY <1>1, <1>5, <2>2
  <2> QED
    BY <1>4, <1>1, <2>1, <2>3
    DEF Preparation!CausesAreOwn, WillBeGone, Preparation!OwnerGone, Preparation!IsCancelled
<1>13. Preparation!CancelNeedsACause'
  <2> SUFFICES ASSUME NEW s \in Requests, x9'[s].pc = "done", x9'[s].answer = "cancelled"
               PROVE  WillBeGone(s) \/ WillBeGone(x10'[x9'[s].flight].leader)
    BY <1>1
    DEF Preparation!CancelNeedsACause, Preparation!Flight, WillBeGone, Preparation!OwnerGone,
        Preparation!IsCancelled
  <2>1. /\ x9'[s].flight \in 1 .. Len(x10)
        /\ Preparation!OwnerGone(s) \/ Preparation!OwnerGone(x10[x9'[s].flight].leader)
    <3>1. CASE s = r
      BY <1>1, <3>1
    <3>2. CASE s # r
      <4>1. x9'[s] = x9[s]
        BY <1>1, <3>2
      <4> QED
        BY <4>1, FlightOfRequest DEF ResolverOK, Preparation!CancelNeedsACause, Preparation!Flight
    <3> QED
      BY <3>1, <3>2
  <2> QED
    BY <1>1, <1>5, <2>1
<1> QED
  BY <1>7, <1>8, <1>10, <1>12, <1>13 DEF ResolverOK, OperationsKept

\* MediaResolver counts as FiniteSets does.
LEMMA SameConsumers == \A S : Preparation!Cardinality(S) = Cardinality(S)
BY DEF Preparation!Cardinality, Cardinality

\* One more and one less of those who want a flight.
LEMMA ConsumersCount ==
    ASSUME NEW S \in SUBSET Requests, NEW r \in Requests
    PROVE  /\ Preparation!Cardinality(S) \in Nat /\ Preparation!Cardinality({r}) = 1
           /\ r \notin S => Preparation!Cardinality(S \cup {r}) = Preparation!Cardinality(S) + 1
           /\ r \in S => /\ Preparation!Cardinality(S) > 0
                         /\ Preparation!Cardinality(S \ {r}) = Preparation!Cardinality(S) - 1
                         /\ Preparation!Cardinality(S) = 1 => S \ {r} = {}
<1>1. IsFiniteSet(S) /\ IsFiniteSet(S \ {r})
  BY PreparationAssumption, FS_Subset
<1>2. Cardinality(S) \in Nat /\ Cardinality(S \ {r}) \in Nat
  BY <1>1, FS_CardinalityType
<1>3. Cardinality({r}) = 1
  BY FS_Singleton
<1>4. r \notin S => Cardinality(S \cup {r}) = Cardinality(S) + 1
  BY <1>1, FS_AddElement
<1>5. r \in S => Cardinality(S \ {r}) = Cardinality(S) - 1
  BY <1>1, FS_RemoveElement
<1>6. r \in S /\ Cardinality(S) = 1 => S \ {r} = {}
  BY <1>1, <1>5, FS_EmptySet
<1> QED
  BY <1>2, <1>3, <1>4, <1>5, <1>6, SameConsumers

\* The first request for a key opens a flight and leads it.
LEMMA FlightOpens ==
    ASSUME ResolverOK, NEW r \in Requests, x11[x9[r].key] = 0, Preparation!Acquires(r),
           NEW f, f = Len(x10) + 1
    PROVE  ResolverOK'
<1> DEFINE m == [consumers |-> 1, cancelled |-> FALSE, result |-> "none", leader |-> r]
           n == [x9[r] EXCEPT !.pc = "loop", !.flight = f]
<1>1. /\ x9[r].pc = "acquire" /\ x9' = [x9 EXCEPT ![r] = n] /\ x10' = Append(x10, m)
      /\ x11' = [x11 EXCEPT ![x9[r].key] = f] /\ UNCHANGED <<x2, x12>>
  BY DEF Preparation!Acquires, Preparation!Joins, Preparation!winVars
<1>2. RequestsTypeOK /\ Len(x10) \in Nat /\ DOMAIN x10 = 1 .. Len(x10)
  BY FlightsTyped DEF ResolverOK
<1>3. /\ x9[r] \in Preparation!Request /\ x9[r].key \in Preparation!Keys /\ x9[r].flight = 0
      /\ x9[r].op \in 0 .. Len(x2)
  BY <1>1, <1>2, StepSets DEF RequestsTypeOK
<1>4. n \in Preparation!Request /\ n.pc = "loop" /\ n.flight = f /\ n.op = x9[r].op /\ n.key = x9[r].key
  <2>1. n \in [pc : {"loop"}, key : {x9[r].key}, op : {x9[r].op}, flight : {f},
                profile : {x9[r].profile}, selected : {x9[r].selected}, answer : {x9[r].answer}]
    BY <1>3 DEF Preparation!Request
  <2>2. "loop" \in Preparation!Consuming
    BY StepSets
  <2>3. f \in Nat
    BY <1>2
  <2> HIDE DEF n
  <2> QED
    BY <1>3, <2>1, <2>2, <2>3 DEF Preparation!Request
<1>5. m \in Preparation!FlightRecord
  BY DEF Preparation!FlightRecord
<1> HIDE DEF n
<1>6. /\ x9' \in [Requests -> Preparation!Request]
      /\ x9'[r] = n /\ \A s \in Requests \ {r} : x9'[s] = x9[s]
  BY <1>1, <1>2, <1>4 DEF RequestsTypeOK
<1>7. /\ x10' \in Seq(Preparation!FlightRecord) /\ Len(x10') = f /\ DOMAIN x10' = 1 .. f
      /\ x10'[f] = m /\ \A g \in 1 .. Len(x10) : x10'[g] = x10[g]
  <2>1. x10 \in Seq(Preparation!FlightRecord)
    BY <1>2 DEF RequestsTypeOK
  <2>2. /\ x10' \in Seq(Preparation!FlightRecord) /\ Len(x10') = f
        /\ x10'[f] = m /\ \A g \in 1 .. Len(x10) : x10'[g] = x10[g]
    BY <1>1, <1>5, <2>1, AppendProperties
  <2> QED
    BY <2>2, LenProperties
<1>8. /\ x11' \in [Preparation!Keys -> 0 .. f] /\ x11'[x9[r].key] = f
      /\ \A key \in Preparation!Keys : key # x9[r].key => x11'[key] = x11[key]
  BY <1>1, <1>2, <1>3 DEF RequestsTypeOK
<1>9. \A g \in 1 .. Len(x10) : x10[g].leader \in Requests \ {r}
  BY <1>2, <1>3, FlightsTyped DEF ResolverOK, Preparation!FlightsAreLed
<1> HIDE DEF m
<1>10. m.leader = r /\ m.consumers = 1 /\ ~m.cancelled /\ m.result = "none"
  BY DEF m
<1>11. f \in Nat /\ f > Len(x10) /\ f - 1 = Len(x10) /\ f # 0
  BY <1>2
<1>12. RequestsTypeOK'
  <2>1. \A s \in Requests :
           /\ x9'[s].op \in 0 .. Len(x2') /\ x9'[s].flight \in 0 .. f
           /\ x9'[s].pc \in Preparation!Consuming => x9'[s].flight # 0
    BY <1>1, <1>2, <1>3, <1>4, <1>6, <1>11 DEF RequestsTypeOK
  <2>2. \A s \in Requests :
           /\ x9'[s].pc # "idle" => x9'[s].key \in Preparation!Keys
           /\ x9'[s].pc \in Preparation!Asking => x9'[s].flight = 0
    BY <1>2, <1>3, <1>4, <1>6, StepSets DEF RequestsTypeOK
  <2> QED
    BY <1>1, <1>2, <1>6, <1>7, <1>8, <2>1, <2>2 DEF RequestsTypeOK
<1>13. Preparation!FlightsAreLed'
  <2>1. \A g \in 1 .. f : x9'[x10'[g].leader].flight = g
    <3> SUFFICES ASSUME NEW g \in 1 .. f PROVE x9'[x10'[g].leader].flight = g
      OBVIOUS
    <3>1. CASE g = f
      BY <1>4, <1>6, <1>7, <1>10, <3>1
    <3>2. CASE g \in 1 .. Len(x10)
      BY <1>2, <1>6, <1>7, <1>9, <3>2 DEF ResolverOK, Preparation!FlightsAreLed
    <3> QED
      BY <1>2, <1>11, <3>1, <3>2
  <2>2. ASSUME NEW s \in Requests, x9'[s].pc \in Preparation!Leading
        PROVE  x11'[x9'[s].key] = x9'[s].flight /\ x10'[x9'[s].flight].leader = s
    <3>1. CASE s = r
      BY <1>4, <1>6, <1>7, <1>8, <1>10, <3>1
    <3>2. CASE s # r
      <4>1. x9'[s] = x9[s] /\ x9[s].pc \in Preparation!Leading
        BY <1>6, <2>2, <3>2
      <4>2. x9[s].flight \in 1 .. Len(x10) /\ x9[s].key \in Preparation!Keys
        BY <1>2, <4>1, FlightOfRequest, StepSets DEF RequestsTypeOK
      <4>3. x11[x9[s].key] = x9[s].flight /\ x10[x9[s].flight].leader = s
        BY <4>1 DEF ResolverOK, Preparation!FlightsAreLed, Preparation!Flight
      <4>4. x9[s].key # x9[r].key
        BY <1>2, <4>2, <4>3
      <4> QED
        BY <1>7, <1>8, <4>1, <4>2, <4>3, <4>4
    <3> QED
      BY <3>1, <3>2
  <2>3. ASSUME NEW key \in Preparation!Keys, x11'[key] # 0
        PROVE  /\ x9'[x10'[x11'[key]].leader].pc \in Preparation!Leading
               /\ x9'[x10'[x11'[key]].leader].key = key
    <3>1. CASE key = x9[r].key
      BY <1>4, <1>6, <1>7, <1>8, <1>10, <3>1, StepSets
    <3>2. CASE key # x9[r].key
      <4>1. x11'[key] = x11[key] /\ x11[key] \in 1 .. Len(x10)
        BY <1>2, <1>8, <2>3, <3>2 DEF RequestsTypeOK
      <4>2. /\ x9[x10[x11[key]].leader].pc \in Preparation!Leading
            /\ x9[x10[x11[key]].leader].key = key
        BY <2>3, <4>1 DEF ResolverOK, Preparation!FlightsAreLed
      <4> QED
        BY <1>6, <1>7, <1>9, <4>1, <4>2
    <3> QED
      BY <3>1, <3>2
  <2> QED
    BY <1>7, <2>1, <2>2, <2>3 DEF Preparation!FlightsAreLed, Preparation!Flight
<1>14. /\ \A g \in 1 .. Len(x10) : Preparation!Consumers(g)' = Preparation!Consumers(g)
       /\ Preparation!Consumers(f)' = {r}
  <2>1. \A s \in Requests : x9[s].flight # f
    BY <1>2, <1>11 DEF RequestsTypeOK
  <2>2. \A g \in 1 .. Len(x10) : x9[r].flight # g /\ n.flight # g
    BY <1>2, <1>3, <1>4, <1>11
  <2> QED
    BY <1>4, <1>6, <2>1, <2>2, StepSets DEF Preparation!Consumers
<1>15. Preparation!ConsumersAreCounted'
  <2> SUFFICES ASSUME NEW g \in DOMAIN x10'
               PROVE  (/\ x10[g].consumers = Preparation!Cardinality(Preparation!Consumers(g))
                       /\ x10[g].cancelled => Preparation!Consumers(g) = {})'
    BY DEF Preparation!ConsumersAreCounted
  <2>1. CASE g = f
    <3>1. Preparation!Cardinality({r}) = 1
      BY ConsumersCount
    <3> QED
      BY <1>7, <1>10, <1>14, <2>1, <3>1
  <2>2. CASE g \in 1 .. Len(x10)
    BY <1>2, <1>7, <1>14, <2>2 DEF ResolverOK, Preparation!ConsumersAreCounted
  <2> QED
    BY <1>2, <1>7, <1>11, <2>1, <2>2
<1>16. Preparation!CausesAreOwn'
  <2>1. \A s \in Requests : Preparation!OwnerGone(s) => WillBeGone(s)
    BY <1>1, <1>4, <1>6 DEF WillBeGone, Preparation!OwnerGone, Preparation!IsCancelled
  <2>2. \A s \in Requests :
          /\ x9'[s].pc \in {"put", "publish", "remove", "leave"} /\ x9'[s].answer = "cancelled" =>
                Preparation!OwnerGone(s)
          /\ x9'[s].pc = "done" /\ x9'[s].flight = 0 => x9'[s].answer \in Preparation!Good
    BY <1>4, <1>6 DEF ResolverOK, Preparation!CausesAreOwn
  <2>3. \A g \in 1 .. f : x10'[g].result = "cancelled" =>
           g \in 1 .. Len(x10) /\ x10'[g] = x10[g] /\ Preparation!OwnerGone(x10[g].leader)
    BY <1>2, <1>7, <1>10, <1>11 DEF ResolverOK, Preparation!CausesAreOwn
  <2>4. \A g \in 1 .. f : x10'[g].result = "cancelled" => WillBeGone(x10'[g].leader)
    BY <1>9, <2>1, <2>3
  <2> QED
    BY <1>7, <2>1, <2>2, <2>4
    DEF Preparation!CausesAreOwn, WillBeGone, Preparation!OwnerGone, Preparation!IsCancelled
<1>17. Preparation!CancelNeedsACause'
  <2> SUFFICES ASSUME NEW s \in Requests, x9'[s].pc = "done", x9'[s].answer = "cancelled"
               PROVE  (Preparation!OwnerGone(s) \/ Preparation!OwnerGone(Preparation!Flight(s).leader))'
    BY DEF Preparation!CancelNeedsACause
  <2>1. s # r /\ x9'[s] = x9[s]
    BY <1>4, <1>6
  <2>2. x9[s].flight \in 1 .. Len(x10)
    BY <2>1, FlightOfRequest
  <2>3. Preparation!OwnerGone(s) \/ Preparation!OwnerGone(x10[x9[s].flight].leader)
    BY <2>1 DEF ResolverOK, Preparation!CancelNeedsACause, Preparation!Flight
  <2>4. \A t \in Requests \ {r} : Preparation!OwnerGone(t)' = Preparation!OwnerGone(t)
    BY <1>1, <1>6 DEF Preparation!OwnerGone, Preparation!IsCancelled
  <2>5. Preparation!Flight(s)' = x10[x9[s].flight]
    BY <1>7, <2>1, <2>2 DEF Preparation!Flight
  <2>6. x10[x9[s].flight].leader \in Requests \ {r}
    BY <1>9, <2>2
  <2> QED
    BY <2>1, <2>3, <2>4, <2>5, <2>6
<1> QED
  BY <1>1, <1>12, <1>13, <1>15, <1>16, <1>17 DEF ResolverOK

\* The leader takes its flight off the key: the next request opens another.
LEMMA FlightIsRemoved ==
    ASSUME ResolverOK, NEW r \in Requests, Preparation!Removes(r)
    PROVE  ResolverOK'
<1> DEFINE n == [x9[r] EXCEPT !.pc = "leave"]
<1>1. /\ x9[r].pc = "remove" /\ x9' = [x9 EXCEPT ![r] = n]
      /\ x11' = [x11 EXCEPT ![x9[r].key] = 0] /\ UNCHANGED <<x2, x10, x12>>
  BY DEF Preparation!Removes, Preparation!Goes, Preparation!winVars
<1>2. RequestsTypeOK /\ Len(x10) \in Nat /\ DOMAIN x10 = 1 .. Len(x10)
  BY FlightsTyped DEF ResolverOK
<1>3. /\ x9[r] \in Preparation!Request /\ x9[r].key \in Preparation!Keys
      /\ x9[r].pc \in Preparation!Leading
  BY <1>1, <1>2, StepSets DEF RequestsTypeOK
<1>4. /\ n \in Preparation!Request /\ n.pc = "leave" /\ n.flight = x9[r].flight /\ n.op = x9[r].op
      /\ n.key = x9[r].key /\ n.answer = x9[r].answer
  BY <1>3, StepSets DEF Preparation!Request
<1> HIDE DEF n
<1>5. /\ x9' \in [Requests -> Preparation!Request]
      /\ x9'[r] = n /\ \A s \in Requests \ {r} : x9'[s] = x9[s]
  BY <1>1, <1>2, <1>4 DEF RequestsTypeOK
<1>6. /\ x11' \in [Preparation!Keys -> 0 .. Len(x10)] /\ x11'[x9[r].key] = 0
      /\ \A key \in Preparation!Keys : key # x9[r].key => x11'[key] = x11[key]
  BY <1>1, <1>2, <1>3 DEF RequestsTypeOK
<1>7. x11[x9[r].key] = x9[r].flight /\ x10[x9[r].flight].leader = r
  BY <1>3 DEF ResolverOK, Preparation!FlightsAreLed, Preparation!Flight
<1>8. RequestsTypeOK'
  <2>1. \A s \in Requests :
           /\ x9'[s].op \in 0 .. Len(x2') /\ x9'[s].flight \in 0 .. Len(x10)
           /\ x9'[s].pc \in Preparation!Consuming => x9'[s].flight # 0
    BY <1>1, <1>2, <1>3, <1>4, <1>5, StepSets DEF RequestsTypeOK
  <2>2. \A s \in Requests :
           /\ x9'[s].pc # "idle" => x9'[s].key \in Preparation!Keys
           /\ x9'[s].pc \in Preparation!Asking => x9'[s].flight = 0
    BY <1>2, <1>3, <1>4, <1>5, StepSets DEF RequestsTypeOK
  <2> QED
    BY <1>1, <1>2, <1>5, <1>6, <2>1, <2>2 DEF RequestsTypeOK
<1>9. \A s \in Requests : /\ x9'[s].op = x9[s].op /\ x9'[s].key = x9[s].key /\ x9'[s].flight = x9[s].flight
                          /\ x9'[s].answer = x9[s].answer
                          /\ s # r => x9'[s].pc = x9[s].pc
                          /\ x9'[s].pc \in Preparation!Consuming <=> x9[s].pc \in Preparation!Consuming
  BY <1>1, <1>4, <1>5, StepSets
<1>10. Preparation!FlightsAreLed'
  <2>1. \A g \in 1 .. Len(x10) : x9'[x10[g].leader].flight = g
    BY <1>2, <1>9, FlightsTyped DEF ResolverOK, Preparation!FlightsAreLed
  <2>2. ASSUME NEW s \in Requests, x9'[s].pc \in Preparation!Leading
        PROVE  x11'[x9'[s].key] = x9'[s].flight /\ x10[x9'[s].flight].leader = s
    <3>1. s # r /\ x9[s].pc \in Preparation!Leading
      BY <1>4, <1>5, <2>2, StepSets
    <3>2. x11[x9[s].key] = x9[s].flight /\ x10[x9[s].flight].leader = s
      BY <3>1 DEF ResolverOK, Preparation!FlightsAreLed, Preparation!Flight
    <3>3. x9[s].key # x9[r].key
      BY <1>7, <3>1, <3>2
    <3>4. x9[s].key \in Preparation!Keys
      BY <1>2, <3>1, StepSets DEF RequestsTypeOK
    <3> QED
      BY <1>6, <1>9, <3>2, <3>3, <3>4
  <2>3. ASSUME NEW key \in Preparation!Keys, x11'[key] # 0
        PROVE  /\ x9'[x10[x11'[key]].leader].pc \in Preparation!Leading
               /\ x9'[x10[x11'[key]].leader].key = key
    <3>1. key # x9[r].key /\ x11'[key] = x11[key] /\ x11[key] \in 1 .. Len(x10)
      BY <1>2, <1>6, <2>3 DEF RequestsTypeOK
    <3>2. /\ x9[x10[x11[key]].leader].pc \in Preparation!Leading
          /\ x9[x10[x11[key]].leader].key = key
      BY <2>3, <3>1 DEF ResolverOK, Preparation!FlightsAreLed
    <3>3. x10[x11[key]].leader \in Requests \ {r}
      BY <3>1, <3>2, FlightsTyped, <1>2
    <3> QED
      BY <1>9, <3>1, <3>2, <3>3
  <2> QED
    BY <1>1, <1>2, <2>1, <2>2, <2>3 DEF Preparation!FlightsAreLed, Preparation!Flight
<1>11. \A g \in 1 .. Len(x10) : Preparation!Consumers(g)' = Preparation!Consumers(g)
  BY <1>9 DEF Preparation!Consumers
<1>12. Preparation!ConsumersAreCounted'
  BY <1>1, <1>2, <1>11 DEF ResolverOK, Preparation!ConsumersAreCounted
<1>13. \A s \in Requests : /\ Preparation!OwnerGone(s) => WillBeGone(s)
                           /\ Preparation!OwnerGone(s)' = Preparation!OwnerGone(s)
  BY <1>1, <1>9 DEF WillBeGone, Preparation!OwnerGone, Preparation!IsCancelled
<1>14. Preparation!CausesAreOwn'
  <2>1. \A s \in Requests :
          /\ x9'[s].pc \in {"put", "publish", "remove", "leave"} /\ x9'[s].answer = "cancelled" =>
                Preparation!OwnerGone(s)
          /\ x9'[s].pc = "done" /\ x9'[s].flight = 0 => x9'[s].answer \in Preparation!Good
    BY <1>1, <1>4, <1>5, <1>9 DEF ResolverOK, Preparation!CausesAreOwn
  <2>2. \A g \in 1 .. Len(x10) : x10[g].result = "cancelled" => Preparation!OwnerGone(x10[g].leader)
    BY <1>2 DEF ResolverOK, Preparation!CausesAreOwn
  <2>3. \A g \in 1 .. Len(x10) : x10[g].leader \in Requests
    BY <1>2, FlightsTyped
  <2>4. \A g \in 1 .. Len(x10) : x10'[g].result = "cancelled" => WillBeGone(x10'[g].leader)
    BY <1>1, <1>13, <2>2, <2>3
  <2> QED
    BY <1>1, <1>2, <1>13, <2>1, <2>4
    DEF Preparation!CausesAreOwn, WillBeGone, Preparation!OwnerGone, Preparation!IsCancelled
<1>15. Preparation!CancelNeedsACause'
  <2> SUFFICES ASSUME NEW s \in Requests, x9'[s].pc = "done", x9'[s].answer = "cancelled"
               PROVE  (Preparation!OwnerGone(s) \/ Preparation!OwnerGone(Preparation!Flight(s).leader))'
    BY DEF Preparation!CancelNeedsACause
  <2>1. s # r /\ x9'[s] = x9[s]
    BY <1>4, <1>5
  <2>2. x9[s].flight \in 1 .. Len(x10)
    BY <2>1, FlightOfRequest
  <2>3. Preparation!OwnerGone(s) \/ Preparation!OwnerGone(x10[x9[s].flight].leader)
    BY <2>1 DEF ResolverOK, Preparation!CancelNeedsACause, Preparation!Flight
  <2>4. Preparation!Flight(s)' = x10[x9[s].flight] /\ x10[x9[s].flight].leader \in Requests
    BY <1>1, <1>2, <2>1, <2>2, FlightsTyped DEF Preparation!Flight
  <2> QED
    BY <1>13, <2>3, <2>4
<1> QED
  BY <1>1, <1>8, <1>10, <1>12, <1>14, <1>15 DEF ResolverOK

\* Where a request may be.
Steps == Preparation!Asking \cup Preparation!Consuming \cup {"done"}

\* What a change of a request's record leaves alone.
LEMMA RequestGoes ==
    ASSUME x9 \in [Requests -> Preparation!Request], NEW r \in Requests, NEW v \in Steps,
           Preparation!Goes(r, v)
    PROVE  \E n \in Preparation!Request :
              /\ x9' = [x9 EXCEPT ![r] = n] /\ n.pc = v /\ n.key = x9[r].key /\ n.op = x9[r].op
              /\ n.flight = x9[r].flight /\ n.answer = x9[r].answer
<1> DEFINE n == [x9[r] EXCEPT !.pc = v]
<1>1. x9' = [x9 EXCEPT ![r] = n]
  BY DEF Preparation!Goes
<1>2. n \in [pc : {v}, key : {x9[r].key}, op : {x9[r].op}, flight : {x9[r].flight},
             profile : {x9[r].profile}, selected : {x9[r].selected}, answer : {x9[r].answer}]
  BY DEF Preparation!Request
<1>3. x9[r] \in Preparation!Request /\ v \in Steps
  BY StepSets DEF Steps
<1> HIDE DEF n
<1>4. n \in Preparation!Request /\ n.pc = v /\ n.key = x9[r].key /\ n.op = x9[r].op
      /\ n.flight = x9[r].flight /\ n.answer = x9[r].answer
  BY <1>2, <1>3 DEF Preparation!Request, Steps
<1> QED
  BY <1>1, <1>4

\* Ditto, with the answer of a request that is done.
LEMMA RequestEnds ==
    ASSUME x9 \in [Requests -> Preparation!Request], NEW r \in Requests, NEW u \in Preparation!Answers,
           Preparation!Ends(r, u)
    PROVE  \E n \in Preparation!Request :
              /\ x9' = [x9 EXCEPT ![r] = n] /\ n.pc = "done" /\ n.key = x9[r].key /\ n.op = x9[r].op
              /\ n.flight = x9[r].flight /\ n.answer = u
<1> DEFINE n == [x9[r] EXCEPT !.pc = "done", !.answer = u]
<1>1. x9' = [x9 EXCEPT ![r] = n]
  BY DEF Preparation!Ends
<1>2. n \in [pc : {"done"}, key : {x9[r].key}, op : {x9[r].op}, flight : {x9[r].flight},
             profile : {x9[r].profile}, selected : {x9[r].selected}, answer : {u}]
  BY DEF Preparation!Request
<1>3. x9[r] \in Preparation!Request /\ "done" \in Steps
  BY StepSets DEF Steps
<1> HIDE DEF n
<1>4. n \in Preparation!Request /\ n.pc = "done" /\ n.key = x9[r].key /\ n.op = x9[r].op
      /\ n.flight = x9[r].flight /\ n.answer = u
  BY <1>2, <1>3 DEF Preparation!Request, Steps
<1> QED
  BY <1>1, <1>4

\* Ditto, with the answer of a leader.
LEMMA RequestResolved ==
    ASSUME x9 \in [Requests -> Preparation!Request], NEW r \in Requests, NEW u \in Preparation!Answers,
           Preparation!Resolved(r, u)
    PROVE  \E n \in Preparation!Request :
              /\ x9' = [x9 EXCEPT ![r] = n] /\ n.pc = "put" /\ n.key = x9[r].key /\ n.op = x9[r].op
              /\ n.flight = x9[r].flight /\ n.answer = u
<1> DEFINE n == [x9[r] EXCEPT !.pc = "put", !.answer = u]
<1>1. x9' = [x9 EXCEPT ![r] = n]
  BY DEF Preparation!Resolved
<1>2. n \in [pc : {"put"}, key : {x9[r].key}, op : {x9[r].op}, flight : {x9[r].flight},
             profile : {x9[r].profile}, selected : {x9[r].selected}, answer : {u}]
  BY DEF Preparation!Request
<1>3. x9[r] \in Preparation!Request /\ "put" \in Steps
  BY StepSets DEF Steps
<1> HIDE DEF n
<1>4. n \in Preparation!Request /\ n.pc = "put" /\ n.key = x9[r].key /\ n.op = x9[r].op
      /\ n.flight = x9[r].flight /\ n.answer = u
  BY <1>2, <1>3 DEF Preparation!Request, Steps
<1> QED
  BY <1>1, <1>4

\* Ditto, with the flight that it waits for.
LEMMA RequestJoins ==
    ASSUME x9 \in [Requests -> Preparation!Request], NEW r \in Requests, NEW f \in Nat,
           Preparation!Joins(r, "wait", f)
    PROVE  \E n \in Preparation!Request :
              /\ x9' = [x9 EXCEPT ![r] = n] /\ n.pc = "wait" /\ n.key = x9[r].key /\ n.op = x9[r].op
              /\ n.flight = f /\ n.answer = x9[r].answer
<1> DEFINE n == [x9[r] EXCEPT !.pc = "wait", !.flight = f]
<1>1. x9' = [x9 EXCEPT ![r] = n]
  BY DEF Preparation!Joins
<1>2. n \in [pc : {"wait"}, key : {x9[r].key}, op : {x9[r].op}, flight : {f},
             profile : {x9[r].profile}, selected : {x9[r].selected}, answer : {x9[r].answer}]
  BY DEF Preparation!Request
<1>3. x9[r] \in Preparation!Request /\ "wait" \in Steps
  BY StepSets DEF Steps
<1> HIDE DEF n
<1>4. n \in Preparation!Request /\ n.pc = "wait" /\ n.key = x9[r].key /\ n.op = x9[r].op
      /\ n.flight = f /\ n.answer = x9[r].answer
  BY <1>2, <1>3 DEF Preparation!Request, Steps
<1> QED
  BY <1>1, <1>4

\* The cache holds entries, however it is searched.
LEMMA CacheIsSearched ==
    ASSUME x12 \in Seq(Entries), NEW key
    PROVE  /\ Preparation!Without(key) \in Seq(Entries) /\ Preparation!Touched(key) \in Seq(Entries)
           /\ Preparation!Hit(key) => Preparation!Entry(key) \in Entries
<1>1. Len(x12) \in Nat /\ DOMAIN x12 = 1 .. Len(x12) /\ \A i \in 1 .. Len(x12) : x12[i] \in Entries
  BY LenProperties
<1>2. Preparation!Cached(key) # {} =>
         Preparation!Position(key) \in 1 .. Len(x12) /\ Preparation!Entry(key) \in Entries
  BY <1>1 DEF Preparation!Position, Preparation!Cached, Preparation!Entry
<1>3. ASSUME Preparation!Cached(key) # {}
      PROVE  /\ SubSeq(x12, 1, Preparation!Position(key) - 1) \in Seq(Entries)
             /\ SubSeq(x12, Preparation!Position(key) + 1, Len(x12)) \in Seq(Entries)
  <2> DEFINE i == Preparation!Position(key)
  <2>1. i \in 1 .. Len(x12)
    BY <1>2, <1>3
  <2> HIDE DEF i
  <2>2. /\ i - 1 \in Int /\ i + 1 \in Int /\ Len(x12) \in Int
        /\ \A j \in 1 .. (i - 1) : x12[j] \in Entries
        /\ \A j \in (i + 1) .. Len(x12) : x12[j] \in Entries
    BY <1>1, <2>1
  <2>3. SubSeq(x12, 1, i - 1) \in Seq(Entries)
    BY <2>2, SubSeqProperties
  <2>4. SubSeq(x12, i + 1, Len(x12)) \in Seq(Entries)
    BY <2>2, SubSeqProperties
  <2> QED
    BY <2>3, <2>4 DEF i
<1>4. Preparation!Without(key) \in Seq(Entries)
  <2>1. CASE Preparation!Cached(key) = {}
    BY <2>1 DEF Preparation!Without
  <2>2. CASE Preparation!Cached(key) # {}
    BY <1>3, <2>2, ConcatProperties DEF Preparation!Without
  <2> QED
    BY <2>1, <2>2
<1>5. Preparation!Hit(key) => Preparation!Entry(key) \in Entries
  BY <1>2 DEF Preparation!Hit
<1>6. Preparation!Touched(key) \in Seq(Entries)
  BY <1>4, <1>5, AppendProperties DEF Preparation!Touched
<1> QED
  BY <1>4, <1>5, <1>6

\* A step of a request alone leaves the windows.
LEMMA WindowsAreStill ==
    ASSUME WindowsOK, UNCHANGED <<x1, x2, x3, x4, x5, x6, x7>>
    PROVE  WindowsOK' /\ OperationsKept
<1>1. RegistryOK
  BY DEF WindowsOK
<1>2. OperationsKept /\ RegistryKept
  BY <1>1, NothingIsKept
<1>3. RegistryOK'
  BY <1>1, <1>2, KeptIsOK
<1>4. Preparation!WindowsHaveOperations' /\ Preparation!MainNeverStuck'
  BY DEF WindowsOK, Preparation!WindowsHaveOperations, Preparation!MainNeverStuck
<1> QED
  BY <1>2, <1>3, <1>4 DEF WindowsOK

\* A process is given to an operation that is not cancelled, or taken from any.
LEMMA ProcessesMove ==
    ASSUME WindowsOK, UNCHANGED <<x1, x3, x4, x5, x6, x7>>,
           NEW g \in 1 .. Len(x2), NEW ps \in SUBSET Requests,
           x2' = [x2 EXCEPT ![g].processes = ps],
           ps \subseteq x2[g].processes \/ ~Preparation!IsCancelled(g)
    PROVE  WindowsOK' /\ OperationsKept
<1>1. RegistryOK /\ x2 \in Seq(Preparation!Operation)
  BY DEF WindowsOK, RegistryOK
<1>2. x2[g] \in Preparation!Operation
  BY <1>1, LenProperties
<1>3. /\ [x2[g] EXCEPT !.processes = ps] \in Preparation!Operation
      /\ x2' = [x2 EXCEPT ![g] = [x2[g] EXCEPT !.processes = ps]]
  BY <1>2 DEF Preparation!Operation
<1>4. /\ x2' \in Seq(Preparation!Operation) /\ Len(x2') = Len(x2)
      /\ \A h \in 1 .. Len(x2) : x2'[h] = IF h = g THEN [x2[g] EXCEPT !.processes = ps] ELSE x2[h]
  BY <1>1, <1>3, ExceptSeq
<1>5. \A h \in 1 .. Len(x2) : /\ x2'[h].cancelled = x2[h].cancelled /\ x2'[h].closed = x2[h].closed
                              /\ x2'[h].processes = IF h = g THEN ps ELSE x2[h].processes
  BY <1>2, <1>4 DEF Preparation!Operation
<1>6. Len(x2) \in Nat /\ DOMAIN x2 = 1 .. Len(x2) /\ DOMAIN x2' = 1 .. Len(x2)
  BY <1>1, <1>4, LenProperties
<1>7. OperationsKept
  BY <1>4, <1>5, <1>6 DEF OperationsKept
<1>8. Preparation!CancelledOwnsNothing'
  <2> SUFFICES ASSUME NEW h \in 1 .. Len(x2), x2[h].cancelled \/ x2[h].closed,
                      \A d \in x3 : d[1] # h
               PROVE  x2'[h].processes = {}
    BY <1>5, <1>6 DEF Preparation!CancelledOwnsNothing, Preparation!IsCancelled
  <2>1. x2[h].processes = {}
    BY <1>1, <1>6 DEF RegistryOK, Preparation!CancelledOwnsNothing, Preparation!IsCancelled
  <2> QED
    BY <1>5, <2>1 DEF Preparation!IsCancelled
<1>9. RegistryOK'
  BY <1>1, <1>4, <1>8 DEF RegistryOK
<1>10. Preparation!WindowsHaveOperations' /\ Preparation!MainNeverStuck'
  BY DEF WindowsOK, Preparation!WindowsHaveOperations, Preparation!MainNeverStuck
<1> QED
  BY <1>7, <1>9, <1>10 DEF WindowsOK

\* What every step of a request starts from.
LEMMA RequestFacts ==
    ASSUME ResolverOK, NEW r \in Requests
    PROVE  /\ x9[r] \in Preparation!Request /\ x12 \in Seq(Entries) /\ RequestsTypeOK
           /\ x9[r].pc # "idle" => x9[r].key \in Preparation!Keys
           /\ x9[r].pc \in Preparation!Asking => x9[r].flight = 0
           /\ x9[r].op \in 0 .. Len(x2) /\ Len(x2) \in Nat
           /\ x9[r].pc \in Preparation!Consuming => x9[r].flight \in 1 .. Len(x10)
BY FlightOfRequest, LenProperties DEF ResolverOK, RequestsTypeOK

\* A request comes with the operation of its window.
LEMMA RequestArrives ==
    ASSUME WindowsOK, ResolverOK, NEW r \in Requests, Preparation!Arrives(r)
    PROVE  WindowsOK' /\ ResolverOK'
<1>1. UNCHANGED <<x1, x2, x3, x4, x5, x6, x7, x10, x11, x12>> /\ x9[r].pc = "idle"
  BY DEF Preparation!Arrives, Preparation!winVars
<1>2. WindowsOK' /\ OperationsKept
  BY <1>1, WindowsAreStill
<1>3. PICK u \in Urls :
         \/ \E l \in Preparation!Labels :
               /\ x1[l] # 0
               /\ x9' = [x9 EXCEPT ![r] = [@ EXCEPT !.pc = "look", !.op = x1[l],
                             !.key = <<u, IF l = Player THEN "preview" ELSE "analysis">>]]
         \/ x9' = [x9 EXCEPT ![r] = [@ EXCEPT !.pc = "look", !.key = <<u, "analysis">>]]
  BY DEF Preparation!Arrives
<1>4. /\ x9[r] \in Preparation!Request /\ x9[r].flight = 0 /\ x9[r].op \in 0 .. Len(x2)
      /\ x12 \in Seq(Entries) /\ Len(x2) \in Nat
  BY <1>1, RequestFacts, StepSets
<1>5. "look" \in Preparation!Asking
  BY StepSets
<1>6. PICK g \in 0 .. Len(x2), key \in Preparation!Keys :
         x9' = [x9 EXCEPT ![r] = [x9[r] EXCEPT !.pc = "look", !.op = g, !.key = key]]
  <2>1. ASSUME NEW l \in Preparation!Labels, x1[l] # 0,
               x9' = [x9 EXCEPT ![r] = [@ EXCEPT !.pc = "look", !.op = x1[l],
                             !.key = <<u, IF l = Player THEN "preview" ELSE "analysis">>]]
        PROVE  \E g \in 0 .. Len(x2), key \in Preparation!Keys :
                  x9' = [x9 EXCEPT ![r] = [x9[r] EXCEPT !.pc = "look", !.op = g, !.key = key]]
    <3>1. x1[l] \in 0 .. Len(x2)
      BY DEF WindowsOK, RegistryOK
    <3>2. <<u, IF l = Player THEN "preview" ELSE "analysis">> \in Preparation!Keys
      BY DEF Preparation!Keys, Preparation!Policies
    <3> QED
      BY <2>1, <3>1, <3>2
  <2>2. ASSUME x9' = [x9 EXCEPT ![r] = [@ EXCEPT !.pc = "look", !.key = <<u, "analysis">>]]
        PROVE  \E g \in 0 .. Len(x2), key \in Preparation!Keys :
                  x9' = [x9 EXCEPT ![r] = [x9[r] EXCEPT !.pc = "look", !.op = g, !.key = key]]
    <3>1. <<u, "analysis">> \in Preparation!Keys
      BY DEF Preparation!Keys, Preparation!Policies
    <3>2. [x9[r] EXCEPT !.pc = "look", !.key = <<u, "analysis">>] =
              [x9[r] EXCEPT !.pc = "look", !.op = x9[r].op, !.key = <<u, "analysis">>]
      BY <1>4 DEF Preparation!Request
    <3> QED
      BY <1>4, <2>2, <3>1, <3>2
  <2> QED
    BY <1>3, <2>1, <2>2
<1> DEFINE n == [x9[r] EXCEPT !.pc = "look", !.op = g, !.key = key]
<1>7. n \in Preparation!Request /\ n.pc = "look" /\ n.op = g /\ n.key = key /\ n.flight = 0
  <2>1. n \in [pc : {"look"}, key : {key}, op : {g}, flight : {x9[r].flight}, profile : {x9[r].profile},
               selected : {x9[r].selected}, answer : {x9[r].answer}]
    BY <1>4 DEF Preparation!Request
  <2>2. g \in Nat
    BY <1>4
  <2> HIDE DEF n
  <2> QED
    BY <1>4, <1>5, <2>1, <2>2 DEF Preparation!Request
<1>8. x9' = [x9 EXCEPT ![r] = n]
  BY <1>6
<1> HIDE DEF n
<1>9. ResolverOK'
  BY <1>1, <1>2, <1>4, <1>7, <1>8, RequestAsks, StepSets
<1> QED
  BY <1>2, <1>9

\* It may be answered by the cache.
LEMMA RequestLooks ==
    ASSUME WindowsOK, ResolverOK, NEW r \in Requests,
           Preparation!Looks(r) \/ Preparation!LooksAtAnalysis(r)
    PROVE  WindowsOK' /\ ResolverOK'
<1>1. /\ UNCHANGED <<x1, x2, x3, x4, x5, x6, x7, x10, x11>>
      /\ x9[r].pc \in {"look", "look at analysis"}
      /\ \E key : x12' = Preparation!Touched(key)
  BY DEF Preparation!Looks, Preparation!LooksAtAnalysis, Preparation!winVars
<1>2. WindowsOK' /\ OperationsKept
  BY <1>1, WindowsAreStill
<1>3. /\ x9[r] \in Preparation!Request /\ x9[r].flight = 0 /\ x9[r].key \in Preparation!Keys
      /\ x9[r].op \in 0 .. Len(x2) /\ x12 \in Seq(Entries)
  BY <1>1, RequestFacts, StepSets
<1>4. x12' \in Seq(Entries)
  BY <1>1, <1>3, CacheIsSearched
<1>5. \/ \E v \in {"look at analysis", "acquire"} : Preparation!Goes(r, v)
      \/ \E u \in Preparation!Good : Preparation!Ends(r, u)
  <2>1. CASE Preparation!Looks(r)
    <3>1. Preparation!Hit(x9[r].key) => Preparation!Entry(x9[r].key).value \in Preparation!Good
      BY <1>3, CacheIsSearched DEF Entries
    <3> QED
      BY <2>1, <3>1 DEF Preparation!Looks
  <2>2. CASE Preparation!LooksAtAnalysis(r)
    BY <2>2, StepSets DEF Preparation!LooksAtAnalysis
  <2> QED
    BY <2>1, <2>2
<1>6. {"look at analysis", "acquire", "done"} \subseteq Steps
  BY StepSets DEF Steps
<1>7. CASE \E v \in {"look at analysis", "acquire"} : Preparation!Goes(r, v)
  <2>1. PICK v \in {"look at analysis", "acquire"} : Preparation!Goes(r, v)
    BY <1>7
  <2>2. v \in Steps /\ x9 \in [Requests -> Preparation!Request]
    BY <1>6 DEF ResolverOK, RequestsTypeOK
  <2>3. PICK n \in Preparation!Request :
              /\ x9' = [x9 EXCEPT ![r] = n] /\ n.pc = v /\ n.key = x9[r].key /\ n.op = x9[r].op
              /\ n.flight = x9[r].flight /\ n.answer = x9[r].answer
    BY <2>1, <2>2, RequestGoes
  <2>4. ResolverOK'
    BY <1>1, <1>2, <1>3, <1>4, <2>3, RequestAsks, StepSets
  <2> QED
    BY <1>2, <2>4
<1>8. CASE \E u \in Preparation!Good : Preparation!Ends(r, u)
  <2>1. PICK u \in Preparation!Good : Preparation!Ends(r, u)
    BY <1>8
  <2>2. u \in Preparation!Answers /\ x9 \in [Requests -> Preparation!Request]
    BY StepSets DEF ResolverOK, RequestsTypeOK
  <2>3. PICK n \in Preparation!Request :
              /\ x9' = [x9 EXCEPT ![r] = n] /\ n.pc = "done" /\ n.key = x9[r].key /\ n.op = x9[r].op
              /\ n.flight = x9[r].flight /\ n.answer = u
    BY <2>1, <2>2, RequestEnds
  <2>4. ResolverOK'
    BY <1>1, <1>2, <1>3, <1>4, <2>3, RequestAsks, StepSets
  <2> QED
    BY <1>2, <2>4
<1> QED
  BY <1>5, <1>7, <1>8

\* It joins the flight of its key, or opens one (acquire_flight).
LEMMA RequestAcquires ==
    ASSUME WindowsOK, ResolverOK, NEW r \in Requests, Preparation!Acquires(r)
    PROVE  WindowsOK' /\ ResolverOK'
<1>1. UNCHANGED <<x1, x2, x3, x4, x5, x6, x7, x12>> /\ x9[r].pc = "acquire"
  BY DEF Preparation!Acquires, Preparation!winVars
<1>2. WindowsOK' /\ OperationsKept
  BY <1>1, WindowsAreStill
<1>3. /\ x9[r] \in Preparation!Request /\ x9[r].flight = 0 /\ x9[r].key \in Preparation!Keys
      /\ x9[r].op \in 0 .. Len(x2) /\ RequestsTypeOK /\ x9[r].pc \notin Preparation!Consuming
  BY <1>1, RequestFacts, StepSets
<1>4. CASE x11[x9[r].key] = 0
  BY <1>2, <1>4, FlightOpens
<1>5. CASE x11[x9[r].key] # 0
  <2>1. PICK f \in 1 .. Len(x10) : f = x11[x9[r].key]
    BY <1>3, <1>5 DEF RequestsTypeOK
  <2>2. Preparation!Joins(r, "wait", f) /\ UNCHANGED <<x11, x12>>
    BY <1>1, <1>5, <2>1 DEF Preparation!Acquires
  <2>3. f \in Nat /\ x9 \in [Requests -> Preparation!Request]
    BY <1>3, FlightsTyped DEF RequestsTypeOK
  <2>6. PICK n \in Preparation!Request :
              /\ x9' = [x9 EXCEPT ![r] = n] /\ n.pc = "wait" /\ n.key = x9[r].key /\ n.op = x9[r].op
              /\ n.flight = f /\ n.answer = x9[r].answer
    BY <2>2, <2>3, RequestJoins
  <2> DEFINE m == [x10[f] EXCEPT !.consumers = @ + 1]
  <2>4. /\ m \in Preparation!FlightRecord /\ m.leader = x10[f].leader /\ m.result = x10[f].result
        /\ m.cancelled = x10[f].cancelled /\ m.consumers = x10[f].consumers + 1
    <3>1. x10[f] \in Preparation!FlightRecord
      BY <1>3, LenProperties DEF RequestsTypeOK
    <3> QED
      BY <3>1 DEF Preparation!FlightRecord
  <2>5. x10' = [x10 EXCEPT ![f] = m]
    BY <1>5, <2>1 DEF Preparation!Acquires
  <2> HIDE DEF m
  <2>7. /\ x10[f].leader \in Requests /\ x9[x10[f].leader].pc \in Preparation!Leading
        /\ x9[x10[f].leader].flight = f
    <3>1. x10[f].leader \in Requests
      BY <1>3, FlightsTyped
    <3>2. x9[x10[f].leader].pc \in Preparation!Leading
      BY <1>3, <1>5, <2>1 DEF ResolverOK, Preparation!FlightsAreLed
    <3>3. x9[x10[f].leader].flight = f
      BY <1>3, FlightsTyped DEF ResolverOK, Preparation!FlightsAreLed
    <3> QED
      BY <3>1, <3>2, <3>3
  <2>8. ~x10[f].cancelled
    BY <2>7, LeaderIsConsumer, StepSets
  <2>9. Preparation!Consumers(f)' = Preparation!Consumers(f) \cup {r}
    <3>1. x9'[r] = n /\ \A s \in Requests \ {r} : x9'[s] = x9[s]
      BY <1>3, <2>6 DEF RequestsTypeOK
    <3>2. n.pc \in Preparation!Consuming
      BY <2>6, StepSets
    <3> QED
      BY <2>6, <3>1, <3>2 DEF Preparation!Consumers
  <2>10. m.consumers = Preparation!Cardinality(Preparation!Consumers(f)')
    <3>1. r \notin Preparation!Consumers(f) /\ Preparation!Consumers(f) \in SUBSET Requests
      BY <1>3 DEF Preparation!Consumers
    <3>2. x10[f].consumers = Preparation!Cardinality(Preparation!Consumers(f))
      BY <1>3, FlightsTyped DEF ResolverOK, Preparation!ConsumersAreCounted
    <3>3. Preparation!Cardinality(Preparation!Consumers(f) \cup {r}) =
              Preparation!Cardinality(Preparation!Consumers(f)) + 1
      BY <3>1, ConsumersCount
    <3> QED
      BY Zenon, <2>4, <2>9, <3>2, <3>3
  <2>11. m.result = "cancelled" => Preparation!OwnerGone(x10[f].leader)
    BY <1>3, <2>4, FlightsTyped DEF ResolverOK, Preparation!CausesAreOwn
  <2>12. ResolverOK'
    BY <1>1, <1>2, <1>3, <2>2, <2>4, <2>5, <2>6, <2>8, <2>10, <2>11, FlightChanges, StepSets
  <2> QED
    BY <1>2, <2>12
<1> QED
  BY <1>4, <1>5

\* What a leader does to its own request.
LeaderGoes(r) ==
    \E n \in Preparation!Request :
        /\ x9' = [x9 EXCEPT ![r] = n] /\ n.pc \in Preparation!Leading
        /\ n.key = x9[r].key /\ n.op = x9[r].op /\ n.flight = x9[r].flight
        /\ n.pc \in {"put", "publish", "remove"} /\ n.answer = "cancelled" => Preparation!OwnerGone(r)

\* It goes on to another step of its work,
LEMMA LeaderMoves ==
    ASSUME ResolverOK, NEW r \in Requests,
           NEW v \in {"loop", "spawned", "running", "embed"}, Preparation!Goes(r, v)
    PROVE  LeaderGoes(r)
<1>1. v \in Steps /\ v \in Preparation!Leading /\ v \notin {"put", "publish", "remove"}
  BY StepSets DEF Steps
<1>2. PICK n \in Preparation!Request :
          /\ x9' = [x9 EXCEPT ![r] = n] /\ n.pc = v /\ n.key = x9[r].key /\ n.op = x9[r].op
          /\ n.flight = x9[r].flight /\ n.answer = x9[r].answer
  BY <1>1, RequestGoes DEF ResolverOK, RequestsTypeOK
<1> QED
  BY <1>1, <1>2 DEF LeaderGoes

\* it has an answer, cancelled only when its own window is gone,
LEMMA LeaderResolves ==
    ASSUME ResolverOK, NEW r \in Requests, NEW u \in Preparation!Answers, Preparation!Resolved(r, u),
           u = "cancelled" => Preparation!OwnerGone(r)
    PROVE  LeaderGoes(r)
<1>1. PICK n \in Preparation!Request :
          /\ x9' = [x9 EXCEPT ![r] = n] /\ n.pc = "put" /\ n.key = x9[r].key /\ n.op = x9[r].op
          /\ n.flight = x9[r].flight /\ n.answer = u
  BY RequestResolved DEF ResolverOK, RequestsTypeOK
<1>2. "put" \in Preparation!Leading
  BY StepSets
<1> QED
  BY <1>1, <1>2 DEF LeaderGoes

\* or it goes on with what it has found.
LEMMA LeaderTries ==
    ASSUME ResolverOK, NEW r \in Requests, NEW n, x9' = [x9 EXCEPT ![r] = n],
           n \in [pc : {"loop", "spawned", "running"}, key : {x9[r].key}, op : {x9[r].op},
                  flight : {x9[r].flight}, profile : Nat, selected : Preparation!Good \cup {"none"},
                  answer : {x9[r].answer}]
    PROVE  LeaderGoes(r)
<1>1. x9[r] \in Preparation!Request /\ {"loop", "spawned", "running"} \subseteq Preparation!Leading
  BY RequestFacts, StepSets
<1>2. {"loop", "spawned", "running"} \subseteq Preparation!Consuming
  BY StepSets
<1>3. n \in Preparation!Request
  BY <1>1, <1>2 DEF Preparation!Request
<1> QED
  BY <1>1, <1>3 DEF LeaderGoes

\* A leader at work, with or without its process.
LEMMA LeaderWorked ==
    ASSUME ResolverOK, OperationsKept, NEW r \in Requests, x9[r].pc \in Preparation!Leading, LeaderGoes(r),
           UNCHANGED <<x10, x11>>, x12' \in Seq(Entries)
    PROVE  ResolverOK'
BY LeaderWorks DEF LeaderGoes

\* The next profile, or the embedded player.
LEMMA ProfileIsTried ==
    ASSUME WindowsOK, ResolverOK, NEW r \in Requests, Preparation!Tries(r) \/ Preparation!EmbedEnds(r)
    PROVE  WindowsOK' /\ ResolverOK'
<1>1. /\ UNCHANGED <<x1, x2, x3, x4, x5, x6, x7, x10, x11, x12>>
      /\ x9[r].pc \in {"loop", "embed"}
  BY DEF Preparation!Tries, Preparation!EmbedEnds, Preparation!winVars
<1>2. WindowsOK' /\ OperationsKept
  BY <1>1, WindowsAreStill
<1>3. /\ x9[r] \in Preparation!Request /\ x12' \in Seq(Entries)
      /\ x9[r].pc \in Preparation!Leading /\ x9[r].pc \in Preparation!Consuming
  BY <1>1, RequestFacts, StepSets
<1>4. Preparation!SharedCancelled(r) => Preparation!OwnerGone(r)
  BY <1>3, LeaderIsConsumer
<1>5. {"complete", "partial", "error", "cancelled"} = Preparation!Answers
  BY StepSets
<1>6. \/ \E v \in {"loop", "spawned", "running", "embed"} : Preparation!Goes(r, v)
      \/ \E u \in Preparation!Answers :
            Preparation!Resolved(r, u) /\ (u = "cancelled" => Preparation!OwnerGone(r))
      \/ \E v \in {"spawned", "running"} :
            x9' = [x9 EXCEPT ![r] = [@ EXCEPT !.pc = v, !.profile = x9[r].profile + 1]]
  <2>1. CASE Preparation!EmbedEnds(r)
    BY <1>4, <1>5, <2>1 DEF Preparation!EmbedEnds
  <2>2. CASE Preparation!Tries(r)
    <3>1. x9[r].selected \in {"complete", "partial", "none"}
      BY <1>3, StepSets DEF Preparation!Request
    <3>2. CASE x9[r].profile < Profiles
      BY <1>4, <1>5, <2>2, <3>2 DEF Preparation!Tries
    <3>3. CASE ~(x9[r].profile < Profiles)
      BY <1>4, <1>5, <2>2, <3>1, <3>3 DEF Preparation!Tries
    <3> QED
      BY <3>2, <3>3
  <2> QED
    BY <2>1, <2>2
<1>7. ASSUME NEW v \in {"spawned", "running"},
             x9' = [x9 EXCEPT ![r] = [@ EXCEPT !.pc = v, !.profile = x9[r].profile + 1]]
      PROVE  LeaderGoes(r)
  <2> DEFINE n == [x9[r] EXCEPT !.pc = v, !.profile = x9[r].profile + 1]
  <2>1. x9' = [x9 EXCEPT ![r] = n]
    BY <1>7
  <2>2. n \in [pc : {v}, key : {x9[r].key}, op : {x9[r].op}, flight : {x9[r].flight},
               profile : {x9[r].profile + 1}, selected : {x9[r].selected}, answer : {x9[r].answer}]
    BY <1>3 DEF Preparation!Request
  <2>3. x9[r].profile + 1 \in Nat /\ x9[r].selected \in Preparation!Good \cup {"none"}
    BY <1>3 DEF Preparation!Request
  <2> HIDE DEF n
  <2>4. n \in [pc : {"loop", "spawned", "running"}, key : {x9[r].key}, op : {x9[r].op},
               flight : {x9[r].flight}, profile : Nat, selected : Preparation!Good \cup {"none"},
               answer : {x9[r].answer}]
    BY <2>2, <2>3
  <2> QED
    BY <2>1, <2>4, LeaderTries
<1>8. LeaderGoes(r)
  BY <1>6, <1>7, LeaderMoves, LeaderResolves
<1>9. ResolverOK'
  BY <1>1, <1>2, <1>3, <1>8, LeaderWorked
<1> QED
  BY <1>2, <1>9

\* A process is registered only for an operation that is still wanted.
LEMMA ProcessIsRegistered ==
    ASSUME WindowsOK, ResolverOK, NEW r \in Requests, Preparation!Registers(r)
    PROVE  WindowsOK' /\ ResolverOK'
<1>1. UNCHANGED <<x1, x3, x4, x5, x6, x7, x10, x11, x12>> /\ x9[r].pc = "spawned"
  BY DEF Preparation!Registers
<1>2. /\ x9[r] \in Preparation!Request /\ x12' \in Seq(Entries) /\ x9[r].op \in 0 .. Len(x2)
      /\ x9[r].pc \in Preparation!Leading
  BY <1>1, RequestFacts, StepSets
<1>3. WindowsOK' /\ OperationsKept
  <2>1. CASE x2' = x2
    BY <1>1, <2>1, WindowsAreStill
  <2>2. CASE x2' # x2
    <3>1. /\ ~Preparation!OwnerGone(r) /\ x9[r].op # 0
          /\ x2' = [x2 EXCEPT ![x9[r].op].processes = @ \cup {r}]
      BY <2>2 DEF Preparation!Registers
    <3>2. PICK g \in 1 .. Len(x2) : g = x9[r].op
      BY <3>1, FlightOfRequest
    <3>3. ~Preparation!IsCancelled(g)
      BY <3>1, <3>2 DEF Preparation!OwnerGone
    <3>4. x2[g] \in Preparation!Operation
      BY LenProperties DEF WindowsOK, RegistryOK
    <3>5. PICK ps \in SUBSET Requests : ps = x2[g].processes \cup {r}
      BY <3>4 DEF Preparation!Operation
    <3>6. x2' = [x2 EXCEPT ![g].processes = ps]
      BY <3>1, <3>2, <3>5
    <3> QED
      BY <1>1, <3>3, <3>6, ProcessesMove
  <2> QED
    BY <2>1, <2>2
<1>4. \/ Preparation!Goes(r, "running")
      \/ Preparation!Resolved(r, "cancelled") /\ Preparation!OwnerGone(r)
  BY DEF Preparation!Registers
<1>5. "cancelled" \in Preparation!Answers
  BY StepSets
<1>6. LeaderGoes(r)
  BY <1>4, <1>5, LeaderMoves, LeaderResolves
<1>7. ResolverOK'
  BY <1>1, <1>2, <1>3, <1>6, LeaderWorked
<1> QED
  BY <1>3, <1>7

\* A process ends, and is taken from its operation.
LEMMA AttemptIsOver ==
    ASSUME WindowsOK, ResolverOK, NEW r \in Requests, Preparation!AttemptEnds(r)
    PROVE  WindowsOK' /\ ResolverOK'
<1>1. UNCHANGED <<x1, x3, x4, x5, x6, x7, x10, x11, x12>> /\ x9[r].pc = "running" /\ Preparation!Released(r)
  BY DEF Preparation!AttemptEnds
<1>2. /\ x9[r] \in Preparation!Request /\ x12' \in Seq(Entries) /\ x9[r].op \in 0 .. Len(x2)
      /\ x9[r].pc \in Preparation!Leading /\ x9[r].pc \in Preparation!Consuming
  BY <1>1, RequestFacts, StepSets
<1>3. WindowsOK' /\ OperationsKept
  <2>1. CASE x2' = x2
    BY <1>1, <2>1, WindowsAreStill
  <2>2. CASE x2' # x2
    <3>1. x9[r].op # 0 /\ x2' = [x2 EXCEPT ![x9[r].op].processes = @ \ {r}]
      BY <1>1, <2>2 DEF Preparation!Released, Preparation!Owns
    <3>2. PICK g \in 1 .. Len(x2) : g = x9[r].op
      BY <3>1, FlightOfRequest
    <3>3. x2[g] \in Preparation!Operation
      BY LenProperties DEF WindowsOK, RegistryOK
    <3>4. PICK ps \in SUBSET Requests : ps = x2[g].processes \ {r}
      BY <3>3 DEF Preparation!Operation
    <3>5. x2' = [x2 EXCEPT ![g].processes = ps] /\ ps \subseteq x2[g].processes
      BY <3>1, <3>2, <3>4
    <3> QED
      BY <1>1, <3>5, ProcessesMove
  <2> QED
    BY <2>1, <2>2
<1>4. Preparation!SharedCancelled(r) => Preparation!OwnerGone(r)
  BY <1>2, LeaderIsConsumer
<1>5. \/ Preparation!Goes(r, "loop")
      \/ Preparation!Resolved(r, "cancelled") /\ Preparation!OwnerGone(r)
      \/ x9' = [x9 EXCEPT ![r] = [@ EXCEPT !.pc = "loop", !.profile = Profiles, !.selected = "complete"]]
      \/ x9' = [x9 EXCEPT ![r] = [@ EXCEPT !.pc = "loop", !.selected = "partial"]]
  BY <1>4 DEF Preparation!AttemptEnds
<1>7. ASSUME x9' = [x9 EXCEPT ![r] = [@ EXCEPT !.pc = "loop", !.profile = Profiles, !.selected = "complete"]]
      PROVE  LeaderGoes(r)
  <2> DEFINE n == [x9[r] EXCEPT !.pc = "loop", !.profile = Profiles, !.selected = "complete"]
  <2>1. n \in [pc : {"loop"}, key : {x9[r].key}, op : {x9[r].op}, flight : {x9[r].flight},
               profile : {Profiles}, selected : {"complete"}, answer : {x9[r].answer}]
    BY <1>2 DEF Preparation!Request
  <2>2. x9' = [x9 EXCEPT ![r] = n] /\ Profiles \in Nat /\ "complete" \in Preparation!Good \cup {"none"}
    BY <1>7, PreparationAssumption, StepSets
  <2> HIDE DEF n
  <2>3. n \in [pc : {"loop", "spawned", "running"}, key : {x9[r].key}, op : {x9[r].op},
               flight : {x9[r].flight}, profile : Nat, selected : Preparation!Good \cup {"none"},
               answer : {x9[r].answer}]
    BY <2>1, <2>2
  <2> QED
    BY <2>2, <2>3, LeaderTries
<1>8. ASSUME x9' = [x9 EXCEPT ![r] = [@ EXCEPT !.pc = "loop", !.selected = "partial"]]
      PROVE  LeaderGoes(r)
  <2> DEFINE n == [x9[r] EXCEPT !.pc = "loop", !.selected = "partial"]
  <2>1. n \in [pc : {"loop"}, key : {x9[r].key}, op : {x9[r].op}, flight : {x9[r].flight},
               profile : {x9[r].profile}, selected : {"partial"}, answer : {x9[r].answer}]
    BY <1>2 DEF Preparation!Request
  <2>2. x9' = [x9 EXCEPT ![r] = n] /\ "partial" \in Preparation!Good \cup {"none"}
    BY <1>8, StepSets
  <2>3. x9[r].profile \in Nat
    BY <1>2 DEF Preparation!Request
  <2> HIDE DEF n
  <2>4. n \in [pc : {"loop", "spawned", "running"}, key : {x9[r].key}, op : {x9[r].op},
               flight : {x9[r].flight}, profile : Nat, selected : Preparation!Good \cup {"none"},
               answer : {x9[r].answer}]
    BY <2>1, <2>2, <2>3
  <2> QED
    BY <2>2, <2>4, LeaderTries
<1>9. "cancelled" \in Preparation!Answers
  BY StepSets
<1>10. LeaderGoes(r)
  BY <1>5, <1>7, <1>8, <1>9, LeaderMoves, LeaderResolves
<1>11. ResolverOK'
  BY <1>1, <1>2, <1>3, <1>10, LeaderWorked
<1> QED
  BY <1>3, <1>11

\* A good result is kept (resolution_cache_put).
LEMMA ResultIsCached ==
    ASSUME WindowsOK, ResolverOK, NEW r \in Requests, Preparation!Puts(r)
    PROVE  WindowsOK' /\ ResolverOK'
<1>1. UNCHANGED <<x1, x2, x3, x4, x5, x6, x7, x10, x11>> /\ x9[r].pc = "put" /\ Preparation!Goes(r, "publish")
  BY DEF Preparation!Puts, Preparation!winVars
<1>2. WindowsOK' /\ OperationsKept
  BY <1>1, WindowsAreStill
<1>3. /\ x9[r] \in Preparation!Request /\ x12 \in Seq(Entries) /\ x9[r].key \in Preparation!Keys
      /\ x9[r].pc \in Preparation!Leading
  BY <1>1, RequestFacts, StepSets
<1>4. x12' \in Seq(Entries)
  <2>1. CASE x9[r].answer \notin Preparation!Good
    BY <1>3, <2>1 DEF Preparation!Puts
  <2>2. CASE x9[r].answer \in Preparation!Good
    <3> DEFINE e == [key |-> x9[r].key, value |-> x9[r].answer, fresh |-> TRUE]
               all == Append(Preparation!Without(x9[r].key), e)
    <3>1. e \in Entries
      BY <1>3, <2>2 DEF Entries
    <3>2. all \in Seq(Entries) /\ all # << >>
      <4> HIDE DEF e
      <4> QED
        BY <1>3, <3>1, CacheIsSearched, AppendProperties
    <3>3. x12' = IF Len(all) > CacheLimit THEN Tail(all) ELSE all
      BY <2>2 DEF Preparation!Puts
    <3> HIDE DEF all
    <3>4. Tail(all) \in Seq(Entries)
      BY <3>2, HeadTailProperties
    <3> QED
      BY <3>2, <3>3, <3>4
  <2> QED
    BY <2>1, <2>2
<1>5. LeaderGoes(r)
  <2>1. "publish" \in Steps /\ "publish" \in Preparation!Leading
    BY StepSets DEF Steps
  <2>2. PICK n \in Preparation!Request :
            /\ x9' = [x9 EXCEPT ![r] = n] /\ n.pc = "publish" /\ n.key = x9[r].key /\ n.op = x9[r].op
            /\ n.flight = x9[r].flight /\ n.answer = x9[r].answer
    BY <1>1, <2>1, RequestGoes DEF ResolverOK, RequestsTypeOK
  <2>3. x9[r].answer = "cancelled" => Preparation!OwnerGone(r)
    BY <1>1 DEF ResolverOK, Preparation!CausesAreOwn
  <2> QED
    BY <2>1, <2>2, <2>3 DEF LeaderGoes
<1>6. ResolverOK'
  BY <1>1, <1>2, <1>3, <1>4, <1>5, LeaderWorked
<1> QED
  BY <1>2, <1>6

\* What is said of a flight that a request has.
LEMMA FlightFacts ==
    ASSUME ResolverOK, NEW r \in Requests, x9[r].pc \in Preparation!Consuming,
           NEW f, f = x9[r].flight
    PROVE  /\ f \in 1 .. Len(x10) /\ x10[f] \in Preparation!FlightRecord /\ ~x10[f].cancelled
           /\ x10[f].consumers = Preparation!Cardinality(Preparation!Consumers(f))
           /\ r \in Preparation!Consumers(f) /\ Preparation!Consumers(f) \in SUBSET Requests
           /\ x10[f].result = "cancelled" => Preparation!OwnerGone(x10[f].leader)
<1>1. f \in 1 .. Len(x10) /\ ~x10[f].cancelled /\ r \in Preparation!Consumers(f)
  BY LeaderIsConsumer
<1>2. RequestsTypeOK /\ DOMAIN x10 = 1 .. Len(x10) /\ x10[f] \in Preparation!FlightRecord
  BY <1>1, FlightsTyped, LenProperties DEF ResolverOK, RequestsTypeOK
<1>3. x10[f].consumers = Preparation!Cardinality(Preparation!Consumers(f))
  BY <1>1, <1>2 DEF ResolverOK, Preparation!ConsumersAreCounted
<1>4. x10[f].result = "cancelled" => Preparation!OwnerGone(x10[f].leader)
  BY <1>1, <1>2 DEF ResolverOK, Preparation!CausesAreOwn
<1> QED
  BY <1>1, <1>2, <1>3, <1>4 DEF Preparation!Consumers

\* Those who wait get the leader's answer.
LEMMA ResultIsPublished ==
    ASSUME WindowsOK, ResolverOK, NEW r \in Requests, Preparation!Publishes(r)
    PROVE  WindowsOK' /\ ResolverOK'
<1>1. UNCHANGED <<x1, x2, x3, x4, x5, x6, x7, x11, x12>> /\ x9[r].pc = "publish"
      /\ Preparation!Goes(r, "remove")
  BY DEF Preparation!Publishes, Preparation!winVars
<1>2. WindowsOK' /\ OperationsKept
  BY <1>1, WindowsAreStill
<1>3. /\ x9[r] \in Preparation!Request /\ x9 \in [Requests -> Preparation!Request]
      /\ x9[r].pc \in Preparation!Leading /\ x9[r].pc \in Preparation!Consuming
  BY <1>1, RequestFacts, StepSets DEF RequestsTypeOK
<1>4. PICK f : f = x9[r].flight
  OBVIOUS
<1>5. /\ f \in 1 .. Len(x10) /\ x10[f] \in Preparation!FlightRecord /\ ~x10[f].cancelled
      /\ x10[f].consumers = Preparation!Cardinality(Preparation!Consumers(f))
  BY <1>3, <1>4, FlightFacts
<1>6. "remove" \in Steps
  BY StepSets DEF Steps
<1>7. PICK n \in Preparation!Request :
          /\ x9' = [x9 EXCEPT ![r] = n] /\ n.pc = "remove" /\ n.key = x9[r].key /\ n.op = x9[r].op
          /\ n.flight = x9[r].flight /\ n.answer = x9[r].answer
  BY <1>1, <1>3, <1>6, RequestGoes
<1> DEFINE m == [x10[f] EXCEPT !.result = x9[r].answer]
<1>8. x10' = [x10 EXCEPT ![f] = m]
  BY <1>4 DEF Preparation!Publishes
<1>9. /\ m \in Preparation!FlightRecord /\ m.leader = x10[f].leader /\ m.result = x9[r].answer
      /\ m.cancelled = x10[f].cancelled /\ m.consumers = x10[f].consumers
  <2>1. x9[r].answer \in Preparation!Answers \cup {"none"}
    BY <1>3 DEF Preparation!Request
  <2> QED
    BY <1>5, <2>1 DEF Preparation!FlightRecord
<1> HIDE DEF m
<1>10. Preparation!Consumers(f)' = Preparation!Consumers(f)
  <2>1. x9'[r] = n /\ \A s \in Requests \ {r} : x9'[s] = x9[s]
    BY <1>3, <1>7
  <2>2. n.pc \in Preparation!Consuming
    BY <1>7, StepSets
  <2> QED
    BY <1>3, <1>7, <2>1, <2>2 DEF Preparation!Consumers
<1>11. x9[r].answer = "cancelled" => Preparation!OwnerGone(r)
  BY <1>1 DEF ResolverOK, Preparation!CausesAreOwn
<1>12. x10[f].leader = r
  BY <1>3, <1>4 DEF ResolverOK, Preparation!FlightsAreLed, Preparation!Flight
<1>13. "remove" \in Preparation!Leading /\ "remove" \in Preparation!Consuming
  BY StepSets
<1>14. m.consumers = Preparation!Cardinality(Preparation!Consumers(f)')
  BY <1>5, <1>9, <1>10
<1>15. ResolverOK'
  BY <1>1, <1>2, <1>3, <1>4, <1>5, <1>7, <1>8, <1>9, <1>11, <1>12, <1>13, <1>14, FlightChanges
<1> QED
  BY <1>2, <1>15

\* Who leaves a flight, led or joined, is counted out of it.
LEMMA FlightIsLeft ==
    ASSUME ResolverOK, OperationsKept, NEW r \in Requests, x9[r].pc \in {"leave", "wait"},
           NEW n \in Preparation!Request, x9' = [x9 EXCEPT ![r] = n], n.pc = "done",
           n.key = x9[r].key, n.op = x9[r].op, n.flight = x9[r].flight,
           NEW f, f = x9[r].flight, x10' = Preparation!LeftBy(f), UNCHANGED <<x11, x12>>,
           n.answer = "cancelled" =>
               Preparation!OwnerGone(r) \/ Preparation!OwnerGone(x10[f].leader)
    PROVE  ResolverOK'
<1>1. /\ x9[r].pc \in Preparation!Consuming /\ x9[r].pc \notin Preparation!Leading
      /\ "done" \notin Preparation!Leading /\ "done" \notin Preparation!Consuming
  BY StepSets
<1>3. /\ f \in 1 .. Len(x10) /\ x10[f] \in Preparation!FlightRecord /\ ~x10[f].cancelled
      /\ x10[f].consumers = Preparation!Cardinality(Preparation!Consumers(f))
      /\ r \in Preparation!Consumers(f) /\ Preparation!Consumers(f) \in SUBSET Requests
      /\ x10[f].result = "cancelled" => Preparation!OwnerGone(x10[f].leader)
  BY <1>1, FlightFacts
<1> DEFINE m == [x10[f] EXCEPT !.consumers = @ - 1, !.cancelled = (@ \/ x10[f].consumers = 1)]
<1>4. x10' = [x10 EXCEPT ![f] = m]
  BY DEF Preparation!LeftBy
<1>5. /\ x10[f].consumers - 1 \in Nat
      /\ x10[f].consumers - 1 = Preparation!Cardinality(Preparation!Consumers(f) \ {r})
      /\ x10[f].consumers = 1 => Preparation!Consumers(f) \ {r} = {}
  <2>1. PICK S \in SUBSET Requests : S = Preparation!Consumers(f)
    BY <1>3
  <2>2. r \in S /\ x10[f].consumers = Preparation!Cardinality(S)
    BY <1>3, <2>1
  <2>3. /\ Preparation!Cardinality(S) \in Nat /\ Preparation!Cardinality(S) > 0
        /\ Preparation!Cardinality(S \ {r}) = Preparation!Cardinality(S) - 1
        /\ Preparation!Cardinality(S) = 1 => S \ {r} = {}
    BY <2>2, ConsumersCount
  <2> QED
    BY <2>1, <2>2, <2>3
<1>6. m \in [consumers : {x10[f].consumers - 1}, cancelled : {x10[f].consumers = 1},
             result : {x10[f].result}, leader : {x10[f].leader}]
  BY <1>3 DEF Preparation!FlightRecord
<1> HIDE DEF m
<1>7. /\ m \in Preparation!FlightRecord /\ m.leader = x10[f].leader /\ m.result = x10[f].result
      /\ m.cancelled => x10[f].consumers = 1
      /\ m.consumers = x10[f].consumers - 1
  BY <1>3, <1>5, <1>6 DEF Preparation!FlightRecord
<1>8. Preparation!Consumers(f)' = Preparation!Consumers(f) \ {r}
  <2>1. x9'[r] = n /\ \A s \in Requests \ {r} : x9'[s] = x9[s]
    BY DEF ResolverOK, RequestsTypeOK
  <2> QED
    BY <1>1, <2>1 DEF Preparation!Consumers
<1>9. m.consumers = Preparation!Cardinality(Preparation!Consumers(f)')
  BY <1>5, <1>7, <1>8
<1>10. m.cancelled => Preparation!Consumers(f)' = {}
  BY <1>5, <1>7, <1>8
<1>11. m.result = "cancelled" => Preparation!OwnerGone(x10[f].leader)
  BY <1>3, <1>7
<1>12. x9[r].pc # "idle" /\ n.pc \in Preparation!Consuming \cup {"done"}
       /\ (n.pc \in Preparation!Leading <=> x9[r].pc \in Preparation!Leading)
  BY <1>1
<1> QED
  BY <1>3, <1>4, <1>7, <1>9, <1>10, <1>11, <1>12, FlightChanges

\* The leader leaves,
LEMMA LeaderLeaves ==
    ASSUME WindowsOK, ResolverOK, NEW r \in Requests, Preparation!Leaves(r)
    PROVE  WindowsOK' /\ ResolverOK'
<1>1. /\ UNCHANGED <<x1, x2, x3, x4, x5, x6, x7, x11, x12>> /\ x9[r].pc = "leave"
      /\ Preparation!Goes(r, "done") /\ x10' = Preparation!LeftBy(x9[r].flight)
  BY DEF Preparation!Leaves, Preparation!winVars
<1>2. WindowsOK' /\ OperationsKept
  BY <1>1, WindowsAreStill
<1>3. x9 \in [Requests -> Preparation!Request] /\ "done" \in Steps
  BY DEF ResolverOK, RequestsTypeOK, Steps
<1>4. PICK n \in Preparation!Request :
          /\ x9' = [x9 EXCEPT ![r] = n] /\ n.pc = "done" /\ n.key = x9[r].key /\ n.op = x9[r].op
          /\ n.flight = x9[r].flight /\ n.answer = x9[r].answer
  BY <1>1, <1>3, RequestGoes
<1>5. x9[r].answer = "cancelled" => Preparation!OwnerGone(r)
  BY <1>1 DEF ResolverOK, Preparation!CausesAreOwn
<1>6. ResolverOK'
  BY <1>1, <1>2, <1>4, <1>5, FlightIsLeft
<1> QED
  BY <1>2, <1>6

\* and so do those who have waited (wait_for_shared_analysis).
LEMMA RequestIsAnswered ==
    ASSUME WindowsOK, ResolverOK, NEW r \in Requests, Preparation!Waits(r)
    PROVE  WindowsOK' /\ ResolverOK'
<1>1. /\ UNCHANGED <<x1, x2, x3, x4, x5, x6, x7, x11, x12>> /\ x9[r].pc = "wait"
      /\ x10' = Preparation!LeftBy(x9[r].flight)
  BY DEF Preparation!Waits, Preparation!winVars
<1>2. WindowsOK' /\ OperationsKept
  BY <1>1, WindowsAreStill
<1>3. x9[r].pc \in Preparation!Consuming
  BY <1>1, StepSets
<1>4. PICK f : f = x9[r].flight
  OBVIOUS
<1>5. /\ x10[f] \in Preparation!FlightRecord /\ ~x10[f].cancelled
      /\ x10[f].result = "cancelled" => Preparation!OwnerGone(x10[f].leader)
  BY <1>3, <1>4, FlightFacts
<1>6. PICK u \in Preparation!Answers :
          /\ Preparation!Ends(r, u)
          /\ u = "cancelled" => Preparation!OwnerGone(r) \/ Preparation!OwnerGone(x10[f].leader)
  <2>1. x10[f].result \in Preparation!Answers \cup {"none"} /\ "cancelled" \in Preparation!Answers
    BY <1>5, StepSets DEF Preparation!FlightRecord
  <2>2. \/ x10[f].result # "none" /\ Preparation!Ends(r, x10[f].result)
        \/ (x10[f].cancelled \/ Preparation!OwnerGone(r)) /\ Preparation!Ends(r, "cancelled")
    BY <1>4 DEF Preparation!Waits, Preparation!Flight
  <2> QED
    BY <1>5, <2>1, <2>2
<1>7. x9 \in [Requests -> Preparation!Request]
  BY DEF ResolverOK, RequestsTypeOK
<1>8. PICK n \in Preparation!Request :
          /\ x9' = [x9 EXCEPT ![r] = n] /\ n.pc = "done" /\ n.key = x9[r].key /\ n.op = x9[r].op
          /\ n.flight = x9[r].flight /\ n.answer = u
  BY <1>6, <1>7, RequestEnds
<1>9. ResolverOK'
  BY <1>1, <1>2, <1>4, <1>6, <1>8, FlightIsLeft
<1> QED
  BY <1>2, <1>9

\* A cached result expires.
LEMMA EntryExpires ==
    ASSUME WindowsOK, ResolverOK, Preparation!Expires
    PROVE  WindowsOK' /\ ResolverOK'
<1>1. UNCHANGED <<x1, x2, x3, x4, x5, x6, x7, x9, x10, x11>>
  BY DEF Preparation!Expires, Preparation!winVars
<1>2. WindowsOK' /\ OperationsKept
  BY <1>1, WindowsAreStill
<1>3. x12 \in Seq(Entries)
  BY DEF ResolverOK, RequestsTypeOK
<1>4. PICK i \in DOMAIN x12 : x12' = [x12 EXCEPT ![i] = [x12[i] EXCEPT !.fresh = FALSE]]
  BY DEF Preparation!Expires
<1>5. i \in 1 .. Len(x12) /\ x12[i] \in Entries
  BY <1>3, LenProperties
<1>6. [x12[i] EXCEPT !.fresh = FALSE] \in Entries
  BY <1>5 DEF Entries
<1>7. x12' \in Seq(Entries)
  BY <1>3, <1>4, <1>5, <1>6, ExceptSeq
<1>8. ResolverOK'
  BY <1>1, <1>2, <1>7, WindowsMoveOn
<1> QED
  BY <1>2, <1>8

\* No window and no request at first.
LEMMA PreparationStart == ASSUME Preparation!Init PROVE Preparation!PreparationInv
<1>1. /\ x1 = [l \in Preparation!Labels |-> 0] /\ x2 = << >> /\ x3 = {}
      /\ x4 = [l \in Preparation!Labels |-> "none"] /\ x5 = {} /\ x6 = TRUE /\ x7 = << >>
      /\ x9 = [r \in Requests |-> Preparation!Idle] /\ x10 = << >>
      /\ x11 = [key \in Preparation!Keys |-> 0] /\ x12 = << >>
  BY DEF Preparation!Init, Preparation!WinInit
<1>2. \A T : << >> \in Seq(T) /\ Len(<< >>) = 0 /\ DOMAIN << >> = {}
  OBVIOUS
<1>3. WindowsOK
  BY <1>1, <1>2
  DEF WindowsOK, RegistryOK, Preparation!CancelledOwnsNothing, Preparation!WindowsHaveOperations,
      Preparation!MainNeverStuck, Preparation!Labels
<1>4. /\ Preparation!Idle.pc = "idle" /\ Preparation!Idle.op = 0 /\ Preparation!Idle.flight = 0
      /\ Preparation!Idle \in Preparation!Request
  BY StepSets DEF Preparation!Idle, Preparation!Request
<1>5. \A r \in Requests : x9[r] = Preparation!Idle
  BY <1>1
<1>6. "idle" \notin Preparation!Consuming /\ "idle" \notin Preparation!Leading
  BY StepSets
<1>7. RequestsTypeOK
  BY <1>1, <1>2, <1>4, <1>5, <1>6 DEF RequestsTypeOK
<1>8. Preparation!FlightsAreLed /\ Preparation!ConsumersAreCounted
  BY <1>1, <1>2, <1>4, <1>5, <1>6 DEF Preparation!FlightsAreLed, Preparation!ConsumersAreCounted
<1>9. Preparation!CausesAreOwn /\ Preparation!CancelNeedsACause
  BY <1>1, <1>2, <1>4, <1>5 DEF Preparation!CausesAreOwn, Preparation!CancelNeedsACause
<1>10. ResolverOK
  BY <1>1, <1>2, <1>7, <1>8, <1>9 DEF ResolverOK
<1> QED
  BY <1>3, <1>10, PreparationParts

\* A step of the windows or of the resolver keeps the invariant.
LEMMA PreparationStep ==
    ASSUME Preparation!PreparationInv, [Preparation!Next]_(Preparation!vars)
    PROVE  Preparation!PreparationInv'
<1>1. WindowsOK /\ ResolverOK
  BY PreparationParts
<1>2. SUFFICES WindowsOK' /\ ResolverOK'
  <2>1. WindowsOK' /\ ResolverOK' => Preparation!PreparationInv'
    BY PreparationParts, PTL
  <2> QED
    BY <2>1
<1>3. CASE UNCHANGED Preparation!vars
  <2>1. UNCHANGED <<x1, x2, x3, x4, x5, x6, x7, x9, x10, x11, x12>>
    BY <1>3 DEF Preparation!vars, Preparation!winVars, Preparation!resolverVars
  <2>2. WindowsOK' /\ OperationsKept
    BY <1>1, <2>1, WindowsAreStill
  <2>3. x12' \in Seq(Entries)
    BY <1>1, <2>1 DEF ResolverOK, RequestsTypeOK
  <2> QED
    BY <1>1, <2>1, <2>2, <2>3, WindowsMoveOn
<1>4. CASE Preparation!WinNext /\ UNCHANGED Preparation!resolverVars
  <2>1. UNCHANGED <<x9, x10, x11, x12>>
    BY <1>4 DEF Preparation!resolverVars
  <2>2. WindowsOK' /\ OperationsKept
    BY <1>1, <1>4, WindowsStep
  <2>3. x12' \in Seq(Entries)
    BY <1>1, <2>1 DEF ResolverOK, RequestsTypeOK
  <2> QED
    BY <1>1, <2>1, <2>2, <2>3, WindowsMoveOn
<1>5. ASSUME NEW r \in Requests, Preparation!Arrives(r) \/ Preparation!Step(r)
      PROVE  WindowsOK' /\ ResolverOK'
  <2>1. CASE Preparation!Removes(r)
    <3>1. UNCHANGED <<x1, x2, x3, x4, x5, x6, x7>>
      BY <2>1 DEF Preparation!Removes, Preparation!winVars
    <3> QED
      BY <1>1, <2>1, <3>1, WindowsAreStill, FlightIsRemoved
  <2> QED
    BY <1>1, <1>5, <2>1, RequestArrives, RequestLooks, RequestAcquires, ProfileIsTried,
       ProcessIsRegistered, AttemptIsOver, ResultIsCached, ResultIsPublished, LeaderLeaves,
       RequestIsAnswered
    DEF Preparation!Step
<1> QED
  BY <1>1, <1>3, <1>4, <1>5, EntryExpires DEF Preparation!Next

\* The invariant has what is promised of the windows and of the resolver.
LEMMA PreparationKeeps ==
    ASSUME Preparation!PreparationInv
    PROVE  /\ Preparation!WinTypeOK /\ Preparation!MainNeverStuck /\ Preparation!CancelledOwnsNothing
           /\ Preparation!OneExtraction /\ Preparation!CancelNeedsACause
<1>1. ASSUME NEW r \in Requests, NEW s \in Requests,
             {x9[r].pc, x9[s].pc} \subseteq {"spawned", "running", "embed"}, x9[r].key = x9[s].key
      PROVE  r = s
  <2>1. x9[r].pc \in Preparation!Leading /\ x9[s].pc \in Preparation!Leading
    BY <1>1, StepSets
  <2> QED
    BY <1>1, <2>1 DEF Preparation!PreparationInv, Preparation!FlightsAreLed, Preparation!Flight
<1>2. Preparation!OneExtraction
  BY <1>1 DEF Preparation!OneExtraction
<1> QED
  BY <1>2 DEF Preparation!PreparationInv

\* The main window is usable unless a preparation window is in front of it, a cancelled operation
\* keeps no process (app/state.rs cancel_window_operation, register_window_process), a link is
\* extracted once at a time and nobody's leaving cancels the work of others (media/resolver.rs
\* acquire_flight, FlightConsumer::drop, wait_for_shared_analysis).
THEOREM PreparationIsSafe == Spec => []PreparationSafe
<1> DEFINE Inv == part = "preparation" => Preparation!PreparationInv
<1>1. Init => Inv
  <2>1. Init => (part = "preparation" => Preparation!Init)
    BY DEF Init
  <2> QED
    BY <2>1, PreparationStart
<1>2. Inv /\ [Next]_vars => Inv'
  <2> SUFFICES ASSUME Inv, [Next]_vars
               PROVE  Inv'
    OBVIOUS
  <2>1. part' = part
    BY DEF Next, vars
  <2>2. CASE part = "preparation"
    <3>1. [Preparation!Next]_(Preparation!vars)
      BY <2>2 DEF Next, vars, Preparation!vars, Preparation!winVars, Preparation!resolverVars
    <3> QED
      BY <2>1, <2>2, <3>1, PreparationStep
  <2> QED
    BY <2>1, <2>2
<1>3. Inv => PreparationSafe
  BY PreparationKeeps DEF PreparationSafe
<1> QED
  BY <1>1, <1>2, <1>3, PTL DEF Spec
=============================================================================
