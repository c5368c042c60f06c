----------------------------- MODULE MCServices -----------------------------
(***************************************************************************)
(* Instances for TLC of the concurrent parts around the downloads, under   *)
(* fair scheduling: the extension bridge, the preparation windows and the  *)
(* media resolver, the media search, the Spotify session, the HTTP engines *)
(* other than the sequential one, and the HTTP transfer under a bandwidth  *)
(* limit.  As in MCParts, whose variables and preparation windows these    *)
(* are, a behaviour is one of a single part.                               *)
(***************************************************************************)
EXTENDS MCParts

CONSTANTS
    Captures, Controls, OpenMessages, Pings, Apps, Url, Programs, Scenarios,   \* see ExtensionBridge
    SearchKeys,                        \* see MediaSearch; Requests are those of the resolver
    Analyses, MaxLogins, MaxTokens,    \* see SpotifySession
    c1, c2, k, o, p, a1, a2            \* messages of the browser, processes of the application

----------------------------------------------------------------------------
(* the parts and their bounds *)

\* Two captures of one address, an open_job, an open_app and a ping, and two processes of the
\* application: which messages are sent, starts by the user and exits, failures.
Scenario(sent, starts, failures) == [sent |-> sent, starts |-> starts, failures |-> failures]
FewMessages ==
    {Scenario({c1, c2}, 0, 1), Scenario({c1}, 2, 1), Scenario({c1}, 1, 2),
     Scenario({c1, p}, 1, 0), Scenario({k, p}, 1, 1), Scenario({o, c1}, 1, 0),
     Scenario({o, p, k}, 0, 0)}
OneAddress == [c \in {c1, c2} |-> "u"]
Bridge == INSTANCE ExtensionBridge WITH
    Activate <- "activate_app",
    Opens <- OpenMessages, program <- x1, lock <- x2, inbox <- x3, answer <- x4, host <- x5,
    copy <- x6, app <- x7, turn <- x8, made <- x9, live <- x10, unserved <- x11, kept <- x12, pinged <- x13,
    budget <- x14

\* Two preparation windows and the player, and three requests for one link: four commands and
\* clicks alone; one of them around two requests and an expiring result; three requests.
AroundExpiring == {<<4, 0, 0>>, <<1, 2, 1>>, <<0, 3, 0>>}

\* Three requests for two queries, one of them with two pages.
TwoQueries == {[query |-> "old", part |-> 0], [query |-> "new", part |-> 0],
               [query |-> "new", part |-> 1]}
Search == INSTANCE MediaSearch WITH
    Keys <- SearchKeys, sreq <- x1, sflight <- x2, sInFlight <- x3, sCache <- x4
ASSUME SearchAssumption == SearchKeys # {}

\* Two analyses that need the session, two logins, three renewal tokens of a grant.
Session == INSTANCE SpotifySession WITH
    row <- x1, valid <- x2, asker <- x3, login <- x4, opened <- x5, lost <- x6
ASSUME SessionAssumption == MaxLogins \in Nat

\* A file of four chunks and a version of three, in two segments.
Engines == INSTANCE HttpEngines WITH
    Sizes <- <<4, 3>>, Retries <- 1, Budgets <- {<<2, 0, 1>>, <<2, 1, 0>>, <<3, 0, 0>>},
    engine <- x1, pc <- x2, status <- x3, total <- x4, dest <- x5, temp <- x6, ctl <- x7,
    parts <- x8, fetch <- x9, tries <- x10, child <- x11, version <- x12, clicks <- x13,
    versions <- x14, crashes <- x15

\* A file that becomes smaller, and a limit that is reached.
Limited == INSTANCE HttpTransfer WITH
    Sizes <- <<4, 2>>, Validators <- TRUE, Ranges <- TRUE, IfRange <- <<BOOLEAN, BOOLEAN>>,
    Throttled <- TRUE, MaxRetries <- 1, MaxOps <- 5,
    version <- x1, status <- x2, row <- x3, part <- x4, dest <- x5, pc <- x6, state <- x7,
    known <- x8, resp <- x9, buffer <- x10, down <- x11, retries <- x12, ops <- x13

----------------------------------------------------------------------------
(* the behaviours *)

ServicesInit ==
    /\ \/ part = "bridge" /\ Bridge!Init /\ x15 = 0
       \/ part = "preparation" /\ Preparation!Init /\ x15 = 0
       \/ /\ part = "search" /\ Search!SearchInit
          /\ x5 = 0 /\ x6 = 0 /\ x7 = 0 /\ x8 = 0 /\ x9 = 0 /\ x10 = 0 /\ x11 = 0 /\ x12 = 0
          /\ x13 = 0 /\ x14 = 0 /\ x15 = 0
       \/ /\ part = "session" /\ Session!SessionInit
          /\ x7 = 0 /\ x8 = 0 /\ x9 = 0 /\ x10 = 0 /\ x11 = 0 /\ x12 = 0 /\ x13 = 0 /\ x14 = 0
          /\ x15 = 0
       \/ part = "engines" /\ Engines!Init
       \/ part = "limited" /\ Limited!Init /\ x14 = 0 /\ x15 = 0
    /\ x16 = 0

ServicesNext ==
    /\ UNCHANGED <<part, x16>>
    /\ \/ part = "bridge" /\ Bridge!Next /\ UNCHANGED x15
       \/ part = "preparation" /\ Preparation!Next /\ UNCHANGED x15
       \/ /\ part = "search" /\ Search!SearchNext
          /\ UNCHANGED <<x5, x6, x7, x8, x9, x10, x11, x12, x13, x14, x15>>
       \/ /\ part = "session" /\ Session!SessionNext
          /\ UNCHANGED <<x7, x8, x9, x10, x11, x12, x13, x14, x15>>
       \/ part = "engines" /\ Engines!Next
       \/ part = "limited" /\ Limited!Next /\ UNCHANGED <<x14, x15>>

ServicesSpec == ServicesInit /\ [][ServicesNext]_vars

\* The threads and processes of a part, which all run: the hosts of the messages and the
\* processes of the application; the threads of the requests and the event loop of the
\* windows; the login and the analyses; the worker of a job, and what launches it.
Actors == <<c1, c2, k, o, p, a1, a2>>
StepOf(i) ==
    \/ part = "bridge" /\ i <= 5 /\ Bridge!HostStep(Actors[i]) /\ UNCHANGED <<part, x15, x16>>
    \/ part = "bridge" /\ i > 5 /\ Bridge!AppStep(Actors[i]) /\ UNCHANGED <<part, x15, x16>>
    \/ part = "preparation" /\ i <= 3 /\ Preparation!Step(i) /\ UNCHANGED <<part, x15, x16>>
    \/ /\ part = "preparation" /\ i = 4 /\ Preparation!Ui
       /\ UNCHANGED <<part, x9, x10, x11, x12, x13, x14, x15, x16>>
    \/ /\ part = "search" /\ i <= 3 /\ Search!SearchSteps(i)
       /\ UNCHANGED <<part, x5, x6, x7, x8, x9, x10, x11, x12, x13, x14, x15, x16>>
    \/ /\ part = "session" /\ IF i = 1 THEN Session!LoginSteps ELSE i <= 3 /\ Session!AskerSteps(i)
       /\ UNCHANGED <<part, x7, x8, x9, x10, x11, x12, x13, x14, x15, x16>>
    \/ part = "engines" /\ i = 1 /\ Engines!Engine /\ UNCHANGED <<part, x16>>
    \/ part = "engines" /\ i = 2 /\ Engines!Launch /\ UNCHANGED <<part, x16>>
    \/ part = "limited" /\ i = 1 /\ Limited!Worker /\ UNCHANGED <<part, x14, x15, x16>>

FairServices == ServicesSpec /\ \A i \in DOMAIN Actors : WF_vars(StepOf(i))

----------------------------------------------------------------------------
(* what is checked of them *)

\* The browser's copy and the application's job: see ExtensionBridge.
OneTransfer == part = "bridge" => Bridge!TypeOK /\ Bridge!OneTransfer

\* Queries that supersede each other: see MediaSearch.
SearchSafe == part = "search" => Search!SearchSafe

\* The stored session can be renewed: see SpotifySession.
SessionRenewable == part = "session" => Session!SessionRenewable

\* What the engines received and delivered: see HttpEngines.
EnginesKeep ==
    [][part = "engines" => Engines!EngineCompletesWhole /\ Engines!NothingIsLost]_vars

\* What is under way comes to an end: every message of the browser gets its reply and every
\* request of the application is drained, every analysis and search is answered, a login and a
\* renewal end, and so does the worker of a download.
EverythingEnds ==
    \A i \in 1..3 :
        []<>CASE part = "bridge"      -> Bridge!AtRest
              [] part = "preparation" -> Preparation!AtRest
              [] part = "search"      -> Search!AtRest
              [] part = "session"     -> Session!Rests(i)
              [] part = "engines"     -> Engines!AtRest
              [] part = "limited"     -> x6 = "off"
=============================================================================
