-------------------------- MODULE ExtensionBridge --------------------------
(***************************************************************************)
(* The bridge between the browser extension and the application            *)
(* (src/extension/native-host/src/main.rs, extension_bridge.rs,            *)
(* downloads/commands.rs; the browser's side from extension/service-worker *)
(* .js, the draining loop from app-ui/modules/extension/index.js).         *)
(*                                                                         *)
(* Every message of the extension is handled by a host process.  Hosts and *)
(* the application share three things on disk: the lock file of the        *)
(* application, which a host also takes for a moment to see whether the    *)
(* application runs; the inbox of request files; the response files.  A    *)
(* message is its identity.  A capture pauses the browser's own copy of    *)
(* the download until the host has replied.                                *)
(***************************************************************************)
EXTENDS Integers, FiniteSets

CONSTANTS
    Captures,    \* messages "browser_download_capture"
    Controls,    \* messages "open_job", "job_action" ...: a request, no response
    Opens,       \* messages "open_app"
    Pings,       \* messages "ping" and "get_status"
    Apps,        \* identities for processes of the application
    Url,         \* the address each capture is for
    Activate,    \* the request "activate_app"
    Programs,    \* host programs considered: "published", "bundled"
    Scenarios    \* bounds: which messages are sent, starts by the user and exits, failures

VARIABLES
    program,     \* the host program registered with the browser
    lock,        \* who holds application.lock
    inbox,       \* request files; all the activation requests are one
    answer,      \* per capture: its response file
    host,        \* per message: where its host process is
    copy,        \* per capture: the browser's own download
    app,         \* per process of the application: where it is
    turn,        \* what the drain loop of the webview is at
    made,        \* captures a job was created for
    live,        \* those whose job is neither cancelled nor failed
    unserved,    \* history: the application exited, or a host could not start it
    kept,        \* history: requests drained whose file could not be removed
    pinged,      \* history: someone took a host that only looked for the application
    budget

bridge  == <<program, lock, inbox, answer>>
history == <<unserved, kept, pinged>>
vars == <<bridge, host, copy, app, turn, made, live, history, budget>>

Messages == Captures \cup Controls \cup Opens \cup Pings
Free == "free"
Idle == [at |-> "idle"]
Primary == {a \in Apps : app[a] = "primary"}

Spend(i) == budget[i] > 0 /\ budget' = [budget EXCEPT ![i] = @ - 1]

(* the host process ********************************************************)

Goes(r, to) == host' = [host EXCEPT ![r] = to]

\* The extension pauses its copy before it asks.
Asks(r) ==
    /\ host[r] = "off"
    /\ copy' = IF r \in Captures THEN [copy EXCEPT ![r] = "paused"] ELSE copy
    /\ Goes(r, IF r \in Captures \cup Controls THEN "write" ELSE "probe")
    /\ UNCHANGED <<bridge, app, turn, made, live, history, budget>>

\* What the extension does with a reply: it cancels its copy when the capture was
\* accepted, leaves it paused when the outcome is uncertain and resumes it otherwise.
Heard(reply) ==
    CASE reply = "accepted" -> "cancelled"
      [] reply = "temporary_failure" -> "uncertain"
      [] OTHER -> "resumed"
Replies(r, reply) ==
    /\ Goes(r, "done")
    /\ copy' = IF r \in Captures THEN [copy EXCEPT ![r] = Heard(reply)] ELSE copy

WritesRequest(r) ==
    /\ host[r] = "write"
    /\ \/ inbox' = inbox \cup {r} /\ Goes(r, "probe") /\ UNCHANGED <<copy, budget>>
       \/ Spend(2) /\ Replies(r, "error") /\ UNCHANGED inbox
    /\ UNCHANGED <<program, lock, answer, app, turn, made, live, history>>

\* try_lock_exclusive on the application's lock: the host has it until it unlocks.
Probe(r) ==
    /\ host[r] = "probe"
    /\ IF lock = Free
       THEN lock' = r /\ Goes(r, "unlock") /\ UNCHANGED <<inbox, pinged>>
       ELSE /\ Goes(r, IF r \in Captures THEN "wait" ELSE "done")
            /\ inbox' = IF r \in Opens THEN inbox \cup {Activate} ELSE inbox
            /\ pinged' = (pinged \/ (r \notin Pings /\ lock \in Pings))
            /\ UNCHANGED lock
    /\ UNCHANGED <<program, answer, copy, app, turn, made, live, unserved, kept, budget>>

Unlocks(r) ==
    /\ host[r] = "unlock"
    /\ lock' = Free
    /\ Goes(r, IF r \in Pings THEN "done" ELSE "launch")
    /\ UNCHANGED <<program, inbox, answer, copy, app, turn, made, live, history, budget>>

Launches(r) ==
    /\ host[r] = "launch"
    /\ \E a \in Apps : app[a] = "off" /\ app' = [app EXCEPT ![a] = "starting"]
    /\ Goes(r, IF r \in Captures THEN "wait" ELSE "done")
    /\ UNCHANGED <<bridge, copy, turn, made, live, history, budget>>

LaunchErrorStays(r) ==
    /\ host[r] = "launch" /\ Spend(2)
    /\ Replies(r, "error")
    /\ unserved' = TRUE
    /\ UNCHANGED <<bridge, app, turn, made, live, kept, pinged>>
\* The published host withdraws the request of a capture when it cannot start the
\* application, and says so; the host inside the application leaves it in the inbox.
LaunchError(r) ==
    /\ host[r] = "launch" /\ Spend(2)
    /\ IF program = "published" /\ r \in Captures
       THEN inbox' = inbox \ {r} /\ Replies(r, "temporary_failure")
       ELSE Replies(r, "error") /\ UNCHANGED inbox
    /\ unserved' = TRUE
    /\ UNCHANGED <<program, lock, answer, app, turn, made, live, kept, pinged>>

HearsResponse(r) ==
    /\ host[r] = "wait" /\ answer[r] # "none"
    /\ answer' = [answer EXCEPT ![r] = "none"]
    /\ Replies(r, answer[r])
    /\ UNCHANGED <<program, lock, inbox, app, turn, made, live, history, budget>>

DeadlineUntaken(r) ==
    /\ host[r] = "wait" /\ answer[r] = "none" /\ r \in inbox
    /\ Goes(r, "late")
    /\ UNCHANGED <<bridge, copy, app, turn, made, live, history, budget>>
\* No response file, and the deadline has passed; the request is withdrawn after that.
Deadline(r) ==
    /\ host[r] = "wait" /\ answer[r] = "none"
    /\ Goes(r, "late")
    /\ UNCHANGED <<bridge, copy, app, turn, made, live, history, budget>>
GivesUp(r) ==
    /\ host[r] = "late"
    /\ inbox' = inbox \ {r}
    /\ Replies(r, "temporary_failure")
    /\ UNCHANGED <<program, lock, answer, app, turn, made, live, history, budget>>

\* The browser ends a host process: to the extension the outcome is uncertain.
HostDies(r) ==
    /\ host[r] \notin {"off", "done"} /\ Spend(2)
    /\ lock' = IF lock = r THEN Free ELSE lock
    /\ Replies(r, "temporary_failure")
    /\ unserved' = (unserved \/ host[r] \in {"probe", "unlock", "launch"})
    /\ UNCHANGED <<program, inbox, answer, app, turn, made, live, kept, pinged>>

(* the application *********************************************************)

UserStarts(a) ==
    /\ app[a] = "off" /\ Spend(1)
    /\ app' = [app EXCEPT ![a] = "starting"]
    /\ UNCHANGED <<bridge, host, copy, turn, made, live, history>>

\* The first instance takes the lock; any other asks it to show itself and returns.
ClaimsPrimary(a) ==
    /\ app[a] = "starting"
    /\ IF lock = Free
       THEN lock' = a /\ app' = [app EXCEPT ![a] = "primary"] /\ UNCHANGED <<inbox, pinged>>
       ELSE /\ inbox' = inbox \cup {Activate}
            /\ app' = [app EXCEPT ![a] = "off"]
            /\ pinged' = (pinged \/ lock \in Pings)
            /\ UNCHANGED lock
    /\ UNCHANGED <<program, answer, host, copy, turn, made, live, unserved, kept, budget>>

\* Exit or crash, at any point of a request.
Exits(a) ==
    /\ app[a] = "primary" /\ Spend(1)
    /\ app' = [app EXCEPT ![a] = "off"]
    /\ lock' = Free /\ turn' = Idle /\ unserved' = TRUE
    /\ UNCHANGED <<program, inbox, answer, host, copy, made, live, kept, pinged>>

\* The webview asks for one request at a time and processes it before the next.
ListsInbox(a) ==
    /\ app[a] = "primary" /\ turn = Idle
    /\ \E r \in inbox : turn' = [at |-> "listed", req |-> r]
    /\ UNCHANGED <<bridge, host, copy, app, made, live, history, budget>>

Taken(r) == IF r \in Captures THEN [at |-> "accept", req |-> r] ELSE Idle

\* The file may have been withdrawn since the directory was read.  A file that cannot
\* be removed is processed all the same.
Drains(a) ==
    /\ app[a] = "primary" /\ turn.at = "listed"
    /\ LET r == turn.req
       IN IF r \notin inbox
          THEN turn' = Idle /\ UNCHANGED <<inbox, kept, budget>>
          ELSE /\ turn' = Taken(r)
               /\ \/ inbox' = inbox \ {r} /\ UNCHANGED <<kept, budget>>
                  \/ Spend(2) /\ kept' = kept \cup {r} /\ UNCHANGED inbox
    /\ UNCHANGED <<program, lock, answer, host, copy, app, made, live, unserved, pinged>>

Responding(r, status) == [at |-> "respond", req |-> r, status |-> status]
Duplicates(r) == {c \in live : Url[c] = Url[r]}

\* accept, up to its look for a job with this address: a private or unsupported
\* download is refused, and a database error ends it without a response.
Accepts(a) ==
    /\ app[a] = "primary" /\ turn.at = "accept"
    /\ LET r == turn.req
       IN \/ turn' = Responding(r, "unsupported") /\ UNCHANGED budget
          \/ Spend(2) /\ turn' = Idle
          \/ /\ turn' = IF Duplicates(r) # {} THEN Responding(r, "duplicate")
                        ELSE [at |-> "create", req |-> r]
             /\ UNCHANGED budget
    /\ UNCHANGED <<bridge, host, copy, app, made, live, history>>

CreatesJob(a) ==
    /\ app[a] = "primary" /\ turn.at = "create"
    /\ LET r == turn.req
       IN \/ /\ made' = made \cup {r} /\ live' = live \cup {r}
             /\ turn' = Responding(r, "accepted") /\ UNCHANGED budget
          \/ Spend(2) /\ turn' = Responding(r, "temporary_failure") /\ UNCHANGED <<made, live>>
    /\ UNCHANGED <<bridge, host, copy, app, history>>

\* The response is written beside and renamed; when that fails there is none.
Responds(a) ==
    /\ app[a] = "primary" /\ turn.at = "respond"
    /\ \/ answer' = [answer EXCEPT ![turn.req] = turn.status] /\ UNCHANGED budget
       \/ Spend(2) /\ UNCHANGED answer
    /\ turn' = Idle
    /\ UNCHANGED <<program, lock, inbox, host, copy, app, made, live, history>>

JobStops(r) ==
    /\ r \in live
    /\ live' = live \ {r}
    /\ UNCHANGED <<bridge, host, copy, app, turn, made, history, budget>>

(***************************************************************************)

Init ==
    /\ program \in Programs
    /\ lock = Free /\ inbox = {} /\ answer = [r \in Captures |-> "none"]
    /\ \E s \in Scenarios :
           /\ host = [r \in Messages |-> IF r \in s.sent THEN "off" ELSE "done"]
           /\ budget = <<s.starts, s.failures>>
    /\ copy = [r \in Captures |-> "running"]
    /\ app = [a \in Apps |-> "off"] /\ turn = Idle
    /\ made = {} /\ live = {}
    /\ unserved = FALSE /\ kept = {} /\ pinged = FALSE

\* A host process runs on its own clock: it always takes its next step, and so does the
\* application's drain loop, which a timer starts again.
HostStep(r) ==
    \/ WritesRequest(r) \/ Probe(r) \/ Unlocks(r) \/ Launches(r)
    \/ LaunchError(r) \/ Deadline(r) \/ GivesUp(r)
    \/ r \in Captures /\ HearsResponse(r)
AppStep(a) ==
    \/ ClaimsPrimary(a) \/ ListsInbox(a) \/ Drains(a) \/ Accepts(a) \/ CreatesJob(a)
    \/ Responds(a)
Next ==
    \/ \E r \in Messages : Asks(r) \/ HostStep(r) \/ HostDies(r)
    \/ \E a \in Apps : AppStep(a) \/ UserStarts(a) \/ Exits(a)
    \/ \E r \in Captures : JobStops(r)

(* what the bridge promises ************************************************)

TypeOK ==
    /\ program \in Programs
    /\ lock \in {Free} \cup Apps \cup Messages
    /\ inbox \subseteq Captures \cup Controls \cup {Activate}
    /\ made \subseteq Captures /\ live \subseteq made
    /\ Primary = {a \in Apps : lock = a}

\* The browser's copy is given up only for a job that exists, and it runs on by itself
\* only when the application never made a job of it: no download is lost, and none is
\* transferred twice behind the user's back.  A request whose file could not be removed
\* is the exception: it is drained again, and its second answer is "duplicate".
\* service-worker.js captureDownload, enqueue, BrowserDownloadCaptureService::accept.
OneTransfer == \A r \in Captures :
    /\ copy[r] = "cancelled" => r \in made
    /\ copy[r] = "resumed" /\ r \in made => r \in kept

\* Every message gets its reply, and unless something failed or the application exited
\* the inbox is emptied: whoever starts or finds the application leaves someone running
\* who drains it.  The exception is a host or an instance that found the lock held by a
\* host that only looked: it took that host for the application and started nothing.
\* launch_app, app_running, claim_primary_app_instance, drain_extension_bridge_requests.
AtRest ==
    /\ \A r \in Messages : host[r] \in {"off", "done"}
    /\ inbox = {} \/ unserved \/ pinged \/ kept # {}
=============================================================================
