----------------------------- MODULE ToolOverlay -----------------------------
(***************************************************************************)
(* The yt-dlp that the program updates for itself: staging (tools/         *)
(* download.rs), the store of versions and its activation pointer (tools/  *)
(* overlay.rs), the command that drives them (tools/ipc.rs) and the paths  *)
(* the session works with (app/runtime.rs, run_app).                       *)
(*                                                                         *)
(* One updater at a time (UPDATE_COORDINATOR); resolutions run beside it   *)
(* without a lock, and every one of them first repairs the store.  Files   *)
(* are renamed atomically; a crash may fall between any two steps.  Hashes *)
(* and sizes are those of the version: a file is what its name says.       *)
(***************************************************************************)
EXTENDS Integers, FiniteSets

CONSTANTS
    Versions,   \* versions the catalogue may offer, as positive numbers
    MaxUpdates, \* bound: updates per behaviour
    MaxCrashes  \* bound: crashes per behaviour

None == 0       \* no version: the bundled binary
NoPointer == [version |-> None, previous |-> None]

VARIABLES
    dirs,     \* versions/<v>: progress of its contents
    active,   \* active.json: version and previous version
    backup,   \* active.json.previous
    temp,     \* active.json.tmp exists
    staging,  \* directory of the staging operation in progress
    upd,      \* updater: step, version, pointer found, purpose of the pointer write
    report,   \* the outcome of the last update, with its version
    res,      \* the resolution in progress: step, and what it has seen
    seen,     \* version the last resolution returned
    session,  \* the yt-dlp path resolved at startup, for the whole session
    running,  \* a registered yt-dlp process runs
    replaced, \* history: pruning updates since the session's path was resolved
    raced,    \* history: a repair took the file a pointer write was to place, or undid it
    updates, crashes

store    == <<dirs, active, backup, temp>>
process  == <<session, running>>
history  == <<replaced, raced>>
budget   == <<updates, crashes>>
vars == <<store, staging, upd, report, res, seen, process, history, budget>>

Contents == {"none", "dir", "exe.tmp", "exe", "json.tmp", "full"}
Idle == [pc |-> "idle", v |-> None, prev |-> None, had |-> FALSE, restore |-> FALSE]
Resting == [pc |-> "idle", missing |-> FALSE]

(***************************************************************************)
(* Resolution: repair the store, read the pointer, verify what it names.   *)
(***************************************************************************)
\* The lease of the operation: staging and promotion hold it, the gap between them does not.
LeaseHeld == upd.pc \notin {"idle", "promote"}

Repaired == [v \in Versions |-> CASE dirs[v] = "exe.tmp" -> "dir"
                                  [] dirs[v] = "json.tmp" -> "exe"
                                  [] OTHER -> dirs[v]]
ValidPointer == active.version # None /\ dirs[active.version] = "full"
Resolved == IF ValidPointer THEN active.version ELSE None

UpdaterKeeps == UNCHANGED <<upd, report, updates, crashes>>
ResGoto(target) == res' = [res EXCEPT !.pc = target]

\* A resolution in the session: the settings, or the catalogue check of a status.
ResolveStarts ==
    /\ res.pc = "idle" /\ session # -1
    /\ ResGoto("lease")
    /\ UpdaterKeeps /\ UNCHANGED <<store, staging, seen, process, history>>

\* recover_at asks whether an operation holds the lease before it tidies the staging area.
RecoverAsks ==
    /\ res.pc = "lease"
    /\ ResGoto(IF LeaseHeld THEN "temp" ELSE "staging")
    /\ UpdaterKeeps /\ UNCHANGED <<store, staging, seen, process, history>>

RecoverStaging ==
    /\ res.pc = "staging"
    /\ staging' = IF staging \in {"part", "json.part"} THEN "none" ELSE staging
    /\ ResGoto("temp")
    /\ UpdaterKeeps /\ UNCHANGED <<store, seen, process, history>>

RecoverTemp ==
    /\ res.pc = "temp"
    /\ temp' = FALSE
    /\ raced' = (raced \/ (temp /\ upd.pc \in {"away", "place"}))
    /\ ResGoto("look")
    /\ UpdaterKeeps /\ UNCHANGED <<dirs, active, backup, staging, seen, process, replaced>>

RecoverLooks ==
    /\ res.pc = "look"
    /\ res' = [pc |-> "rename", missing |-> active = NoPointer /\ backup # NoPointer]
    /\ UpdaterKeeps /\ UNCHANGED <<store, staging, seen, process, history>>

\* The rename replaces whatever is there by now.
RecoverRenames ==
    /\ res.pc = "rename"
    /\ IF res.missing /\ backup # NoPointer
       THEN /\ active' = backup /\ backup' = NoPointer
            /\ raced' = (raced \/ active # NoPointer)
       ELSE UNCHANGED <<active, backup, raced>>
    /\ ResGoto("dirs")
    /\ UpdaterKeeps /\ UNCHANGED <<dirs, temp, staging, seen, process, replaced>>

RecoverDirs ==
    /\ res.pc = "dirs"
    /\ dirs' = Repaired
    /\ ResGoto("read")
    /\ UpdaterKeeps /\ UNCHANGED <<active, backup, temp, staging, seen, process, history>>

\* The first resolution of a session fixes the path of all its downloads.
ResolveReads ==
    /\ res.pc = "read"
    /\ seen' = Resolved
    /\ session' = IF session = -1 THEN Resolved ELSE session
    /\ res' = Resting
    /\ UpdaterKeeps /\ UNCHANGED <<store, staging, running, history>>

Resolve ==
    \/ RecoverAsks \/ RecoverStaging \/ RecoverTemp \/ RecoverLooks \/ RecoverRenames
    \/ RecoverDirs \/ ResolveReads

(***************************************************************************)
(* The updater: check, stage, promote.                                     *)
(***************************************************************************)
Others == UNCHANGED <<res, seen, process, raced, crashes>>
Goto(target) == upd' = [upd EXCEPT !.pc = target]
Fail == upd' = Idle /\ report' = [state |-> "failed", v |-> upd.v]

\* The catalogue offers a version newer than the one in use.
UpdateStarts ==
    /\ upd.pc = "idle" /\ session # -1 /\ updates < MaxUpdates
    /\ \E v \in Versions :
         /\ v > Resolved
         /\ upd' = [Idle EXCEPT !.pc = "stage", !.v = v]
    /\ updates' = updates + 1
    /\ Others /\ UNCHANGED <<store, staging, report, replaced>>

\* begin_operation clears what an earlier operation left and takes a directory of its own.
StageBegin ==
    /\ upd.pc = "stage"
    /\ staging' = "part" /\ Goto("fetch")
    /\ Others /\ UNCHANGED <<store, report, replaced, updates>>

\* A failed operation, its retries used up, takes its directory with it.
StageFails ==
    /\ upd.pc \in {"fetch", "rename", "probe"}
    /\ staging' = "none" /\ Fail
    /\ Others /\ UNCHANGED <<store, replaced, updates>>

\* An attempt that fails removes the partial and is repeated; one has the size and hash.
StageFetched ==
    /\ upd.pc = "fetch" /\ staging = "part"
    /\ Goto("rename")
    /\ Others /\ UNCHANGED <<store, staging, report, replaced, updates>>

StageRename ==
    /\ upd.pc = "rename" /\ staging = "part"
    /\ staging' = "exe" /\ Goto("probe")
    /\ Others /\ UNCHANGED <<store, report, replaced, updates>>

StageProbe ==
    /\ upd.pc = "probe"
    /\ staging' = "json.part" /\ Goto("stageJson")
    /\ Others /\ UNCHANGED <<store, report, replaced, updates>>

StageCommit ==
    /\ upd.pc = "stageJson"
    /\ IF staging = "json.part" THEN staging' = "staged" /\ Goto("promote") /\ UNCHANGED report
                                ELSE staging' = "none" /\ Fail
    /\ Others /\ UNCHANGED <<store, replaced, updates>>

\* reverify_staged_yt_dlp: path, size, hash and the version it reports, once more.
Reverified == staging = "staged"

\* promote_at: lease, nothing in use, the staged file verified once more, store repaired,
\* and no version older than the one that is active.
PromoteBegins ==
    /\ upd.pc = "promote"
    /\ \/ Fail /\ UNCHANGED store                                   \* in use, or not verified
       \/ /\ ~running /\ Reverified
          /\ temp' = FALSE /\ dirs' = Repaired
          /\ IF active = NoPointer /\ backup # NoPointer
             THEN active' = backup /\ backup' = NoPointer
             ELSE UNCHANGED <<active, backup>>
          /\ IF active'.version > upd.v THEN Fail
             ELSE /\ upd' = [upd EXCEPT !.pc = "mkdir", !.prev = active'.version]
                  /\ UNCHANGED report
    /\ Others /\ UNCHANGED <<staging, replaced, updates>>

\* copy_artifact: a version directory that exists is never reused.
Copy(from, to, target) ==
    /\ IF dirs[upd.v] = from
       THEN dirs' = [dirs EXCEPT ![upd.v] = to] /\ Goto(target) /\ UNCHANGED report
       ELSE Fail /\ UNCHANGED dirs
    /\ Others /\ UNCHANGED <<active, backup, temp, staging, replaced, updates>>

CopyDirectory  == upd.pc = "mkdir"      /\ Copy("none", "dir", "copy")
CopyExecutable == upd.pc = "copy"       /\ Copy("dir", "exe.tmp", "renameExe")
CopyRename     == upd.pc = "renameExe"  /\ Copy("exe.tmp", "exe", "json")
CopyMetadata   == upd.pc = "json"       /\ Copy("exe", "json.tmp", "renameJson")
CopyCommit     == upd.pc = "renameJson" /\ Copy("json.tmp", "full", "health")

Removed(v) == [dirs EXCEPT ![v] = "none"]

HealthCheck ==
    /\ upd.pc = "health"
    /\ \/ Goto("writeTemp") /\ UNCHANGED <<dirs, report>>
       \/ Fail /\ dirs' = Removed(upd.v)
    /\ Others /\ UNCHANGED <<active, backup, temp, staging, replaced, updates>>

\* atomic_write_active: for the new version, or to restore the one before.
PointerTemp ==
    /\ upd.pc = "writeTemp"
    /\ temp' = TRUE /\ Goto("away")
    /\ Others /\ UNCHANGED <<dirs, active, backup, staging, report, replaced, updates>>

PointerAway ==
    /\ upd.pc = "away"
    /\ backup' = active /\ active' = NoPointer
    /\ upd' = [upd EXCEPT !.pc = "place", !.had = active # NoPointer]
    /\ Others /\ UNCHANGED <<dirs, temp, staging, report, replaced, updates>>

Target == IF upd.restore THEN [version |-> upd.prev, previous |-> None]
                         ELSE [version |-> upd.v, previous |-> upd.prev]

\* The rename fails when a resolution has removed the temporary file: the old pointer comes
\* back, and a first activation takes its version directory away; a failed restoration
\* removes the pointer.
PointerPlace ==
    /\ upd.pc = "place"
    /\ IF temp
       THEN active' = Target /\ Goto("tidy") /\ UNCHANGED <<dirs, backup, report>>
       ELSE /\ Fail
            /\ IF upd.restore
               THEN active' = NoPointer /\ backup' = NoPointer /\ UNCHANGED dirs
               ELSE /\ dirs' = Removed(upd.v)
                    /\ IF upd.had /\ backup # NoPointer
                       THEN active' = backup /\ backup' = NoPointer
                       ELSE UNCHANGED <<active, backup>>
    /\ temp' = FALSE
    /\ Others /\ UNCHANGED <<staging, replaced, updates>>

PointerTidy ==
    /\ upd.pc = "tidy"
    /\ backup' = NoPointer
    /\ IF upd.restore THEN Fail ELSE Goto("secondHealth") /\ UNCHANGED report
    /\ Others /\ UNCHANGED <<dirs, active, temp, staging, replaced, updates>>

Restorable == upd.prev # None /\ dirs[upd.prev] = "full"

\* Mutant: the version that failed goes first, then the pointer to it.
SecondHealthRemoves ==
    /\ upd.pc = "secondHealth"
    /\ \/ Goto("retain") /\ UNCHANGED <<dirs, active, report>>
       \/ /\ Restorable
          /\ dirs' = Removed(upd.v)
          /\ upd' = [upd EXCEPT !.pc = "writeTemp", !.restore = TRUE]
          /\ UNCHANGED <<active, report>>
    /\ Others /\ UNCHANGED <<backup, temp, staging, replaced, updates>>

\* The second probe, with the pointer in place: a failure restores the version before.
SecondHealth ==
    /\ upd.pc = "secondHealth"
    /\ \/ Goto("retain") /\ UNCHANGED <<active, report>>
       \/ /\ Restorable
          /\ upd' = [upd EXCEPT !.pc = "writeTemp", !.restore = TRUE]
          /\ UNCHANGED <<active, report>>
       \/ /\ ~Restorable
          /\ active' = NoPointer /\ Fail
    /\ Others /\ UNCHANGED <<dirs, backup, temp, staging, replaced, updates>>

\* retain_versions keeps the new version and the one before.
Retain ==
    /\ upd.pc = "retain"
    /\ dirs' = [v \in Versions |-> IF v \in {upd.v, upd.prev} THEN dirs[v] ELSE "none"]
    /\ replaced' = replaced + 1
    /\ upd' = Idle /\ report' = [state |-> "updated", v |-> upd.v]
    /\ Others /\ UNCHANGED <<active, backup, temp, staging, updates>>

Update ==
    \/ StageBegin \/ StageFails \/ StageFetched \/ StageRename \/ StageProbe \/ StageCommit
    \/ PromoteBegins \/ CopyDirectory \/ CopyExecutable \/ CopyRename \/ CopyMetadata
    \/ CopyCommit \/ HealthCheck \/ PointerTemp \/ PointerAway \/ PointerPlace \/ PointerTidy
    \/ SecondHealth \/ Retain

(***************************************************************************)
(* Downloads use the path of the session; a restart resolves it again.     *)
(***************************************************************************)
ToolStarts ==
    /\ ~running /\ session # -1
    /\ session # None => dirs[session] \in {"exe", "json.tmp", "full"}
    /\ running' = TRUE
    /\ UpdaterKeeps /\ UNCHANGED <<store, staging, res, seen, session, history>>

ToolEnds ==
    /\ running /\ running' = FALSE
    /\ UpdaterKeeps /\ UNCHANGED <<store, staging, res, seen, session, history>>

Crash ==
    /\ crashes < MaxCrashes /\ crashes' = crashes + 1
    /\ upd' = Idle /\ report' = [state |-> "none", v |-> None]
    /\ res' = [Resting EXCEPT !.pc = "lease"] /\ session' = -1
    /\ running' = FALSE /\ replaced' = 0
    /\ UNCHANGED <<store, staging, seen, raced, updates>>

Init ==
    /\ dirs = [v \in Versions |-> "none"] /\ active = NoPointer /\ backup = NoPointer
    /\ temp = FALSE /\ staging = "none"
    /\ upd = Idle /\ report = [state |-> "none", v |-> None]
    /\ res = [Resting EXCEPT !.pc = "lease"] /\ seen = None /\ session = -1
    /\ running = FALSE /\ replaced = 0 /\ raced = FALSE /\ updates = 0 /\ crashes = 0

Next ==
    \/ ResolveStarts \/ Resolve \/ UpdateStarts \/ Update \/ ToolStarts \/ ToolEnds \/ Crash

Spec == Init /\ [][Next]_vars

(***************************************************************************)
(* Properties.                                                             *)
(***************************************************************************)
Pointers == [version : Versions \cup {None}, previous : Versions \cup {None}]
TypeOK ==
    /\ dirs \in [Versions -> Contents]
    /\ active \in Pointers /\ backup \in Pointers /\ temp \in BOOLEAN
    /\ staging \in {"none", "part", "exe", "json.part", "staged"}
    /\ report \in [state : {"none", "failed", "updated"}, v : Versions \cup {None}]
    /\ seen \in Versions \cup {None} /\ session \in Versions \cup {None, -1}
    /\ running \in BOOLEAN /\ raced \in BOOLEAN /\ replaced \in Nat

\* Whatever falls between two renames, and whatever a resolution repairs meanwhile, the
\* pointer and its backup name complete versions.
PointerIsWhole ==
    /\ active # NoPointer => dirs[active.version] = "full"
    /\ backup # NoPointer /\ active = NoPointer => dirs[backup.version] = "full"

\* The path the session was started with is there until two updates have replaced it: the
\* first one keeps the version before.  (A repair that races the writing of the pointer can
\* make the updater lose sight of that version.)
SessionToolKept ==
    session > None /\ replaced <= 1 /\ ~raced => dirs[session] \in {"exe", "json.tmp", "full"}

\* An update reported as done is the version that is resolved, unless overtaken by a repair.
ReportedIsActive ==
    report.state = "updated" /\ upd.pc = "idle" /\ ~raced =>
        \/ active.version = report.v
        \/ active = NoPointer /\ backup.version = report.v

(***************************************************************************)
(* Why they hold: the inductive invariant.                                 *)
(***************************************************************************)
Copying == {"copy", "renameExe", "json", "renameJson"}
Writing == {"writeTemp", "away", "place"}
UpdaterTypeOK ==
    /\ upd \in [pc : {"idle", "stage", "fetch", "rename", "probe", "stageJson", "promote", "mkdir",
                      "health", "tidy", "secondHealth", "retain"} \cup Copying \cup Writing,
               v : Versions \cup {None}, prev : Versions \cup {None}, had : BOOLEAN, restore : BOOLEAN]
    /\ res \in [pc : {"idle", "lease", "staging", "temp", "look", "rename", "dirs", "read"},
               missing : BOOLEAN]
    /\ upd.pc # "idle" => upd.v \in Versions
    /\ upd.restore => upd.pc \in Writing \cup {"tidy"}
    /\ session = -1 => upd.pc = "idle"

\* The pointer and its backup always name complete versions, not only when one is used.
NamedAreWhole ==
    \A pointer \in {active, backup} :
        pointer # NoPointer => pointer.version \in Versions /\ dirs[pointer.version] = "full"

\* A resolution that found the pointer missing can replace another one only between its
\* writing and the removal of the backup.
LateRepair == res.missing /\ active # NoPointer /\ backup # NoPointer => upd.pc = "tidy"

\* What is being installed is not in use, and complete before the pointer is touched.
NewIsUnnamed ==
    upd.pc \in Copying \cup {"health"} \cup Writing /\ ~upd.restore =>
        /\ upd.v \notin {active.version, backup.version}
        /\ upd.pc \in {"health"} \cup Writing => dirs[upd.v] = "full"

\* The updater knows the version before: the pointer names it, or the backup while the
\* pointer is being written, and a repair meanwhile brings back no other.
PreviousIsKnown ==
    /\ upd.pc \in {"mkdir", "health", "writeTemp", "away"} \cup Copying /\ ~upd.restore =>
          /\ active.version = upd.prev
          /\ active = NoPointer => backup = NoPointer
    /\ upd.pc = "place" /\ ~upd.restore =>
          \/ active = NoPointer /\ backup.version = upd.prev
          \/ active.version = upd.prev /\ backup = NoPointer
    /\ upd.pc = "tidy" /\ ~upd.restore =>
          /\ active # NoPointer /\ active.version \in {upd.v, upd.prev}
          /\ backup # NoPointer => backup.version = upd.prev
    /\ upd.pc \in {"secondHealth", "retain"} =>
          active # NoPointer /\ active.version \in {upd.v, upd.prev} /\ backup = NoPointer
    /\ upd.restore => upd.prev # None /\ dirs[upd.prev] = "full"

\* Unless a repair came between, the pointer is the one that was written, and an update
\* that is reported is in it.
WrittenStays ==
    ~raced =>
        /\ upd.pc \in {"away", "place"} => temp
        /\ upd.pc = "tidy" => active = Target
        /\ upd.pc \in {"secondHealth", "retain"} => active.version = upd.v
        /\ upd.pc = "idle" /\ report.state = "updated" =>
              report.v \in Versions /\ active.version = report.v

\* The session's version is the one in use until the first update has replaced it, which
\* keeps it as the one before, and only the second one may remove it.
SessionIsHeld ==
    session > None /\ ~raced /\ replaced <= 1 =>
        /\ dirs[session] = "full"
        /\ upd.pc \in Copying \cup {"health"} => session # upd.v
        /\ replaced = 0 =>
              IF upd.pc \in {"idle", "stage", "fetch", "rename", "probe", "stageJson", "promote"}
              THEN active.version = session ELSE upd.prev = session

OverlayInv ==
    /\ TypeOK /\ UpdaterTypeOK /\ NamedAreWhole /\ LateRepair /\ NewIsUnnamed
    /\ PreviousIsKnown /\ WrittenStays /\ SessionIsHeld
=============================================================================
