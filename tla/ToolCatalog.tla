----------------------------- MODULE ToolCatalog -----------------------------
(***************************************************************************)
(* The signed catalogue of tool versions (tools/catalog.rs): a check reads *)
(* the cached catalogue and the record of the highest sequence number,     *)
(* fetches, verifies, refuses what was superseded, and writes three files  *)
(* one after the other.  A crash may fall between any two renames, and a   *)
(* mirror may answer with any catalogue that was ever published.           *)
(*                                                                         *)
(* A catalogue is known by its sequence number; its signature holds.       *)
(***************************************************************************)
EXTENDS Integers, FiniteSets

CONSTANTS
    MaxSequence, \* bound: catalogues published
    MaxCrashes   \* bound: crashes, file system errors included

Files == {"current", "metadata", "sequence"}
Absent == 0

VARIABLES
    file,      \* sequence number in each of the three files
    aside,     \* the same for <file>.previous
    published, \* newest catalogue of the server
    pc,        \* step of the check; write steps name the file
    had,       \* the file being written existed
    answer,    \* catalogue being accepted
    highest,   \* highest sequence the check has read
    cached,    \* sequence of the cache the check has read, Absent if none
    result,    \* what the last check returned
    accepted,  \* history: highest catalogue ever accepted and completely written
    rolledBack,\* history: a catalogue was accepted below that
    crashes

vars == <<file, aside, published, pc, had, answer, highest, cached, result, accepted,
          rolledBack, crashes>>

\* read_lkg: both files, and they must agree.
Cache == IF file["current"] = file["metadata"] THEN file["current"] ELSE Absent

Larger(a, b) == IF a > b THEN a ELSE b

\* Mutant: the record of the highest number is not read.
HighestOfCache == Cache
Highest == Larger(file["sequence"], Cache)

CheckReads ==
    /\ pc = "idle"
    /\ cached' = Cache /\ highest' = Highest
    /\ pc' = "fetch"
    /\ UNCHANGED <<file, aside, published, had, answer, result, accepted, rolledBack, crashes>>

\* 304, no answer after the retries, or an answer that does not verify: the cache stands.
FetchKeepsCache ==
    /\ pc = "fetch" /\ pc' = "idle"
    /\ result' \in {"offline", "rejected", IF cached = Absent THEN "corrupt" ELSE "notModified"}
    /\ UNCHANGED <<file, aside, published, had, answer, highest, cached, accepted, rolledBack, crashes>>

\* Mutant: a catalogue that is already in the cache is refused as well.
SupersededSame(s) == s <= highest
Superseded(s) == s < highest \/ (s = highest /\ s # cached)

FetchReplay ==
    /\ pc = "fetch" /\ pc' = "idle"
    /\ \E s \in 1 .. published : Superseded(s) /\ answer' = s
    /\ result' = "replay"
    /\ UNCHANGED <<file, aside, published, had, highest, cached, accepted, rolledBack, crashes>>

FetchAccepts ==
    /\ pc = "fetch" /\ pc' = "current"
    /\ \E s \in 1 .. published : ~Superseded(s) /\ answer' = s
    /\ rolledBack' = (rolledBack \/ answer' < accepted)
    /\ UNCHANGED <<file, aside, published, had, highest, cached, result, accepted, crashes>>

\* atomic_write: the old file steps aside, the new one takes its place, the old one goes.
Placing == [current |-> "placeCurrent", metadata |-> "placeMetadata", sequence |-> "placeSequence"]
Following == [current |-> "metadata", metadata |-> "sequence", sequence |-> "idle"]
\* Mutant: the record counts the catalogues instead of keeping the highest number.
ValueAdded(f) == IF f = "sequence" THEN highest + answer ELSE answer
Value(f) == IF f = "sequence" THEN Larger(highest, answer) ELSE answer

WriteAside(f) ==
    /\ pc = f
    /\ aside' = IF file[f] = Absent THEN aside ELSE [aside EXCEPT ![f] = file[f]]
    /\ file' = [file EXCEPT ![f] = Absent] /\ had' = (file[f] # Absent)
    /\ pc' = Placing[f]
    /\ UNCHANGED <<published, answer, highest, cached, result, accepted, rolledBack, crashes>>

WritePlace(f) ==
    /\ pc = Placing[f]
    /\ file' = [file EXCEPT ![f] = Value(f)] /\ aside' = [aside EXCEPT ![f] = Absent]
    /\ pc' = Following[f]
    /\ result' = IF f = "sequence" THEN "remote" ELSE result
    /\ accepted' = IF f = "sequence" THEN Larger(accepted, answer) ELSE accepted
    /\ UNCHANGED <<published, had, answer, highest, cached, rolledBack, crashes>>

\* The temporary file cannot be written, or not be renamed: what was there stays or comes back.
WriteFails(f) ==
    /\ pc \in {f, Placing[f]} /\ crashes < MaxCrashes /\ crashes' = crashes + 1
    /\ IF pc = Placing[f] /\ had
       THEN file' = [file EXCEPT ![f] = aside[f]] /\ aside' = [aside EXCEPT ![f] = Absent]
       ELSE UNCHANGED <<file, aside>>
    /\ pc' = "idle" /\ result' = "corrupt"
    /\ UNCHANGED <<published, had, answer, highest, cached, accepted, rolledBack>>

Publish ==
    /\ published < MaxSequence /\ published' = published + 1
    /\ UNCHANGED <<file, aside, pc, had, answer, highest, cached, result, accepted, rolledBack, crashes>>

\* No start looks at <file>.previous.
Crash ==
    /\ pc # "idle" /\ crashes < MaxCrashes /\ crashes' = crashes + 1
    /\ pc' = "idle" /\ result' = "none"
    /\ UNCHANGED <<file, aside, published, had, answer, highest, cached, accepted, rolledBack>>

Init ==
    /\ file = [f \in Files |-> Absent] /\ aside = [f \in Files |-> Absent]
    /\ published = 1 /\ pc = "idle" /\ had = FALSE /\ answer = Absent /\ highest = Absent /\ cached = Absent
    /\ result = "none" /\ accepted = Absent /\ rolledBack = FALSE /\ crashes = 0

Next ==
    \/ CheckReads \/ FetchKeepsCache \/ FetchReplay \/ FetchAccepts
    \/ \E f \in Files : WriteAside(f) \/ WritePlace(f) \/ WriteFails(f)
    \/ Publish \/ Crash

Spec == Init /\ [][Next]_vars

(***************************************************************************)
(* Properties.                                                             *)
(***************************************************************************)
Sequences == 0 .. MaxSequence
TypeOK ==
    /\ file \in [Files -> Sequences] /\ aside \in [Files -> Sequences]
    /\ published \in 1 .. MaxSequence /\ had \in BOOLEAN
    /\ pc \in {"idle", "fetch"} \cup Files \cup {Placing[f] : f \in Files}
    /\ {answer, highest, cached, accepted} \subseteq Sequences
    /\ result \in {"none", "offline", "rejected", "corrupt", "notModified", "replay", "remote"}
    /\ rolledBack \in BOOLEAN

\* No catalogue older than one that was accepted is accepted, as long as the program has been
\* interrupted at most once: the cache and the record of the sequence are two witnesses, and
\* one interruption spoils one of them.
NoRollback == crashes <= 1 => ~rolledBack

\* The newest catalogue is refused as a replay only where an interruption has spoiled the
\* cache of that very catalogue and left the record of its number.
NewestAccepted ==
    pc = "idle" /\ result = "replay" /\ answer = published => crashes > 0

(***************************************************************************)
(* Why they hold: the inductive invariant.                                 *)
(***************************************************************************)
Before == {"idle", "fetch", "current"}
OldAt == [current |-> Before, metadata |-> Before \cup {"placeCurrent", "metadata"},
          sequence |-> Before \cup {"placeCurrent", "metadata", "placeMetadata", "sequence"}]
NewAt == [current |-> {"metadata", "placeMetadata", "sequence", "placeSequence"},
          metadata |-> {"sequence", "placeSequence"}, sequence |-> {}]

\* Up to one interruption: one of the two witnesses knows the highest number that was
\* accepted, and what is being written is no older and in the files already written.
WitnessIsLeft ==
    crashes <= 1 =>
        /\ pc \in {"idle", "fetch"} => Highest >= accepted
        /\ pc # "idle" => highest >= accepted
        /\ pc \notin {"idle", "fetch"} =>
              /\ answer >= highest
              /\ \A f \in Files : pc \in NewAt[f] => file[f] = answer

\* Up to the first: every file has the number accepted last, or its copy aside has while it
\* is written, and what is refused as a replay is older.
Undisturbed ==
    crashes = 0 =>
        /\ \A f \in Files :
              /\ pc \in OldAt[f] => file[f] = accepted
              /\ pc = Placing[f] => IF had THEN aside[f] = accepted ELSE accepted = Absent
        /\ pc = "fetch" => highest = accepted /\ cached = accepted
        /\ pc \in {"idle", "fetch"} /\ result = "replay" => answer < accepted

CatalogInv ==
    /\ TypeOK /\ crashes \in Nat /\ answer <= published /\ accepted <= published
    /\ WitnessIsLeft /\ Undisturbed /\ NoRollback
=============================================================================
