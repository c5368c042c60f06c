---------------------------- MODULE MediaProgress ----------------------------
(* The numbers of a running media job: yt-dlp announces a plan, reports each stream as it is
   downloaded, and the tracker of the worker makes one percentage of the streams, from their own
   totals, the plan's or their percentages (media/download/progress.rs).  The same tracker
   follows every attempt of the worker.  Sizes are small numbers, percentages whole ones; speed,
   remaining time and texts are left out. *)
EXTENDS Naturals, FiniteSets, FiniteSetsExt

CONSTANTS
    Formats,     \* the streams the source has
    Size(_),     \* their true sizes
    Wanted,      \* the sets of formats an attempt may choose
    MaxAttempts  \* bound: attempts of one worker

VARIABLES
    kind,      \* format |-> how it is downloaded: "whole" (its length is sent), "fragments" or "unsized"
    meta,      \* format |-> what the metadata says of its size: "exact", "approx" or "none"
    wanted,    \* the formats of the attempt
    attempt,
    got,       \* format |-> bytes on disk
    ended,     \* the formats yt-dlp reported as finished in this attempt
    told,      \* the plan line of this attempt has been read
    tracker,   \* MediaProgressTracker
    shown,     \* the last update made of it
    read,      \* the worker read 'running' and is about to write the row
    row        \* jobs and media_jobs: whether it runs, and the numbers written
progressVars == <<kind, meta, wanted, attempt, got, ended, told, tracker, shown, read, row>>

None == 0
Approx(f) == Size(f) + 1
Estimates(f) == {Size(f) - 1, Size(f) + 1}
MinOf(a, b) == IF a < b THEN a ELSE b
MaxOf(a, b) == IF a > b THEN a ELSE b
Unseen == [seen |-> FALSE, down |-> 0, total |-> None, estimated |-> FALSE, percent |-> None]
NoPlan(selected) == [streams |-> [f \in Formats |-> Unseen], expected |-> selected,
                     total |-> None, estimated |-> FALSE, last |-> 0]
Numbers == [down |-> 0, total |-> None, estimated |-> FALSE, percent |-> None]
ProgressInit ==
    /\ kind \in [Formats -> {"whole", "fragments", "unsized"}]
    /\ meta \in [Formats -> {"exact", "approx", "none"}]
    /\ \A f \in Formats : {f} \in Wanted => meta[f] = "none"   \* never read of a combined stream
    /\ wanted \in Wanted /\ attempt = 1
    /\ got = [f \in Formats |-> 0] /\ ended = {} /\ told = FALSE
    /\ tracker \in {NoPlan(n) : n \in {1, 2}}   \* the selector's guess: "a+b/c" or "c"
    /\ shown = Numbers /\ read = FALSE
    /\ row = [running |-> TRUE, numbers |-> Numbers]

\* The plan line, printed before the download (media/mod.rs:949): as many streams as it names,
\* and their total if every size is there.  It names the parts of a merged download only: of a
\* combined stream it says nothing, and the selector's guess stays.
Declared(f) == CASE meta[f] = "exact" -> Size(f) [] meta[f] = "approx" -> Approx(f) [] OTHER -> None
DeclaredPart == MapThenSumSet(Declared, wanted)   \* Mutant: the sizes that are there
DeclaredTotal == IF \A f \in wanted : meta[f] # "none" THEN MapThenSumSet(Declared, wanted) ELSE None
Plan ==
    /\ row.running /\ ~told /\ told' = TRUE
    /\ tracker' = IF Cardinality(wanted) = 1 THEN tracker
                  ELSE [tracker EXCEPT !.expected = Cardinality(wanted), !.total = DeclaredTotal,
                                       !.estimated = \E f \in wanted : meta[f] = "approx"]
    /\ UNCHANGED <<kind, meta, wanted, attempt, got, ended, shown, read, row>>

\* yt-dlp's report of a stream: bytes, and a total, an estimate or neither, with its percentage
\* of that; the last report of a stream knows its size.
Report(f, down, last) ==
    CASE kind[f] = "whole" \/ (last /\ kind[f] = "fragments") -> {[down |-> down, exact |-> Size(f), guess |-> None]}
      [] kind[f] = "fragments" -> {[down |-> down, exact |-> None, guess |-> e] : e \in Estimates(f)}
      [] OTHER -> {[down |-> down, exact |-> None, guess |-> None]}
Said(report) == IF report.exact # None THEN report.exact ELSE report.guess
Capped(percent) == MinOf(percent, 99)
Percent(report) == IF Said(report) = None THEN None ELSE Capped((100 * report.down) \div Said(report))

\* The stream keeps its greatest count; an exact total replaces an estimate and stays.
Merged(stream, report) ==
    [seen |-> TRUE,
     down |-> MaxOf(stream.down, report.down),
     percent |-> IF Percent(report) # None THEN Percent(report) ELSE stream.percent,
     total |-> CASE Said(report) = None -> stream.total
                 [] report.exact # None \/ stream.total = None \/ stream.estimated -> Said(report)
                 [] OTHER -> MaxOf(stream.total, Said(report)),
     estimated |-> IF Said(report) = None THEN stream.estimated
                   ELSE IF report.exact # None \/ stream.total = None \/ stream.estimated
                        THEN report.exact = None ELSE stream.estimated]
Streams(t) == {f \in Formats : t.streams[f].seen}
DownOf(t) == LET Down(f) == t.streams[f].down IN MaxOf(t.last, MapThenSumSet(Down, Streams(t)))
SumTotals(t) == LET TotalOf(f) == t.streams[f].total IN MapThenSumSet(TotalOf, Streams(t))
AllKnown(t) ==
    /\ Cardinality(Streams(t)) >= t.expected
    /\ \A f \in Streams(t) : t.streams[f].total # None
\* The totals of all the streams, or the plan's, or none.
TotalShown(t) == CASE AllKnown(t) -> MaxOf(SumTotals(t), DownOf(t))
                   [] t.total # None -> MaxOf(t.total, DownOf(t))
                   [] OTHER -> None
IsEstimate(t) == IF AllKnown(t) THEN \E f \in Streams(t) : t.streams[f].estimated
                 ELSE t.total # None /\ t.estimated
Measured(t) ==
    LET PercentOf(f) == t.streams[f].percent
        sum == MapThenSumSet(PercentOf, Streams(t))
    IN IF sum = 0 THEN None ELSE Capped(sum \div MaxOf(t.expected, Cardinality(Streams(t))))
Shown(t) ==
    [down |-> DownOf(t), total |-> TotalShown(t), estimated |-> IsEstimate(t),
     percent |-> IF TotalShown(t) # None THEN Capped((100 * DownOf(t)) \div TotalShown(t)) ELSE Measured(t)]

\* A line of yt-dlp while the row is 'running': the update, and now and then the row.
Reports(f, down) ==
    /\ row.running /\ told /\ ~read
    /\ f \in wanted \ ended /\ down \in got[f]..Size(f)
    /\ \A g \in wanted \ ended : got[g] > 0 => g = f      \* one stream after the other
    /\ got' = [got EXCEPT ![f] = down]
    /\ ended' = IF down = Size(f) THEN ended \cup {f} ELSE ended
    /\ \E report \in Report(f, down, down = Size(f)) :
        LET t == [tracker EXCEPT !.streams[f] = Merged(@, report)] IN
        /\ tracker' = [t EXCEPT !.last = DownOf(t)]
        /\ shown' = Shown(t)
    /\ read' \in BOOLEAN
    /\ UNCHANGED <<kind, meta, wanted, attempt, told, row>>
\* One transaction, whose statements look at the status again.
WritesUnguarded ==
    /\ read /\ read' = FALSE
    /\ row' = [row EXCEPT !.numbers = shown]
    /\ UNCHANGED <<kind, meta, wanted, attempt, got, ended, told, tracker, shown>>
Writes ==
    /\ read /\ read' = FALSE
    /\ row' = IF row.running THEN [row EXCEPT !.numbers = shown] ELSE row
    /\ UNCHANGED <<kind, meta, wanted, attempt, got, ended, told, tracker, shown>>
\* The attempt fails: the next one may choose other formats.
NextAttempt ==
    /\ row.running /\ ~read /\ ended # wanted /\ attempt < MaxAttempts
    /\ attempt' = attempt + 1 /\ ended' = {} /\ told' = FALSE
    /\ wanted' \in Wanted
    /\ UNCHANGED <<kind, meta, got, tracker, shown, read, row>>
Stopped ==
    /\ row.running /\ row' = [row EXCEPT !.running = FALSE]
    /\ UNCHANGED <<kind, meta, wanted, attempt, got, ended, told, tracker, shown, read>>

ProgressNext ==
    \/ Plan \/ Writes \/ NextAttempt \/ Stopped
    \/ \E f \in Formats : \E down \in 0..Size(f) : Reports(f, down)
------------------------------------------------------------------------------
TrueSize == MapThenSumSet(Size, wanted)
\* A total that is shown as exact is the size of what is being downloaded, whether it comes from
\* the plan or from the streams.  The tracker of the worker is not renewed for another attempt,
\* whose streams are added to those given up (worker.rs:1134): of these nothing is said.
ExactIsTrue == attempt = 1 /\ shown.total # None /\ ~shown.estimated => shown.total = TrueSize
\* With a plan of exact sizes the percentage never falls, while the total it is taken of changes
\* from the plan's to that of the streams, as long as no stream only estimates its size.
PlannedNeverFalls ==
    /\ attempt' = 1 /\ Cardinality(wanted) > 1
    /\ \A f \in wanted : meta[f] = "exact" /\ kind[f] # "fragments"
    => shown'.percent >= shown.percent
\* A job that was stopped between the reading of its status and the write keeps its numbers.
StoppedKeepsNumbers == ~row.running => row' = row
==============================================================================
