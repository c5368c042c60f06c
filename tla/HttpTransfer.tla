---------------------------- MODULE HttpTransfer ----------------------------
(***************************************************************************)
(* The bytes of one HTTP download: what the worker asks of the server, what*)
(* it believes about the answer, and what ends up in the .part file        *)
(* (run_rust_http_worker in downloads/worker.rs), against a server whose   *)
(* file may be replaced by another version between any two requests.       *)
(*                                                                         *)
(* A file is a sequence of chunks and a chunk remembers its version and    *)
(* position, so that a splice or a hole is visible.  HttpJob has the parts *)
(* this module takes as one step (the claim, the lease, the commit): here  *)
(* there is one worker at a time, and a partial that is absent counts as an*)
(* empty one.  The server is honest about lengths and offsets.             *)
(***************************************************************************)
EXTENDS Naturals, Sequences

CONSTANTS
    Sizes,       \* chunks of each version the server will publish, in order
    Validators,  \* the server sends a strong ETag or a Last-Modified
    Ranges,      \* the server serves ranges
    IfRange,     \* what the server of each version may do with If-Range: obey (TRUE), ignore
    Throttled,   \* the job may have a bandwidth limit
    MaxRetries,  \* 4 in the code
    MaxOps       \* bound: user commands + crashes + connection losses

ASSUME SizesAssumption  == Sizes \in Seq(Nat \ {0}) /\ Sizes # <<>>
ASSUME FlagsAssumption  == /\ {Validators, Ranges, Throttled} \subseteq BOOLEAN
                           /\ IfRange \in [1..Len(Sizes) -> (SUBSET BOOLEAN) \ {{}}]
ASSUME RetryAssumption  == MaxRetries \in Nat
ASSUME BudgetAssumption == MaxOps \in Nat

VARIABLES
    version,  \* what the server serves now
    status,   \* jobs.status
    row,      \* download_jobs: total_bytes and the validator
    part,     \* the .part file
    dest,     \* the destination file
    pc,       \* the worker
    state,    \* row as load_http_resume_state read it
    known,    \* total_bytes and validator of the current response
    resp,     \* the response: status code, version, next chunk, partial
    buffer,   \* the chunk just read
    down,     \* downloaded
    retries,  \* transport_retries
    ops       \* budget spent

local  == <<state, known, resp, buffer, down, retries>>
disk   == <<row, part, dest>>
vars   == <<version, status, disk, pc, local, ops>>

Versions == 1..Len(Sizes)
None     == 0                 \* no total, no validator, no chunk
Chunk(v, i) == [version |-> v, at |-> i]
Whole(v) == [i \in 1..Sizes[v] |-> Chunk(v, i)]

Tag(v)   == IF Validators THEN v ELSE None
Facts(v) == [total |-> Sizes[v], tag |-> Tag(v)]
NoFacts  == [total |-> None, tag |-> None]
NoResp   == [code |-> None, version |-> 1, at |-> 1]

(***************************************************************************)
(* The server: If-Range with an old validator gets the whole new file, or  *)
(* the range of the new one where the header is ignored.                   *)
(***************************************************************************)
Answers(ranged, from, tag) ==
    LET v == version
        full == [code |-> 200, version |-> v, at |-> 1]
        range == IF from >= Sizes[v] THEN [full EXCEPT !.code = 416]
                 ELSE [code |-> 206, version |-> v, at |-> from + 1]
    IN
    {IF ~ranged \/ ~Ranges \/ (obeys /\ tag # None /\ tag # Tag(v)) THEN full ELSE range :
        obeys \in IfRange[v]}

Publish ==
    /\ version + 1 \in Versions
    /\ version' = version + 1
    /\ UNCHANGED <<status, disk, pc, local, ops>>

(***************************************************************************)
(* The worker.                                                             *)
(***************************************************************************)
Goto(target) == pc' = target
Elsewhere == UNCHANGED <<version, dest, ops>>

Start ==
    /\ pc = "off" /\ status = "queued"
    /\ status' = "running"
    /\ state' = row /\ known' = row /\ down' = Len(part) /\ retries' = 0
    /\ Goto(IF row.total # None /\ Len(part) = row.total THEN "finish"
            ELSE IF row.total # None /\ Len(part) > row.total THEN "oversized"
            ELSE "request")
    /\ UNCHANGED <<row, part, resp, buffer>> /\ Elsewhere

\* A partial longer than the file is set aside and the attempt fails.
Oversized ==
    /\ pc = "oversized"
    /\ part' = <<>> /\ Goto("fail")
    /\ UNCHANGED <<status, row, local>> /\ Elsewhere

\* The first request asks for the missing range, if there is a partial.
Request ==
    /\ pc = "request"
    /\ resp' \in Answers(down > 0, down, state.tag)
    /\ Goto("reply")
    /\ UNCHANGED <<status, row, part, state, known, buffer, down, retries>> /\ Elsewhere

\* The second one asks for all of it: the range was of another representation.
RequestAll ==
    /\ pc = "request all"
    /\ resp' \in Answers(FALSE, 0, None)
    /\ Goto("persist")
    /\ UNCHANGED <<status, row, part, state, known, buffer, down, retries>> /\ Elsewhere

\* Mutant: the validators are not compared.
ChangedIgnored(tag, v) == FALSE
Changed(tag, v) == tag # None /\ tag # Tag(v)
OtherTotal(v) == state.total # None /\ state.total # Sizes[v]

\* isolate_stale_partial.
Isolate == part' = <<>> /\ down' = 0

Reply ==
    /\ pc = "reply"
    /\ CASE resp.code = 416 ->
              /\ Goto(IF down = Sizes[resp.version] THEN "finish"
                      ELSE IF down > Sizes[resp.version] THEN "oversized" ELSE "fail")
              /\ known' = Facts(resp.version)
              /\ UNCHANGED <<part, down>>
         [] resp.code = 200 ->
              Goto("persist") /\ Isolate /\ UNCHANGED known
         [] resp.code = 206 ->
              /\ IF OtherTotal(resp.version) \/ Changed(state.tag, resp.version)
                 THEN Goto("request all") /\ Isolate
                 ELSE Goto("persist") /\ UNCHANGED <<part, down>>
              /\ UNCHANGED known
    /\ UNCHANGED <<status, row, state, resp, buffer, retries>> /\ Elsewhere

\* persist_http_representation, before the first byte of it is written ...
Persist ==
    /\ pc = "persist"
    /\ row' = Facts(resp.version) /\ known' = Facts(resp.version)
    /\ Goto("create")
    /\ UNCHANGED <<status, part, state, resp, buffer, down, retries>> /\ Elsewhere

\* ... and the partial is opened for appending or truncated.
Create ==
    /\ pc = "create"
    /\ part' = IF resp.code = 206 /\ down > 0 THEN part ELSE <<>>
    /\ Goto("loop")
    /\ UNCHANGED <<status, row, local>> /\ Elsewhere

Interrupted == status \in {"paused", "cancelled"}

Loop ==
    /\ pc = "loop"
    /\ Goto(IF Interrupted THEN "off" ELSE "read")
    /\ UNCHANGED <<status, row, part, local>> /\ Elsewhere

ReadChunk ==
    /\ pc = "read" /\ resp.at <= Sizes[resp.version]
    /\ buffer' = Chunk(resp.version, resp.at)
    /\ resp' = [resp EXCEPT !.at = @ + 1]
    /\ Goto("throttle")
    /\ UNCHANGED <<status, row, part, state, known, down, retries>> /\ Elsewhere

\* The response is resumable if the server serves ranges (it says so).
Short == known.total # None /\ down < known.total /\ Ranges

\* read returns 0: at the end of the body, or when the connection is closed early.
\* Mutant: retries are not limited.
EofUnbounded ==
    /\ IF ~Short THEN Goto("finish") /\ UNCHANGED retries
       ELSE Goto("resume") /\ retries' = retries + 1
    /\ UNCHANGED <<status, row, part, state, known, resp, buffer, down>>

Eof ==
    /\ IF ~Short THEN Goto("finish") /\ UNCHANGED retries
       ELSE IF retries >= MaxRetries THEN Goto("fail") /\ UNCHANGED retries
       ELSE Goto("resume") /\ retries' = retries + 1
    /\ UNCHANGED <<status, row, part, state, known, resp, buffer, down>>

ReadEnd  == /\ pc = "read" /\ resp.at > Sizes[resp.version]
            /\ Eof /\ Elsewhere
ReadLost == /\ pc = "read" /\ ops < MaxOps /\ ops' = ops + 1
            /\ Eof /\ UNCHANGED <<version, dest>>

ReadError ==
    /\ pc = "read" /\ ops < MaxOps /\ ops' = ops + 1
    /\ IF Ranges /\ retries < MaxRetries
       THEN Goto("resume error") /\ retries' = retries + 1
       ELSE Goto("fail") /\ UNCHANGED retries
    /\ UNCHANGED <<version, status, disk, state, known, resp, buffer, down>>

\* A whole answer to a reconnection is a new download: its facts are stored first.
\* Mutant: the new body's facts are not stored.
AfterRestartForgets == "create"
AfterRestart == "persist"

\* The reconnection after an early end: from the last byte, If-Range the validator of
\* the response that was interrupted.
Resume ==
    /\ pc \in {"resume", "resume error"}
    /\ \E r \in Answers(TRUE, down, known.tag) :
          /\ resp' = r
          /\ CASE r.code = 206 ->
                    /\ Goto(IF \/ pc = "resume" /\ OtherTotal(r.version)
                               \/ Changed(known.tag, r.version)
                            THEN "fail" ELSE "loop")
                    /\ UNCHANGED <<part, down>>
               [] r.code = 200 /\ pc = "resume" -> Goto(AfterRestart) /\ Isolate
               [] OTHER -> Goto("fail") /\ UNCHANGED <<part, down>>
    /\ UNCHANGED <<status, row, state, known, buffer, retries>> /\ Elsewhere

\* Mutant: the limiter waits on through a pause.
ThrottleIgnoresPause ==
    /\ pc = "throttle" /\ ~(Throttled /\ Interrupted)
    /\ Goto("write")
    /\ UNCHANGED <<status, row, part, local>> /\ Elsewhere

\* With a limit, throttle_bytes waits for the bandwidth, and gives up when the job is
\* interrupted: the loop goes on without the chunk.
Throttle ==
    /\ pc = "throttle"
    /\ \E limited \in {FALSE, Throttled} :
          Goto(IF limited /\ Interrupted THEN "loop" ELSE "write")
    /\ UNCHANGED <<status, row, part, local>> /\ Elsewhere

Write ==
    /\ pc = "write"
    /\ part' = Append(part, buffer) /\ down' = down + 1 /\ retries' = 0
    /\ Goto("loop")
    /\ UNCHANGED <<status, row, state, known, resp, buffer>> /\ Elsewhere

\* finalize_rust_http_staging: the length is all it can check.  The rename does not
\* ask whether the job was stopped, the commit does.
Complete == down # 0 /\ (known.total # None => down = known.total)

Finish ==
    /\ pc = "finish"
    /\ IF Complete /\ dest = <<>>
       THEN /\ dest' = part /\ part' = <<>>
            /\ status' = IF Interrupted THEN status ELSE "completed"
            /\ Goto(IF Interrupted THEN "fail" ELSE "off")
       ELSE UNCHANGED <<dest, part, status>> /\ Goto("fail")
    /\ UNCHANGED <<version, row, local, ops>>

\* The worker fails: without a partial, a destination of the right length is taken for
\* the file (complete_verified_http_job).
Recoverable ==
    /\ part = <<>> /\ dest # <<>>
    /\ row.total # None => Len(dest) = row.total

Fail ==
    /\ pc = "fail"
    /\ \E recovered \in {FALSE, Recoverable} :
          status' = IF Interrupted THEN status ELSE IF recovered THEN "completed" ELSE "failed"
    /\ Goto("off")
    /\ UNCHANGED <<row, part, local>> /\ Elsewhere

\* The request fails after its own retries.
RequestFails ==
    /\ pc \in {"request", "request all", "resume", "resume error"}
    /\ ops < MaxOps /\ ops' = ops + 1
    /\ Goto("fail")
    /\ UNCHANGED <<version, status, disk, local>>

(***************************************************************************)
(* The user and the machine.                                               *)
(***************************************************************************)
Command == ops < MaxOps /\ ops' = ops + 1 /\ UNCHANGED <<version, disk, pc, local>>

Pause  == Command /\ status \in {"queued", "running"} /\ status' = "paused"
Retake == Command /\ status \in {"paused", "failed"}  /\ status' = "queued"
Stop   == Command /\ status \notin {"completed", "cancelled"} /\ status' = "cancelled"

Crash ==
    /\ ops < MaxOps /\ ops' = ops + 1
    /\ pc' = "off"
    /\ status' = IF status = "running" THEN "queued" ELSE status
    /\ UNCHANGED <<version, disk, local>>

Init ==
    /\ version = 1 /\ status = "queued" /\ row = NoFacts
    /\ part = <<>> /\ dest = <<>>
    /\ pc = "off" /\ state = NoFacts /\ known = NoFacts /\ resp = NoResp
    /\ buffer = Chunk(1, 1) /\ down = 0 /\ retries = 0
    /\ ops = 0

Worker ==
    \/ Start \/ Oversized \/ Request \/ RequestAll \/ Reply \/ Persist \/ Create
    \/ Loop \/ ReadChunk \/ ReadEnd \/ Resume \/ Throttle \/ Write \/ Finish \/ Fail

Next ==
    \/ Worker \/ ReadLost \/ ReadError \/ RequestFails
    \/ Publish \/ Pause \/ Retake \/ Stop \/ Crash

Spec == Init /\ [][Next]_vars

(***************************************************************************)
(* Properties.                                                             *)
(***************************************************************************)
ProgramPoints ==
    {"off", "oversized", "request", "request all", "reply", "persist", "create", "loop",
     "read", "resume", "resume error", "throttle", "write", "finish", "fail"}

Chunks == UNION {{Chunk(v, i) : i \in 1..Sizes[v]} : v \in Versions}
RowFacts == {NoFacts} \cup {Facts(v) : v \in Versions}

\* The variables have their types; in particular the reconnections in a row never
\* exceed the limit of the code.
TypeOK ==
    /\ version \in Versions
    /\ status \in {"queued", "running", "paused", "cancelled", "failed", "completed"}
    /\ row \in RowFacts /\ state \in RowFacts /\ known \in RowFacts
    /\ part \in Seq(Chunks) /\ dest \in Seq(Chunks)
    /\ pc \in ProgramPoints
    /\ resp \in [code : {None, 200, 206, 416}, version : Versions, at : Nat \ {0}]
    /\ buffer \in Chunks
    /\ down \in Nat /\ retries \in 0..MaxRetries /\ ops \in 0..MaxOps

IsPrefixOf(file, v) ==
    Len(file) <= Sizes[v] /\ \A i \in DOMAIN file : file[i] = Chunk(v, i)

\* The partial is at all times the beginning of one version: it has no hole and no
\* bytes of two versions, however often the transfer was resumed, the file replaced and
\* the program restarted.  Holds for servers that send a validator and jobs without
\* a bandwidth limit.
NoSplice == \E v \in Versions : IsPrefixOf(part, v)

\* With a limit, still no bytes of two versions.
OneVersion == \E v \in Versions : \A i \in DOMAIN part : part[i].version = v

\* The row always names the version the bytes of the partial are of, also when the
\* program dies between the steps that replace the two: this is what makes the next
\* resume safe.
PartialKnowsItsVersion ==
    part # <<>> => row = Facts(part[1].version)

\* A completed download is the whole of one version ("Completada y verificada").
CompletedIsWhole ==
    status = "completed" => \E v \in Versions : dest = Whole(v)

\* Without a bandwidth limit there is one exception, whatever the server does: where it
\* ignores If-Range, a partial that is exactly as long as a newer, smaller version is taken
\* for the whole of it (the 416 of run_rust_http_worker), and is the beginning of its own.
Shrunk(v) == {w \in Versions : w > v /\ Sizes[w] < Sizes[v] /\ FALSE \in IfRange[w]}

CompletedIsWholeOrShrunk ==
    status = "completed" =>
        \E v \in Versions : \/ dest = Whole(v)
                            \/ \E w \in Shrunk(v) : dest = SubSeq(Whole(v), 1, Sizes[w])
=============================================================================
