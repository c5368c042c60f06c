------------------------- MODULE HttpTransferProof --------------------------
(***************************************************************************)
(* Theorems about HttpTransfer, for any sequence of versions, any server   *)
(* (with validators), any number of retries, commands and crashes: the     *)
(* partial never mixes versions and the row names its version; without a   *)
(* bandwidth limit it is the beginning of that version, and a download     *)
(* that is completed is whole, or as long as a smaller version.            *)
(***************************************************************************)
EXTENDS HttpTransfer, SequenceTheorems, TLAPS

\* Where the worker has counted the bytes of the partial.
Counting == ProgramPoints \ {"off", "fail"}

\* Where a body is being received.
Receiving == {"loop", "read", "throttle", "write"}

CountIsLength == pc \in Counting => down = Len(part)

\* The partial is of the version the row names, at every instant a crash may come.
RowNamesVersion ==
    part # <<>> => /\ row.tag \in Versions /\ row = Facts(row.tag)
                   /\ \A i \in DOMAIN part : part[i].version = row.tag

\* Until a reply has been looked at, the row is the one the worker started from.
RowIsRead == pc \in {"request", "reply", "request all"} => state = row

ReplyFits ==
    /\ pc = "reply" => /\ resp.code = 206 => resp.at = down + 1
                       /\ resp.code = 200 => resp.at = 1
    /\ pc = "request all" => part = <<>>
    /\ pc \in {"persist", "create"} =>
          /\ resp.at = down + 1
          /\ resp.code = 206 \/ part = <<>>
          /\ part # <<>> => row = Facts(resp.version)

\* The row and the response agree while a body is received, and the row and what the
\* worker knows of the last body while it reconnects.
BodyFits ==
    /\ pc \in Receiving => row = Facts(resp.version) /\ known = row
    /\ pc = "create" => row = Facts(resp.version) /\ known = row
    /\ pc \in {"resume", "resume error"} =>
          known = row /\ \E v \in Versions : row = Facts(v)
    /\ pc \in {"throttle", "write"} => buffer.version = resp.version

Same == CountIsLength /\ RowNamesVersion /\ RowIsRead /\ ReplyFits /\ BodyFits

\* Without a bandwidth limit no chunk is skipped.
InOrder ==
    /\ pc \in {"loop", "read"} => resp.at = down + 1
    /\ pc \in {"throttle", "write"} => buffer.at = down + 1 /\ resp.at = down + 2
    /\ \A i \in DOMAIN part : part[i].at = i

Responses == [code : {None, 200, 206, 416}, version : Versions, at : Nat \ {0}]

\* Versions are numbered from one, have chunks, and their chunks are chunks.
LEMMA VersionFacts ==
    /\ 1 \in Versions /\ Versions \subseteq Nat /\ None \notin Versions
    /\ \A v \in Versions : /\ Sizes[v] \in Nat \ {0}
                           /\ Facts(v) \in RowFacts
                           /\ \A i \in 1..Sizes[v] : Chunk(v, i) \in Chunks
<1>1. Len(Sizes) \in Nat /\ Len(Sizes) # 0
  BY SizesAssumption
<1>2. \A v \in Versions : Sizes[v] \in Nat \ {0}
  BY SizesAssumption DEF Versions
<1>3. 1 \in Versions /\ Versions \subseteq Nat /\ None \notin Versions
  BY <1>1 DEF Versions, None
<1>4. \A v \in Versions : \A i \in 1..Sizes[v] : Chunk(v, i) \in Chunks
  BY DEF Chunks
<1> QED
  BY <1>2, <1>3, <1>4 DEF RowFacts

\* A chunk has a version and a position in it.
LEMMA ChunkFacts ==
    ASSUME NEW c \in Chunks
    PROVE  c.version \in Versions /\ c.at \in 1..Sizes[c.version] /\ c.at \in Nat \ {0}
<1>1. PICK v \in Versions : c \in {Chunk(v, i) : i \in 1..Sizes[v]}
  BY DEF Chunks
<1>2. PICK i \in 1..Sizes[v] : c = Chunk(v, i)
  BY <1>1
<1> QED
  BY <1>2, VersionFacts DEF Chunk

\* With validators, the facts of a row name its version.
LEMMA FactsName ==
    ASSUME Validators = TRUE, NEW v \in Versions
    PROVE  Facts(v).tag = v /\ Tag(v) = v
BY DEF Facts, Tag

\* There is a reply to look at.
HasReply == pc = "reply" => resp.code \in {200, 206, 416}

\* A reply of the server to a request for the bytes after from.
AnswerFits(r, from) ==
    /\ r \in Responses /\ r.code \in {200, 206, 416}
    /\ r.code = 206 => r.at = from + 1
    /\ r.code = 200 => r.at = 1

\* The three replies there are.
LEMMA ThreeAnswers ==
    ASSUME TypeOK, NEW from \in Nat, NEW code \in {200, 206, 416},
           NEW at, at = (IF code = 206 THEN from + 1 ELSE 1)
    PROVE  AnswerFits([code |-> code, version |-> version, at |-> at], from)
BY DEF TypeOK, AnswerFits, Responses

\* Every variable keeps its type.
LEMMA TypeInit == ASSUME Init PROVE TypeOK
BY VersionFacts, RetryAssumption, BudgetAssumption
DEF Init, TypeOK, RowFacts, NoResp, None, ProgramPoints

\* What a request brings.
LEMMA RequestIs == ASSUME TypeOK, Request PROVE AnswerFits(resp', down)
<1>1. \/ resp' = [code |-> 200, version |-> version, at |-> 1]
      \/ resp' = [code |-> 416, version |-> version, at |-> 1]
      \/ resp' = [code |-> 206, version |-> version, at |-> down + 1]
  BY DEF Request, Answers
<1> QED
  BY <1>1, ThreeAnswers DEF TypeOK

\* What a request for all of the file brings.
LEMMA RequestAllIs == ASSUME TypeOK, RequestAll PROVE AnswerFits(resp', 0) /\ resp'.code = 200
<1>1. resp' = [code |-> 200, version |-> version, at |-> 1]
  BY DEF RequestAll, Answers
<1> QED
  BY <1>1, ThreeAnswers DEF TypeOK

\* What a reconnection brings.
LEMMA ResumeIs ==
    ASSUME TypeOK, Resume
    PROVE  /\ resp' \in Responses
           /\ \/ /\ pc' = "loop" /\ resp'.code = 206 /\ resp'.at = down + 1
                 /\ ~Changed(known.tag, resp'.version) /\ UNCHANGED <<part, down>>
              \/ /\ pc' = "persist" /\ resp'.code = 200 /\ resp'.at = 1
                 /\ part' = <<>> /\ down' = 0
              \/ pc' = "fail" /\ UNCHANGED <<part, down>>
           /\ UNCHANGED <<version, status, row, dest, state, known, buffer, retries, ops>>
<1>1. PICK r \in Answers(TRUE, down, known.tag) :
          /\ resp' = r
          /\ CASE r.code = 206 ->
                    /\ Goto(IF \/ pc = "resume" /\ OtherTotal(r.version)
                               \/ Changed(known.tag, r.version)
                            THEN "fail" ELSE "loop")
                    /\ UNCHANGED <<part, down>>
               [] r.code = 200 /\ pc = "resume" -> Goto(AfterRestart) /\ Isolate
               [] OTHER -> Goto("fail") /\ UNCHANGED <<part, down>>
  BY DEF Resume
<1>2. /\ r \in Responses /\ r.code \in {200, 206, 416}
      /\ r.code = 206 => r.at = down + 1
      /\ r.code = 200 => r.at = 1
  <2>1. \/ r = [code |-> 200, version |-> version, at |-> 1]
        \/ r = [code |-> 416, version |-> version, at |-> 1]
        \/ r = [code |-> 206, version |-> version, at |-> down + 1]
    BY DEF Answers
  <2>2. AnswerFits(r, down)
    BY <2>1, ThreeAnswers DEF TypeOK
  <2> QED
    BY <2>2 DEF AnswerFits
<1>3. CASE r.code = 206
  <2>1. UNCHANGED <<part, down>> /\ (pc' = "fail" \/ (pc' = "loop" /\ ~Changed(known.tag, r.version)))
    BY <1>1, <1>3 DEF Goto
  <2> QED
    BY <1>1, <1>2, <1>3, <2>1 DEF Resume, Elsewhere
<1>4. CASE r.code = 200 /\ pc = "resume"
  <2>1. pc' = "persist" /\ part' = <<>> /\ down' = 0
    BY <1>1, <1>4 DEF Goto, AfterRestart, Isolate
  <2> QED
    BY <1>1, <1>2, <1>4, <2>1 DEF Resume, Elsewhere
<1>5. CASE ~(r.code = 206) /\ ~(r.code = 200 /\ pc = "resume")
  <2>1. pc' = "fail" /\ UNCHANGED <<part, down>>
    BY <1>1, <1>5 DEF Goto
  <2> QED
    BY <1>1, <1>2, <2>1 DEF Resume, Elsewhere
<1> QED
  BY <1>3, <1>4, <1>5

\* What the worker does with the first reply.
LEMMA ReplyIs ==
    ASSUME TypeOK, HasReply, Reply
    PROVE  /\ \/ /\ resp.code = 416 /\ pc' \in {"finish", "oversized", "fail"}
                 /\ known' = Facts(resp.version) /\ UNCHANGED <<part, down>>
              \/ /\ resp.code = 200 /\ pc' = "persist" /\ part' = <<>> /\ down' = 0
                 /\ known' = known
              \/ /\ resp.code = 206 /\ pc' = "request all" /\ part' = <<>> /\ down' = 0
                 /\ known' = known
              \/ /\ resp.code = 206 /\ pc' = "persist" /\ ~Changed(state.tag, resp.version)
                 /\ UNCHANGED <<part, down, known>>
           /\ UNCHANGED <<version, status, row, dest, state, resp, buffer, retries, ops>>
<1>0. resp.code \in {200, 206, 416} /\ UNCHANGED <<version, status, row, dest, state, resp, buffer, retries, ops>>
  BY DEF HasReply, Reply, Elsewhere
<1>1. CASE resp.code = 416
  BY <1>0, <1>1 DEF Reply, Goto
<1>2. CASE resp.code = 200
  BY <1>0, <1>2 DEF Reply, Goto, Isolate
<1>3. CASE resp.code = 206 /\ (OtherTotal(resp.version) \/ Changed(state.tag, resp.version))
  BY <1>0, <1>3 DEF Reply, Goto, Isolate
<1>4. CASE resp.code = 206 /\ ~(OtherTotal(resp.version) \/ Changed(state.tag, resp.version))
  BY <1>0, <1>4 DEF Reply, Goto, Isolate
<1> QED
  BY <1>0, <1>1, <1>2, <1>3, <1>4

\* The row and the worker's copies of it keep their types, and so does the program counter.
LEMMA RowTypes ==
    ASSUME TypeOK, HasReply, [Next]_vars
    PROVE  /\ version' \in Versions /\ pc' \in ProgramPoints
           /\ status' \in {"queued", "running", "paused", "cancelled", "failed", "completed"}
           /\ row' \in RowFacts /\ state' \in RowFacts /\ known' \in RowFacts
<1>a. ASSUME Reply \/ Resume PROVE pc' \in ProgramPoints
  BY <1>a, ReplyIs, ResumeIs DEF ProgramPoints
<1>b. ASSUME Reply \/ Resume
      PROVE  /\ version' \in Versions /\ row' \in RowFacts /\ state' \in RowFacts
             /\ status' \in {"queued", "running", "paused", "cancelled", "failed", "completed"}
  <2>1. version' = version /\ status' = status /\ row' = row /\ state' = state
    BY <1>b, ReplyIs, ResumeIs
  <2> QED
    BY <2>1 DEF TypeOK
<1>c. ASSUME Reply \/ Resume PROVE known' \in RowFacts
  <2>1. CASE known' = known
    BY <2>1 DEF TypeOK
  <2>2. CASE known' = Facts(resp.version)
    BY <2>2, VersionFacts DEF TypeOK
  <2> QED
    BY <1>c, <2>1, <2>2, ReplyIs, ResumeIs
<1> USE DEF TypeOK, Goto, Elsewhere, local, disk, Isolate, ProgramPoints
<1>1. CASE Start
  BY <1>1 DEF Start
<1>2. CASE Oversized
  BY <1>2 DEF Oversized
<1>3. CASE Request
  BY <1>3 DEF Request
<1>4. CASE RequestAll
  BY <1>4 DEF RequestAll
<1>5. CASE Reply
  BY <1>5, <1>a, <1>b, <1>c
<1>6. CASE Persist
  BY <1>6, VersionFacts DEF Persist
<1>7. CASE Create
  BY <1>7 DEF Create
<1>8. CASE Loop
  BY <1>8 DEF Loop
<1>9. CASE ReadChunk
  BY <1>9 DEF ReadChunk
<1>10. CASE ReadEnd
  BY <1>10 DEF ReadEnd, Eof
<1>11. CASE Resume
  BY <1>11, <1>a, <1>b, <1>c
<1>12. CASE Throttle
  BY <1>12 DEF Throttle
<1>13. CASE Write
  BY <1>13 DEF Write
<1>14. CASE Finish
  <2>1. CASE status' = status
    BY <1>14, <2>1 DEF Finish
  <2>2. CASE status' = "completed"
    BY <1>14, <2>2 DEF Finish
  <2> QED
    BY <1>14, <2>1, <2>2 DEF Finish
<1>15. CASE Fail
  BY <1>15 DEF Fail
<1>16. CASE ReadLost
  BY <1>16 DEF ReadLost, Eof
<1>17. CASE ReadError
  BY <1>17 DEF ReadError
<1>18. CASE RequestFails
  BY <1>18 DEF RequestFails
<1>19. CASE Publish
  BY <1>19 DEF Publish
<1>20. CASE Pause
  BY <1>20 DEF Pause, Command
<1>21. CASE Retake
  BY <1>21 DEF Retake, Command
<1>22. CASE Stop
  BY <1>22 DEF Stop, Command
<1>23. CASE Crash
  BY <1>23 DEF Crash
<1>24. CASE UNCHANGED vars
  BY <1>24 DEF vars
<1> QED
  BY <1>1, <1>2, <1>3, <1>4, <1>5, <1>6, <1>7, <1>8, <1>9, <1>10, <1>11, <1>12,
     <1>13, <1>14, <1>15, <1>16, <1>17, <1>18, <1>19, <1>20, <1>21, <1>22, <1>23, <1>24
  DEF Next, Worker

\* Files are sequences of chunks.
LEMMA FileTypes ==
    ASSUME TypeOK, HasReply, [Next]_vars
    PROVE  part' \in Seq(Chunks) /\ dest' \in Seq(Chunks) /\ buffer' \in Chunks
<1>a. Reply \/ Resume => dest' = dest /\ buffer' = buffer /\ (part' = part \/ part' = <<>>)
  BY ReplyIs, ResumeIs
<1> USE DEF TypeOK, Goto, Elsewhere, local, disk, Isolate
<1>1. CASE Start
  BY <1>1 DEF Start
<1>2. CASE Oversized
  BY <1>2 DEF Oversized
<1>3. CASE Request
  BY <1>3 DEF Request
<1>4. CASE RequestAll
  BY <1>4 DEF RequestAll
<1>5. CASE Reply
  <2>1. CASE part' = part
    BY <1>5, <1>a, <2>1
  <2>2. CASE part' = <<>>
    BY <1>5, <1>a, <2>2
  <2> QED
    BY <1>5, <1>a, <2>1, <2>2
<1>6. CASE Persist
  BY <1>6 DEF Persist
<1>7. CASE Create
  BY <1>7 DEF Create
<1>8. CASE Loop
  BY <1>8 DEF Loop
<1>9. CASE ReadChunk
  BY <1>9, VersionFacts DEF ReadChunk, Responses
<1>10. CASE ReadEnd
  BY <1>10 DEF ReadEnd, Eof
<1>11. CASE Resume
  <2>1. CASE part' = part
    BY <1>11, <1>a, <2>1
  <2>2. CASE part' = <<>>
    BY <1>11, <1>a, <2>2
  <2> QED
    BY <1>11, <1>a, <2>1, <2>2
<1>12. CASE Throttle
  BY <1>12 DEF Throttle
<1>13. CASE Write
  BY <1>13 DEF Write
<1>14. CASE Finish
  <2>1. CASE Complete /\ dest = <<>>
    BY <1>14, <2>1 DEF Finish
  <2>2. CASE ~(Complete /\ dest = <<>>)
    BY <1>14, <2>2 DEF Finish
  <2> QED
    BY <2>1, <2>2
<1>15. CASE Fail
  BY <1>15 DEF Fail
<1>16. CASE ReadLost
  BY <1>16 DEF ReadLost, Eof
<1>17. CASE ReadError
  BY <1>17 DEF ReadError
<1>18. CASE RequestFails
  BY <1>18 DEF RequestFails
<1>19. CASE Publish
  BY <1>19 DEF Publish
<1>20. CASE Pause
  BY <1>20 DEF Pause, Command
<1>21. CASE Retake
  BY <1>21 DEF Retake, Command
<1>22. CASE Stop
  BY <1>22 DEF Stop, Command
<1>23. CASE Crash
  BY <1>23 DEF Crash
<1>24. CASE UNCHANGED vars
  BY <1>24 DEF vars
<1> QED
  BY <1>1, <1>2, <1>3, <1>4, <1>5, <1>6, <1>7, <1>8, <1>9, <1>10, <1>11, <1>12,
     <1>13, <1>14, <1>15, <1>16, <1>17, <1>18, <1>19, <1>20, <1>21, <1>22, <1>23, <1>24
  DEF Next, Worker

\* A response has the type of a response.
LEMMA ResponseType ==
    ASSUME TypeOK, HasReply, [Next]_vars
    PROVE  resp' \in Responses
<1>a. Reply => resp' = resp
  BY ReplyIs
<1>b. Resume => resp' \in Responses
  BY ResumeIs
<1> USE DEF TypeOK, Goto, Elsewhere, local, disk, Isolate, Responses
<1>1. CASE Start
  BY <1>1 DEF Start
<1>2. CASE Oversized
  BY <1>2 DEF Oversized
<1>3. CASE Request
  BY <1>3, RequestIs DEF AnswerFits
<1>4. CASE RequestAll
  BY <1>4, RequestAllIs DEF AnswerFits
<1>5. CASE Reply
  BY <1>5, <1>a, VersionFacts DEF Responses
<1>6. CASE Persist
  BY <1>6 DEF Persist
<1>7. CASE Create
  BY <1>7 DEF Create
<1>8. CASE Loop
  BY <1>8 DEF Loop
<1>9. CASE ReadChunk
  BY <1>9 DEF ReadChunk
<1>10. CASE ReadEnd
  BY <1>10 DEF ReadEnd, Eof
<1>11. CASE Resume
  BY <1>11, <1>b DEF Responses
<1>12. CASE Throttle
  BY <1>12 DEF Throttle
<1>13. CASE Write
  BY <1>13 DEF Write
<1>14. CASE Finish
  BY <1>14 DEF Finish
<1>15. CASE Fail
  BY <1>15 DEF Fail
<1>16. CASE ReadLost
  BY <1>16 DEF ReadLost, Eof
<1>17. CASE ReadError
  BY <1>17 DEF ReadError
<1>18. CASE RequestFails
  BY <1>18 DEF RequestFails
<1>19. CASE Publish
  BY <1>19 DEF Publish
<1>20. CASE Pause
  BY <1>20 DEF Pause, Command
<1>21. CASE Retake
  BY <1>21 DEF Retake, Command
<1>22. CASE Stop
  BY <1>22 DEF Stop, Command
<1>23. CASE Crash
  BY <1>23 DEF Crash
<1>24. CASE UNCHANGED vars
  BY <1>24 DEF vars
<1> QED
  BY <1>1, <1>2, <1>3, <1>4, <1>5, <1>6, <1>7, <1>8, <1>9, <1>10, <1>11, <1>12,
     <1>13, <1>14, <1>15, <1>16, <1>17, <1>18, <1>19, <1>20, <1>21, <1>22, <1>23, <1>24
  DEF Next, Worker

\* The counters stay within their bounds.
LEMMA CounterTypes ==
    ASSUME TypeOK, HasReply, [Next]_vars
    PROVE  down' \in Nat /\ retries' \in 0..MaxRetries /\ ops' \in 0..MaxOps
<1>a. Reply => (down' = down \/ down' = 0) /\ UNCHANGED <<retries, ops>>
  BY ReplyIs
<1>b. Resume => (down' = down \/ down' = 0) /\ UNCHANGED <<retries, ops>>
  BY ResumeIs
<1>c. ReadError \/ RequestFails => ops' \in 0..MaxOps
  <2>1. ReadError \/ RequestFails => ops < MaxOps /\ ops' = ops + 1
    BY DEF ReadError, RequestFails
  <2>2. ops \in 0..MaxOps
    BY DEF TypeOK
  <2> QED
    BY <2>1, <2>2, BudgetAssumption
<1> USE RetryAssumption, BudgetAssumption DEF TypeOK, Goto, Elsewhere, local, disk, Isolate
<1>1. CASE Start
  BY <1>1 DEF Start
<1>2. CASE Oversized
  BY <1>2 DEF Oversized
<1>3. CASE Request
  BY <1>3 DEF Request
<1>4. CASE RequestAll
  BY <1>4 DEF RequestAll
<1>5. CASE Reply
  BY <1>5, <1>a, VersionFacts DEF Responses
<1>6. CASE Persist
  BY <1>6 DEF Persist
<1>7. CASE Create
  BY <1>7 DEF Create
<1>8. CASE Loop
  BY <1>8 DEF Loop
<1>9. CASE ReadChunk
  BY <1>9 DEF ReadChunk
<1>10. CASE ReadEnd
  BY <1>10 DEF ReadEnd, Eof
<1>11. CASE Resume
  BY <1>11, <1>b DEF Responses
<1>12. CASE Throttle
  BY <1>12 DEF Throttle
<1>13. CASE Write
  BY <1>13 DEF Write
<1>14. CASE Finish
  BY <1>14 DEF Finish
<1>15. CASE Fail
  BY <1>15 DEF Fail
<1>16. CASE ReadLost
  BY <1>16 DEF ReadLost, Eof
<1>17. CASE ReadError
  <2>1. down' \in Nat
    BY <1>17 DEF ReadError
  <2>2. retries' = retries \/ (retries < MaxRetries /\ retries' = retries + 1)
    BY <1>17 DEF ReadError
  <2>3. retries' \in 0..MaxRetries
    BY <2>2
  <2> QED
    BY <1>17, <2>1, <2>3, <1>c
<1>18. CASE RequestFails
  <2>1. down' \in Nat /\ retries' \in 0..MaxRetries
    BY <1>18 DEF RequestFails
  <2> QED
    BY <1>18, <2>1, <1>c
<1>19. CASE Publish
  BY <1>19 DEF Publish
<1>20. CASE Pause
  BY <1>20 DEF Pause, Command
<1>21. CASE Retake
  BY <1>21 DEF Retake, Command
<1>22. CASE Stop
  BY <1>22 DEF Stop, Command
<1>23. CASE Crash
  BY <1>23 DEF Crash
<1>24. CASE UNCHANGED vars
  BY <1>24 DEF vars
<1> QED
  BY <1>1, <1>2, <1>3, <1>4, <1>5, <1>6, <1>7, <1>8, <1>9, <1>10, <1>11, <1>12,
     <1>13, <1>14, <1>15, <1>16, <1>17, <1>18, <1>19, <1>20, <1>21, <1>22, <1>23, <1>24
  DEF Next, Worker

\* The worker looks at a reply only after a request.
LEMMA ReplyComes == ASSUME TypeOK, HasReply, [Next]_vars PROVE HasReply'
<1> USE DEF HasReply, Goto, local, disk
<1>1. CASE Request
  BY <1>1, RequestIs DEF AnswerFits
<1>2. CASE Reply
  BY <1>2, ReplyIs
<1>3. CASE Resume
  BY <1>3, ResumeIs
<1>4. CASE UNCHANGED vars
  BY <1>4 DEF vars
<1>5. CASE Publish \/ Pause \/ Retake \/ Stop \/ Crash
  BY <1>5 DEF Publish, Pause, Retake, Stop, Crash, Command
<1>6. CASE Next /\ ~(Request \/ Reply \/ Resume \/ Publish \/ Pause \/ Retake \/ Stop \/ Crash)
  <2>1. pc' # "reply"
    BY <1>6 DEF Next, Worker, Start, Oversized, RequestAll, Persist, Create, Loop, ReadChunk,
                ReadEnd, Eof, Throttle, Write, Finish, Fail, ReadLost, ReadError, RequestFails
  <2> QED
    BY <2>1
<1> QED
  BY <1>1, <1>2, <1>3, <1>4, <1>5, <1>6

\* Type correctness of HttpTransfer; in particular the reconnections in a row never
\* exceed the limit (transport_retries in worker.rs).
THEOREM TypeCorrect == Spec => []TypeOK
<1>1. TypeOK /\ HasReply /\ [Next]_vars => TypeOK' /\ HasReply'
  BY RowTypes, FileTypes, ResponseType, CounterTypes, ReplyComes DEF TypeOK, Responses
<1>2. Init => HasReply
  BY DEF Init, HasReply
<1> QED
  BY <1>1, <1>2, TypeInit, PTL DEF Spec
\* The invariant of the bytes, for a server that sends validators.
Honest == TypeOK /\ HasReply /\ Same

\* The worker counts what it has written.
LEMMA CountStep ==
    ASSUME TypeOK, HasReply, Same, [Next]_vars
    PROVE  CountIsLength'
<1>a. part \in Seq(Chunks) /\ buffer \in Chunks /\ down \in Nat
  BY DEF TypeOK
<1>b. CountIsLength
  BY DEF Same
<1>d. CASE Create
  <2>1. part' = part \/ (part' = <<>> /\ ~(resp.code = 206 /\ down > 0))
    BY <1>d DEF Create
  <2>2. down' = down /\ down = Len(part) /\ (resp.code = 206 \/ part = <<>>)
    BY <1>b, <1>d DEF Create, local, CountIsLength, Counting, ProgramPoints, Same, ReplyFits
  <2>3. CASE part' = part
    BY <2>2, <2>3 DEF CountIsLength
  <2>4. CASE part' # part
    BY <1>a, <2>1, <2>2, <2>4 DEF CountIsLength
  <2> QED
    BY <2>3, <2>4
<1>c. ASSUME Reply \/ Resume PROVE CountIsLength'
  <2>1. pc \in Counting
    BY <1>c DEF Reply, Resume, Counting, ProgramPoints
  <2>2. CASE UNCHANGED <<part, down>>
    BY <1>b, <2>1, <2>2 DEF CountIsLength
  <2>3. CASE part' = <<>> /\ down' = 0
    BY <2>3 DEF CountIsLength
  <2> QED
    BY <1>c, <2>2, <2>3, ReplyIs, ResumeIs
<1> USE DEF Goto, Elsewhere, local, disk, Isolate, CountIsLength, Counting, ProgramPoints
<1>1. CASE Start
  BY <1>1, <1>a, <1>b DEF Start
<1>2. CASE Oversized
  BY <1>2, <1>a, <1>b DEF Oversized
<1>3. CASE Request
  BY <1>3, <1>a, <1>b DEF Request
<1>4. CASE RequestAll
  BY <1>4, <1>a, <1>b DEF RequestAll
<1>5. CASE Reply
  BY <1>5, <1>c
<1>6. CASE Persist
  BY <1>6, <1>a, <1>b DEF Persist
<1>7. CASE Create
  BY <1>7, <1>d
<1>8. CASE Loop
  BY <1>8, <1>a, <1>b DEF Loop
<1>9. CASE ReadChunk
  BY <1>9, <1>a, <1>b DEF ReadChunk
<1>10. CASE ReadEnd
  BY <1>10, <1>a, <1>b DEF ReadEnd, Eof
<1>11. CASE Resume
  BY <1>11, <1>c
<1>12. CASE Throttle
  BY <1>12, <1>a, <1>b DEF Throttle
<1>13. CASE Write
  BY <1>13, <1>a, <1>b DEF Write
<1>14. CASE Finish
  BY <1>14, <1>a, <1>b DEF Finish
<1>15. CASE Fail
  BY <1>15, <1>a, <1>b DEF Fail
<1>16. CASE ReadLost
  BY <1>16, <1>a, <1>b DEF ReadLost, Eof
<1>17. CASE ReadError
  BY <1>17, <1>a, <1>b DEF ReadError
<1>18. CASE RequestFails
  BY <1>18, <1>a, <1>b DEF RequestFails
<1>19. CASE Publish
  BY <1>19, <1>a, <1>b DEF Publish
<1>20. CASE Pause
  BY <1>20, <1>a, <1>b DEF Pause, Command
<1>21. CASE Retake
  BY <1>21, <1>a, <1>b DEF Retake, Command
<1>22. CASE Stop
  BY <1>22, <1>a, <1>b DEF Stop, Command
<1>23. CASE Crash
  BY <1>23, <1>a, <1>b DEF Crash
<1>24. CASE UNCHANGED vars
  BY <1>24, <1>b DEF vars
<1> QED
  BY <1>1, <1>2, <1>3, <1>4, <1>5, <1>6, <1>7, <1>8, <1>9, <1>10, <1>11, <1>12,
     <1>13, <1>14, <1>15, <1>16, <1>17, <1>18, <1>19, <1>20, <1>21, <1>22, <1>23, <1>24
  DEF Next, Worker

\* The row is stored only after the reply, and the next start reads it again.
LEMMA ReadStep ==
    ASSUME TypeOK, HasReply, Same, [Next]_vars
    PROVE  RowIsRead'
<1>b. RowIsRead
  BY DEF Same
<1>c. ASSUME Reply \/ Resume PROVE RowIsRead'
  <2>1. pc = "reply" \/ pc' \notin {"request", "reply", "request all"}
    BY <1>c, ResumeIs DEF Reply
  <2> QED
    BY <1>b, <1>c, <2>1, ReplyIs, ResumeIs DEF RowIsRead
<1> USE DEF Goto, Elsewhere, local, disk, Isolate, RowIsRead
<1>1. CASE Start
  BY <1>1, <1>b DEF Start
<1>2. CASE Oversized
  BY <1>2, <1>b DEF Oversized
<1>3. CASE Request
  BY <1>3, <1>b DEF Request
<1>4. CASE RequestAll
  BY <1>4, <1>b DEF RequestAll
<1>5. CASE Reply
  BY <1>5, <1>c
<1>6. CASE Persist
  BY <1>6, <1>b DEF Persist
<1>7. CASE Create
  BY <1>7, <1>b DEF Create
<1>8. CASE Loop
  BY <1>8, <1>b DEF Loop
<1>9. CASE ReadChunk
  BY <1>9, <1>b DEF ReadChunk
<1>10. CASE ReadEnd
  BY <1>10, <1>b DEF ReadEnd, Eof
<1>11. CASE Resume
  BY <1>11, <1>c
<1>12. CASE Throttle
  BY <1>12, <1>b DEF Throttle
<1>13. CASE Write
  BY <1>13, <1>b DEF Write
<1>14. CASE Finish
  BY <1>14, <1>b DEF Finish
<1>15. CASE Fail
  BY <1>15, <1>b DEF Fail
<1>16. CASE ReadLost
  BY <1>16, <1>b DEF ReadLost, Eof
<1>17. CASE ReadError
  BY <1>17, <1>b DEF ReadError
<1>18. CASE RequestFails
  BY <1>18, <1>b DEF RequestFails
<1>19. CASE Publish
  BY <1>19, <1>b DEF Publish
<1>20. CASE Pause
  BY <1>20, <1>b DEF Pause, Command
<1>21. CASE Retake
  BY <1>21, <1>b DEF Retake, Command
<1>22. CASE Stop
  BY <1>22, <1>b DEF Stop, Command
<1>23. CASE Crash
  BY <1>23, <1>b DEF Crash
<1>24. CASE UNCHANGED vars
  BY <1>24, <1>b DEF vars
<1> QED
  BY <1>1, <1>2, <1>3, <1>4, <1>5, <1>6, <1>7, <1>8, <1>9, <1>10, <1>11, <1>12,
     <1>13, <1>14, <1>15, <1>16, <1>17, <1>18, <1>19, <1>20, <1>21, <1>22, <1>23, <1>24
  DEF Next, Worker

\* What a step does to the partial and the row: nothing, or it empties the partial, or
\* it appends a chunk, or it stores the facts of the response.
LEMMA PartStep ==
    ASSUME TypeOK, HasReply, [Next]_vars
    PROVE  \/ UNCHANGED <<part, row>>
           \/ part' = <<>> /\ row' = row
           \/ Write \/ Persist
<1> USE DEF Elsewhere, local, disk, Isolate
<1>1. CASE Reply \/ Resume
  BY <1>1, ReplyIs, ResumeIs
<1>2. CASE UNCHANGED vars
  BY <1>2 DEF vars
<1>3. CASE Publish \/ Pause \/ Retake \/ Stop \/ Crash \/ ReadLost \/ ReadError \/ RequestFails
  BY <1>3 DEF Publish, Pause, Retake, Stop, Crash, Command, ReadLost, ReadError, RequestFails, Eof
<1>4. CASE Start \/ Request \/ RequestAll \/ Loop \/ ReadChunk \/ ReadEnd \/ Throttle \/ Fail
  BY <1>4 DEF Start, Request, RequestAll, Loop, ReadChunk, ReadEnd, Eof, Throttle, Fail
<1>5. CASE Oversized \/ Create \/ Finish
  BY <1>5 DEF Oversized, Create, Finish
<1> QED
  BY <1>1, <1>2, <1>3, <1>4, <1>5 DEF Next, Worker

\* The row names the version of the partial after every step.
LEMMA RowStep ==
    ASSUME Validators = TRUE, TypeOK, HasReply, Same, [Next]_vars
    PROVE  RowNamesVersion'
<1>a. RowNamesVersion /\ part \in Seq(Chunks) /\ buffer \in Chunks
  BY DEF TypeOK, Same
<1>b. resp.version \in Versions /\ Facts(resp.version).tag = resp.version
  BY FactsName DEF TypeOK
<1>1. CASE UNCHANGED <<part, row>>
  BY <1>a, <1>1 DEF RowNamesVersion
<1>2. CASE part' = <<>> /\ row' = row
  BY <1>2 DEF RowNamesVersion
<1>3. CASE Write
  <2>1. part' = Append(part, buffer) /\ row' = row
    BY <1>3 DEF Write
  <2>2. row = Facts(resp.version) /\ buffer.version = resp.version
    BY <1>3 DEF Write, Same, BodyFits, Receiving
  <2>3. row'.tag \in Versions /\ row' = Facts(row'.tag) /\ row'.tag = resp.version
    BY <1>b, <2>1, <2>2
  <2>4. ASSUME NEW i \in DOMAIN part' PROVE part'[i].version = resp.version
    <3>1. CASE i = Len(part) + 1
      BY <1>a, <2>1, <2>2, <3>1
    <3>2. CASE i # Len(part) + 1
      <4>1. i \in DOMAIN part /\ part'[i] = part[i]
        BY <1>a, <2>1, <3>2
      <4>2. part # <<>>
        BY <4>1
      <4> QED
        BY <1>a, <1>b, <2>2, <4>1, <4>2 DEF RowNamesVersion
    <3> QED
      BY <3>1, <3>2
  <2> QED
    BY <2>3, <2>4 DEF RowNamesVersion
<1>4. CASE Persist
  <2>1. row' = Facts(resp.version) /\ part' = part
    BY <1>4 DEF Persist
  <2>2. part # <<>> => row = Facts(resp.version)
    BY <1>4 DEF Persist, Same, ReplyFits
  <2> QED
    BY <1>a, <2>1, <2>2 DEF RowNamesVersion
<1> QED
  BY <1>1, <1>2, <1>3, <1>4, PartStep

\* The server and the user leave the worker and its files alone.
LEMMA OutsideStep ==
    ASSUME Publish \/ Pause \/ Retake \/ Stop \/ UNCHANGED vars
    PROVE  UNCHANGED <<row, part, pc, state, known, resp, buffer, down>>
<1>1. CASE Publish
  BY <1>1 DEF Publish, disk, local
<1>2. CASE Pause \/ Retake \/ Stop
  BY <1>2 DEF Pause, Retake, Stop, Command, disk, local
<1>3. CASE UNCHANGED vars
  BY <1>3 DEF vars, disk, local
<1> QED
  BY <1>1, <1>2, <1>3

\* The remaining steps of the worker, by where they lead.
LEMMA WhereTo ==
    ASSUME [Next]_vars
    PROVE  \/ Request \/ RequestAll \/ Reply \/ Persist \/ Create \/ Resume
           \/ Publish \/ Pause \/ Retake \/ Stop \/ UNCHANGED vars
           \/ Loop \/ ReadChunk \/ Throttle \/ Write
           \/ ReadEnd \/ ReadLost \/ ReadError
           \/ pc' \in {"off", "fail", "finish", "oversized", "request"}
BY DEF Next, Worker, Start, Oversized, Finish, Fail, RequestFails, Crash, Goto

\* A reply, and what is done with it, fit the partial the worker has.
LEMMA ReplyStep ==
    ASSUME Validators = TRUE, TypeOK, HasReply, Same, [Next]_vars
    PROVE  ReplyFits'
<1>a. /\ CountIsLength /\ RowNamesVersion /\ RowIsRead /\ ReplyFits
      /\ part \in Seq(Chunks) /\ down \in Nat /\ resp.version \in Versions
  BY DEF TypeOK, Same
<1>1. CASE Request
  <2>1. pc' = "reply" /\ down' = down /\ AnswerFits(resp', down)
    BY <1>1, RequestIs DEF Request, Goto
  <2> QED
    BY <2>1 DEF ReplyFits, AnswerFits
<1>2. CASE RequestAll
  <2>1. pc' = "persist" /\ part' = <<>> /\ down' = down /\ down = 0
    BY <1>a, <1>2 DEF RequestAll, Goto, ReplyFits, CountIsLength, Counting, ProgramPoints
  <2>2. resp'.at = 1
    BY <1>2, RequestAllIs DEF AnswerFits
  <2> QED
    BY <2>1, <2>2 DEF ReplyFits
<1>3. CASE Reply
  <2>1. pc = "reply" /\ state = row /\ resp' = resp /\ row' = row
    BY <1>a, <1>3, ReplyIs DEF Reply, RowIsRead
  <2>2. CASE pc' = "persist" /\ resp.code = 200 /\ part' = <<>> /\ down' = 0
    BY <1>a, <2>1, <2>2 DEF ReplyFits
  <2>3. CASE /\ pc' = "persist" /\ resp.code = 206 /\ ~Changed(state.tag, resp.version)
             /\ part' = part /\ down' = down
    <3>1. ASSUME part # <<>> PROVE row = Facts(resp.version)
      <4>1. row.tag \in Versions /\ row = Facts(row.tag)
        BY <1>a, <3>1 DEF RowNamesVersion
      <4>2. row.tag # None
        BY <4>1, VersionFacts
      <4>3. row.tag = Tag(resp.version)
        BY <2>1, <2>3, <4>2 DEF Changed
      <4> QED
        BY <1>a, <4>1, <4>3, FactsName
    <3>2. resp.at = down + 1
      BY <1>a, <2>1, <2>3 DEF ReplyFits
    <3> QED
      BY <2>1, <2>3, <3>1, <3>2 DEF ReplyFits
  <2>4. CASE pc' = "request all" /\ part' = <<>>
    BY <2>4 DEF ReplyFits
  <2>5. CASE pc' \in {"finish", "oversized", "fail"}
    BY <2>5 DEF ReplyFits
  <2> QED
    BY <1>3, <2>2, <2>3, <2>4, <2>5, ReplyIs
<1>4. CASE Persist
  <2>1. pc = "persist" /\ pc' = "create" /\ UNCHANGED <<part, resp, down>> /\ row' = Facts(resp.version)
    BY <1>4 DEF Persist, Goto
  <2> QED
    BY <1>a, <2>1 DEF ReplyFits
<1>5. CASE Resume
  <2>1. \/ pc' \in {"loop", "fail"}
        \/ pc' = "persist" /\ resp'.at = 1 /\ part' = <<>> /\ down' = 0
    BY <1>5, ResumeIs
  <2>2. CASE pc' \in {"loop", "fail"}
    BY <2>2 DEF ReplyFits
  <2>3. CASE pc' = "persist" /\ resp'.at = 1 /\ part' = <<>> /\ down' = 0
    BY <2>3 DEF ReplyFits
  <2> QED
    BY <2>1, <2>2, <2>3
<1>6. CASE Publish \/ Pause \/ Retake \/ Stop \/ UNCHANGED vars
  BY <1>a, <1>6, OutsideStep DEF ReplyFits
<1>7. CASE pc' \notin {"reply", "request all", "persist", "create"}
  BY <1>7 DEF ReplyFits
<1>8. CASE Create \/ Loop \/ ReadChunk \/ Throttle \/ Write \/ ReadEnd \/ ReadLost \/ ReadError
  BY <1>7, <1>8 DEF Create, Loop, ReadChunk, Throttle, Write, ReadEnd, ReadLost, ReadError, Eof, Goto
<1> QED
  BY <1>1, <1>2, <1>3, <1>4, <1>5, <1>6, <1>7, <1>8, WhereTo

\* The row, the response and what the worker knows of it go on fitting each other.
LEMMA BodyStep ==
    ASSUME Validators = TRUE, TypeOK, HasReply, Same, [Next]_vars
    PROVE  BodyFits'
<1>a. BodyFits /\ resp.version \in Versions
  BY DEF TypeOK, Same
<1>1. CASE Persist
  BY <1>1 DEF Persist, Goto, BodyFits, Receiving
<1>2. CASE Create
  <2>1. pc = "create" /\ pc' = "loop" /\ UNCHANGED <<row, known, resp>>
    BY <1>2 DEF Create, Goto, local
  <2> QED
    BY <1>a, <2>1 DEF BodyFits, Receiving
<1>3. CASE Loop
  <2>1. pc = "loop" /\ pc' \in {"off", "read"} /\ UNCHANGED <<row, known, resp>>
    BY <1>3 DEF Loop, Goto, local
  <2> QED
    BY <1>a, <2>1 DEF BodyFits, Receiving
<1>4. CASE ReadChunk
  <2>1. /\ pc = "read" /\ pc' \in {"throttle", "write"} /\ UNCHANGED <<row, known>>
        /\ resp' = [resp EXCEPT !.at = @ + 1] /\ buffer' = Chunk(resp.version, resp.at)
    BY <1>4 DEF ReadChunk, Goto
  <2>2. resp'.version = resp.version /\ buffer'.version = resp.version
    BY <2>1 DEF Chunk, TypeOK
  <2>3. row = Facts(resp.version) /\ known = row
    BY <1>a, <2>1 DEF BodyFits, Receiving
  <2>4. row' = Facts(resp'.version) /\ known' = row'
    BY <2>1, <2>2, <2>3
  <2> QED
    BY <2>1, <2>2, <2>4 DEF BodyFits
<1>5. CASE Throttle \/ Write
  <2>1. pc \in {"throttle", "write"} /\ pc' \in {"loop", "write"} /\ UNCHANGED <<row, known, resp, buffer>>
    BY <1>5 DEF Throttle, Write, Goto, local
  <2> QED
    BY <1>a, <2>1 DEF BodyFits, Receiving
<1>6. CASE ReadEnd \/ ReadLost \/ ReadError
  <2>1. pc = "read" /\ pc' \in {"finish", "fail", "resume", "resume error"} /\ UNCHANGED <<row, known>>
    BY <1>6 DEF ReadEnd, ReadLost, ReadError, Eof, Goto, disk
  <2> QED
    BY <1>a, <2>1 DEF BodyFits, Receiving
<1>7. CASE Resume
  <2>1. UNCHANGED <<row, known>> /\ resp' \in Responses
    BY <1>7, ResumeIs
  <2>2. CASE pc' = "loop" /\ ~Changed(known.tag, resp'.version)
    <3>1. pc \in {"resume", "resume error"}
      BY <1>7 DEF Resume
    <3>2. PICK v \in Versions : known = row /\ row = Facts(v)
      BY <1>a, <3>1 DEF BodyFits
    <3>3. known.tag = v /\ v # None
      BY <3>2, FactsName, VersionFacts
    <3>5. resp'.version \in Versions
      BY <2>1 DEF Responses
    <3>6. Tag(resp'.version) = resp'.version
      BY <3>5, FactsName
    <3>4. v = resp'.version
      BY <2>2, <3>3, <3>6 DEF Changed
    <3> QED
      BY <2>1, <2>2, <3>2, <3>4 DEF BodyFits, Receiving
  <2>3. CASE pc' \in {"persist", "fail"}
    BY <2>3 DEF BodyFits, Receiving
  <2> QED
    BY <1>7, <2>2, <2>3, ResumeIs
<1>8. CASE Publish \/ Pause \/ Retake \/ Stop \/ UNCHANGED vars
  BY <1>a, <1>8, OutsideStep DEF BodyFits
<1>9. CASE pc' \notin Receiving \cup {"create", "resume", "resume error"}
  BY <1>9 DEF BodyFits, Receiving
<1>10. CASE Request \/ RequestAll \/ Reply
  BY <1>9, <1>10, ReplyIs DEF Request, RequestAll, Goto, Receiving
<1> QED
  BY <1>1, <1>2, <1>3, <1>4, <1>5, <1>6, <1>7, <1>8, <1>9, <1>10, WhereTo DEF Receiving

\* The invariant of the bytes holds of every reachable state.
THEOREM BytesInvariant == ASSUME Validators = TRUE PROVE Spec => []Honest
<1>1. Init => Honest
  BY TypeInit DEF Init, Honest, HasReply, Same, CountIsLength, Counting, RowNamesVersion, RowIsRead,
              ReplyFits, BodyFits, Receiving
<1>2. Honest /\ [Next]_vars => Honest'
  <2> SUFFICES ASSUME Honest, [Next]_vars PROVE Honest'
    OBVIOUS
  <2>1. TypeOK /\ HasReply /\ Same
    BY DEF Honest
  <2>2. TypeOK'
    BY <2>1, RowTypes, FileTypes, ResponseType, CounterTypes DEF TypeOK, Responses
  <2>3. HasReply'
    BY <2>1, ReplyComes
  <2>4. Same'
    BY <2>1, CountStep, RowStep, ReadStep, ReplyStep, BodyStep DEF Same
  <2> QED
    BY <2>2, <2>3, <2>4 DEF Honest
<1> QED
  BY <1>1, <1>2, PTL DEF Spec

\* With validators the bytes of two versions are never mixed, and the row always names
\* the version of the partial, with or without a bandwidth limit.
THEOREM NeverMixed ==
    ASSUME Validators = TRUE PROVE Spec => [](OneVersion /\ PartialKnowsItsVersion)
<1>1. Honest => OneVersion /\ PartialKnowsItsVersion
  <2> SUFFICES ASSUME Honest PROVE OneVersion /\ PartialKnowsItsVersion
    OBVIOUS
  <2>1. RowNamesVersion /\ part \in Seq(Chunks) /\ version \in Versions
    BY DEF Honest, Same, TypeOK
  <2>2. CASE part = <<>>
    BY <2>1, <2>2 DEF OneVersion, PartialKnowsItsVersion
  <2>3. CASE part # <<>>
    <3>1. 1 \in DOMAIN part
      BY <2>1, <2>3
    <3> QED
      BY <2>1, <2>3, <3>1 DEF RowNamesVersion, OneVersion, PartialKnowsItsVersion
  <2> QED
    BY <2>2, <2>3
<1> QED
  BY <1>1, BytesInvariant, PTL

\* Without a bandwidth limit every chunk is written where it belongs.
LEMMA OrderStep ==
    ASSUME Throttled = FALSE, Honest, InOrder, [Next]_vars
    PROVE  InOrder'
<1>a. /\ TypeOK /\ HasReply /\ Same
      /\ part \in Seq(Chunks) /\ buffer \in Chunks /\ down \in Nat /\ resp.at \in Nat
  BY DEF Honest, TypeOK
<1> DEFINE Placed == \A i \in DOMAIN part : part[i].at = i
<1>b. CASE Write
  <2>1. /\ pc = "write" /\ pc' = "loop" /\ part' = Append(part, buffer)
        /\ down' = down + 1 /\ resp' = resp
    BY <1>b DEF Write, Goto
  <2>2. buffer.at = down + 1 /\ resp.at = down + 2 /\ Placed /\ down = Len(part)
    BY <1>a, <2>1 DEF InOrder, Same, CountIsLength, Counting, ProgramPoints
  <2>3. ASSUME NEW i \in DOMAIN part' PROVE part'[i].at = i
    <3>1. CASE i = Len(part) + 1
      BY <1>a, <2>1, <2>2, <3>1
    <3>2. CASE i # Len(part) + 1
      <4>1. i \in DOMAIN part /\ part'[i] = part[i]
        BY <1>a, <2>1, <3>2
      <4> QED
        BY <2>2, <4>1
    <3> QED
      BY <3>1, <3>2
  <2>4. resp'.at = down' + 1
    BY <1>a, <2>1, <2>2
  <2> QED
    BY <2>1, <2>3, <2>4 DEF InOrder
<1>c. ~Write => Placed'
  <2>1. CASE part' = part
    BY <2>1 DEF InOrder
  <2>2. CASE part' = <<>>
    BY <2>2
  <2>3. CASE Persist
    BY <2>1, <2>3 DEF Persist
  <2> QED
    BY <1>a, <2>1, <2>2, <2>3, PartStep
<1>1. CASE Create
  <2>1. pc = "create" /\ pc' = "loop" /\ resp' = resp /\ down' = down
    BY <1>1 DEF Create, Goto, local
  <2>2. ~Write /\ resp.at = down + 1
    BY <1>a, <2>1 DEF Write, Same, ReplyFits
  <2> QED
    BY <1>c, <2>1, <2>2 DEF InOrder
<1>2. CASE Loop
  <2>1. pc = "loop" /\ pc' \in {"off", "read"} /\ resp' = resp /\ down' = down
    BY <1>2 DEF Loop, Goto, local
  <2>2. ~Write /\ resp.at = down + 1
    BY <2>1 DEF Write, InOrder
  <2> QED
    BY <1>c, <2>1, <2>2 DEF InOrder
<1>3. CASE ReadChunk
  <2>1. /\ pc = "read" /\ down' = down
        /\ resp' = [resp EXCEPT !.at = @ + 1] /\ buffer' = Chunk(resp.version, resp.at)
    BY <1>3 DEF ReadChunk
  <2>2. pc' = "throttle"
    BY <1>3 DEF ReadChunk, Goto
  <2>3. ~Write /\ resp.at = down + 1
    BY <2>1 DEF Write, InOrder
  <2>4. resp'.at = resp.at + 1 /\ buffer'.at = resp.at
    BY <1>a, <2>1 DEF TypeOK, Chunk
  <2>5. resp'.at = down' + 2 /\ buffer'.at = down' + 1
    BY <1>a, <2>1, <2>3, <2>4
  <2> QED
    BY <1>c, <2>2, <2>3, <2>5 DEF InOrder
<1>4. CASE Throttle
  <2>1. pc = "throttle" /\ pc' = "write" /\ UNCHANGED <<resp, buffer, down>>
    BY <1>4 DEF Throttle, Goto, local
  <2> QED
    BY <1>c, <2>1 DEF Write, InOrder
<1>5. CASE Resume
  <2>1. ~Write /\ pc' \in {"loop", "persist", "fail"}
    BY <1>5, <1>a, ResumeIs DEF Resume, Write
  <2>2. CASE pc' = "loop"
    <3>1. resp'.at = down' + 1
      BY <1>5, <1>a, <2>2, ResumeIs
    <3> QED
      BY <1>c, <2>1, <2>2, <3>1 DEF InOrder
  <2>3. CASE pc' \in {"persist", "fail"}
    BY <1>c, <2>1, <2>3 DEF InOrder
  <2> QED
    BY <2>1, <2>2, <2>3
<1>6. CASE Publish \/ Pause \/ Retake \/ Stop \/ UNCHANGED vars
  BY <1>6, OutsideStep DEF InOrder
<1>7. CASE ~Write /\ pc' \notin Receiving
  BY <1>c, <1>7 DEF InOrder, Receiving
<1>8. CASE Request \/ RequestAll \/ Reply \/ Persist \/ ReadEnd \/ ReadLost \/ ReadError
  <2>1. pc' \notin Receiving
    BY <1>8, <1>a, ReplyIs DEF Request, RequestAll, Persist, ReadEnd, ReadLost, ReadError, Eof, Goto, Receiving
  <2>2. ~Write
    BY <2>1 DEF Write, Goto, Receiving
  <2> QED
    BY <1>7, <2>1, <2>2
<1>9. CASE ~Write /\ pc' \in {"off", "fail", "finish", "oversized", "request"}
  BY <1>7, <1>9 DEF Receiving
<1> QED
  BY <1>b, <1>1, <1>2, <1>3, <1>4, <1>5, <1>6, <1>8, <1>9, WhereTo

\* What the partial holds is the beginning of the version its row names.
LEMMA PrefixOfRow ==
    ASSUME Honest, InOrder, part # <<>>
    PROVE  /\ row.tag \in Versions /\ row = Facts(row.tag)
           /\ IsPrefixOf(part, row.tag) /\ Len(part) # 0
<1> DEFINE v == row.tag
<1>1. /\ RowNamesVersion /\ part \in Seq(Chunks)
      /\ \A i \in DOMAIN part : part[i].at = i
  BY DEF Honest, Same, TypeOK, InOrder
<1>2. v \in Versions /\ row = Facts(v) /\ \A i \in DOMAIN part : part[i].version = v
  BY <1>1 DEF RowNamesVersion
<1>3. ASSUME NEW i \in DOMAIN part PROVE part[i] = Chunk(v, i) /\ i <= Sizes[v]
  <2>1. part[i] \in Chunks
    BY <1>1
  <2>2. PICK u \in Versions : part[i] \in {Chunk(u, k) : k \in 1..Sizes[u]}
    BY <2>1 DEF Chunks
  <2>3. PICK k \in 1..Sizes[u] : part[i] = Chunk(u, k)
    BY <2>2
  <2>4. u = v /\ k = i
    BY <1>1, <1>2, <2>3 DEF Chunk
  <2> QED
    BY <2>3, <2>4, VersionFacts
<1>4. Len(part) \in DOMAIN part
  BY <1>1
<1>5. IsPrefixOf(part, v)
  BY <1>3, <1>4 DEF IsPrefixOf
<1> QED
  BY <1>1, <1>2, <1>4, <1>5

\* With validators and without a bandwidth limit the partial is at all times the beginning
\* of one version of the file, whatever the server publishes and however often the
\* transfer is interrupted, resumed and restarted.
THEOREM OnePrefix ==
    ASSUME Validators = TRUE, Throttled = FALSE PROVE Spec => []NoSplice
<1>1. Init => InOrder
  BY DEF Init, InOrder
<1>2. Honest /\ InOrder /\ [Next]_vars => InOrder'
  BY OrderStep
<1>3. Honest /\ InOrder => NoSplice
  <2> SUFFICES ASSUME Honest, InOrder PROVE NoSplice
    OBVIOUS
  <2>1. part \in Seq(Chunks) /\ version \in Versions
    BY DEF Honest, TypeOK
  <2>2. CASE part = <<>>
    <3>1. Len(part) = 0 /\ DOMAIN part = {} /\ Sizes[version] \in Nat
      BY <2>1, <2>2, VersionFacts
    <3>2. IsPrefixOf(part, version)
      BY <3>1 DEF IsPrefixOf
    <3> QED
      BY <2>1, <3>2 DEF NoSplice
  <2>3. CASE part # <<>>
    BY <2>3, PrefixOfRow DEF NoSplice
  <2> QED
    BY <2>2, <2>3
<1> QED
  BY <1>1, <1>2, <1>3, BytesInvariant, PTL DEF Spec

(***************************************************************************)
(* Completion.  What is renamed to the destination is the whole of the     *)
(* version its row names, or as long as a newer, smaller one.              *)
(***************************************************************************)
\* Versions only grow: what was stored and what was answered is not of a version to come.
InTime == row.tag <= version /\ resp.version <= version

\* A range that starts past the end is refused for a version that is no older than the row
\* and, if it is another one, by a server that may ignore If-Range.
RefusalKnows ==
    pc = "reply" /\ resp.code = 416 =>
        /\ down # 0 /\ row.tag <= resp.version
        /\ row.tag # resp.version => FALSE \in IfRange[resp.version]

\* The length the worker is about to check is that of the row, or the refusal's.
LengthIsOf ==
    pc = "finish" =>
        \/ known = row
        \/ /\ row.tag < known.tag /\ known.tag \in Versions /\ known = Facts(known.tag)
           /\ FALSE \in IfRange[known.tag]

WholeOrShrunk ==
    \E v \in Versions : \/ dest = Whole(v)
                        \/ \E w \in Shrunk(v) : dest = SubSeq(Whole(v), 1, Sizes[w])

DestFits == dest # <<>> => WholeOrShrunk

CompletionInv ==
    /\ InTime /\ RefusalKnows /\ LengthIsOf /\ DestFits
    /\ status = "completed" => dest # <<>>

\* A range of a version that is not the one the row names is refused only where If-Range
\* may be ignored.
LEMMA RefusalIs ==
    ASSUME TypeOK, Request
    PROVE  /\ resp'.version = version
           /\ resp'.code = 416 =>
                 /\ down # 0
                 /\ state.tag # None /\ state.tag # Tag(version) => FALSE \in IfRange[version]
<1> DEFINE full == [code |-> 200, version |-> version, at |-> 1]
           range == IF down >= Sizes[version] THEN [full EXCEPT !.code = 416]
                    ELSE [code |-> 206, version |-> version, at |-> down + 1]
           Differs == state.tag # None /\ state.tag # Tag(version)
<1>1. PICK obeys \in IfRange[version] :
          resp' = IF ~(down > 0) \/ ~Ranges \/ (obeys /\ Differs) THEN full ELSE range
  BY DEF Request, Answers
<1>2. version \in Versions /\ obeys \in BOOLEAN
  BY <1>1, FlagsAssumption DEF TypeOK, Versions
<1>3. CASE ~(down > 0) \/ ~Ranges \/ (obeys /\ Differs)
  <2>1. resp' = full
    BY <1>1, <1>3, Zenon
  <2> QED
    BY <2>1
<1>4. CASE ~(~(down > 0) \/ ~Ranges \/ (obeys /\ Differs))
  <2>1. resp' = range
    BY <1>1, <1>4, Zenon
  <2>2. resp'.version = version /\ down # 0
    BY <1>4, <2>1 DEF TypeOK
  <2>3. Differs => obeys = FALSE
    BY <1>2, <1>4
  <2> QED
    BY <1>1, <2>2, <2>3
<1> QED
  BY <1>3, <1>4

\* A response is of the version served when it came, and no other step brings one.
LEMMA ResponseStep ==
    ASSUME TypeOK, HasReply, [Next]_vars
    PROVE  /\ resp'.version = resp.version \/ (resp'.version = version /\ version' = version)
           /\ version' = version \/ version' = version + 1
<1>1. CASE Request \/ RequestAll \/ Resume
  <2>1. ASSUME NEW ranged, NEW from, NEW tag, NEW r \in Answers(ranged, from, tag)
        PROVE  r.version = version
    <3>1. \/ r = [code |-> 200, version |-> version, at |-> 1]
          \/ r = [code |-> 416, version |-> version, at |-> 1]
          \/ r = [code |-> 206, version |-> version, at |-> from + 1]
      BY <2>1 DEF Answers
    <3> QED
      BY <3>1
  <2>2. CASE Request
    BY <2>2, RefusalIs DEF Request, Elsewhere
  <2>3. CASE RequestAll
    BY <2>1, <2>3 DEF RequestAll, Elsewhere
  <2>4. CASE Resume
    BY <2>1, <2>4 DEF Resume, Elsewhere
  <2> QED
    BY <1>1, <2>2, <2>3, <2>4
<1>2. CASE Reply
  BY <1>2, ReplyIs
<1>3. CASE ReadChunk
  BY <1>3 DEF ReadChunk, Elsewhere, TypeOK
<1>4. CASE Publish
  BY <1>4 DEF Publish, local
<1>5. CASE UNCHANGED vars
  BY <1>5 DEF vars, local
<1>6. CASE Start \/ Oversized \/ Persist \/ Create \/ Loop \/ ReadEnd \/ Throttle \/ Write \/ Finish \/ Fail
  BY <1>6 DEF Start, Oversized, Persist, Create, Loop, ReadEnd, Eof, Throttle, Write, Finish, Fail,
              Elsewhere, local
<1>7. CASE ReadLost \/ ReadError \/ RequestFails \/ Pause \/ Retake \/ Stop \/ Crash
  BY <1>7 DEF ReadLost, ReadError, Eof, RequestFails, Pause, Retake, Stop, Crash, Command, local
<1> QED
  BY <1>1, <1>2, <1>3, <1>4, <1>5, <1>6, <1>7 DEF Next, Worker

\* What is stored and answered stays of versions that were published.
LEMMA InTimeStep ==
    ASSUME Validators = TRUE, TypeOK, HasReply, InTime, [Next]_vars PROVE InTime'
<1>1. version \in Nat /\ resp.version \in Versions /\ resp.version \in Nat /\ row.tag \in Nat
  <2>1. version \in Versions /\ resp.version \in Versions /\ row \in RowFacts
    BY DEF TypeOK
  <2>2. CASE row = NoFacts
    BY <2>1, <2>2, VersionFacts DEF NoFacts, None
  <2>3. CASE row # NoFacts
    <3>1. PICK v \in Versions : row = Facts(v)
      BY <2>1, <2>3 DEF RowFacts
    <3>2. row.tag = v
      BY <3>1, FactsName
    <3> QED
      BY <2>1, <3>2, VersionFacts
  <2> QED
    BY <2>2, <2>3
<1>2. version' >= version /\ resp'.version <= version'
  BY <1>1, ResponseStep DEF InTime
<1>3. row'.tag <= version'
  <2>1. CASE row' = row
    BY <1>1, <1>2, <2>1, ResponseStep DEF InTime
  <2>2. CASE Persist
    <3>1. row' = Facts(resp.version) /\ version' = version
      BY <2>2 DEF Persist, Elsewhere
    <3> QED
      BY <1>1, <3>1, FactsName DEF InTime
  <2>3. CASE Write
    BY <2>1, <2>3 DEF Write
  <2> QED
    BY <2>1, <2>2, <2>3, PartStep
<1> QED
  BY <1>2, <1>3 DEF InTime

\* The worker looks at a refusal it asked for with the validator of its row.
LEMMA RefusalStep ==
    ASSUME Validators = TRUE, Honest, InTime, [Next]_vars, RefusalKnows PROVE RefusalKnows'
<1>a. TypeOK /\ HasReply /\ Same
  BY DEF Honest
<1>1. CASE Request
  <2>1. /\ pc = "request"
        /\ UNCHANGED <<row, down, part, version>>
    BY <1>1 DEF Request, Elsewhere
  <2>2. /\ state = row /\ down = Len(part) /\ RowNamesVersion /\ part \in Seq(Chunks)
        /\ down \in Nat /\ version \in Versions
    BY <1>a, <2>1 DEF Same, RowIsRead, CountIsLength, Counting, ProgramPoints, TypeOK
  <2>3. /\ resp'.version = version
        /\ resp'.code = 416 =>
              /\ down # 0
              /\ row.tag # None /\ row.tag # Tag(version) => FALSE \in IfRange[version]
    BY <1>1, <1>a, <2>2, RefusalIs
  <2>4. ASSUME down # 0 PROVE row.tag # None /\ Tag(version) = version
    <3>1. part # <<>>
      BY <2>2, <2>4
    <3> QED
      BY <2>2, <3>1, VersionFacts, FactsName DEF RowNamesVersion
  <2> QED
    BY <2>1, <2>3, <2>4 DEF RefusalKnows, InTime
<1>2. CASE pc' # "reply"
  BY <1>2 DEF RefusalKnows
<1>3. CASE UNCHANGED <<row, pc, resp, down>>
  BY <1>3 DEF RefusalKnows
<1>4. CASE Reply \/ Resume
  BY <1>2, <1>4, <1>a, ReplyIs, ResumeIs
<1>5. CASE Publish \/ Pause \/ Retake \/ Stop \/ UNCHANGED vars
  BY <1>3, <1>5, OutsideStep
<1>6. CASE \/ RequestAll \/ Persist \/ Create \/ Loop \/ ReadChunk \/ Throttle \/ Write
           \/ ReadEnd \/ ReadLost \/ ReadError
  BY <1>2, <1>6 DEF RequestAll, Persist, Create, Loop, ReadChunk, Throttle, Write, ReadEnd, ReadLost,
                    ReadError, Eof, Goto
<1>7. CASE pc' \in {"off", "fail", "finish", "oversized", "request"}
  BY <1>2, <1>7
<1> QED
  BY <1>1, <1>4, <1>5, <1>6, <1>7, WhereTo

\* The worker comes to the check of the length from the row, from the end of a body or
\* from a refusal.
LEMMA LengthStep ==
    ASSUME Validators = TRUE, Honest, InTime, RefusalKnows, LengthIsOf, [Next]_vars PROVE LengthIsOf'
<1>a. TypeOK /\ HasReply /\ Same
  BY DEF Honest
<1>1. CASE pc' # "finish"
  BY <1>1 DEF LengthIsOf
<1>2. CASE UNCHANGED <<row, pc, known>>
  BY <1>2 DEF LengthIsOf
<1>3. CASE known' = row'
  BY <1>3 DEF LengthIsOf
<1>4. CASE Reply
  <2>1. CASE resp.code = 416
    <3>1. pc = "reply" /\ known' = Facts(resp.version) /\ row' = row
      BY <1>4, <1>a, <2>1, ReplyIs DEF Reply
    <3>2. /\ down # 0 /\ row.tag <= resp.version /\ part \in Seq(Chunks) /\ RowNamesVersion
          /\ row.tag # resp.version => FALSE \in IfRange[resp.version]
          /\ down = Len(part) /\ resp.version \in Versions
      BY <1>a, <2>1, <3>1 DEF RefusalKnows, TypeOK, Same, CountIsLength, Counting, ProgramPoints
    <3>3. part # <<>>
      BY <3>2
    <3>4. row.tag \in Versions /\ row = Facts(row.tag)
      BY <3>2, <3>3 DEF RowNamesVersion
    <3>5. known'.tag = resp.version
      BY <3>1, <3>2, FactsName
    <3>6. CASE row.tag = resp.version
      BY <1>3, <3>1, <3>4, <3>6
    <3>7. CASE row.tag # resp.version
      <4>1. row.tag < resp.version
        <5>1. row.tag \in Nat /\ resp.version \in Nat
          BY <3>2, <3>4, VersionFacts
        <5> QED
          BY <3>2, <3>7, <5>1
      <4> QED
        BY <3>1, <3>2, <3>5, <3>7, <4>1 DEF LengthIsOf
    <3> QED
      BY <3>6, <3>7
  <2>2. CASE resp.code # 416
    BY <1>1, <1>4, <1>a, <2>2, ReplyIs
  <2> QED
    BY <2>1, <2>2
<1>5. CASE Resume
  BY <1>1, <1>5, <1>a, ResumeIs
<1>6. CASE Publish \/ Pause \/ Retake \/ Stop \/ UNCHANGED vars
  BY <1>2, <1>6, OutsideStep
<1>7. CASE ReadEnd \/ ReadLost \/ ReadError
  <2>1. pc = "read" /\ UNCHANGED <<row, known>>
    BY <1>7 DEF ReadEnd, ReadLost, ReadError, Eof, disk
  <2> QED
    BY <1>3, <1>a, <2>1 DEF Same, BodyFits, Receiving
<1>8. CASE Start
  BY <1>3, <1>8 DEF Start
<1>9. CASE \/ Oversized \/ Request \/ RequestAll \/ Persist \/ Create \/ Loop \/ ReadChunk
           \/ Throttle \/ Write \/ Finish \/ Fail \/ RequestFails \/ Crash
  BY <1>1, <1>9 DEF Oversized, Request, RequestAll, Persist, Create, Loop, ReadChunk, Throttle, Write,
                    Finish, Fail, RequestFails, Crash, Goto
<1> QED
  BY <1>4, <1>5, <1>6, <1>7, <1>8, <1>9 DEF Next, Worker

\* A partial as long as what is known of the file is the whole of its version, or is as
\* long as a newer, smaller one.
LEMMA WholeFile ==
    ASSUME Honest, InOrder, LengthIsOf, Validators = TRUE, pc = "finish", Complete
    PROVE  /\ part # <<>>
           /\ \E v \in Versions : \/ part = Whole(v)
                                  \/ \E w \in Shrunk(v) : part = SubSeq(Whole(v), 1, Sizes[w])
<1>1. /\ down = Len(part) /\ down # 0 /\ part \in Seq(Chunks)
      /\ known.total # None => down = known.total
  BY DEF Honest, Same, TypeOK, CountIsLength, Counting, ProgramPoints, Complete
<1>2. part # <<>>
  BY <1>1
<1> DEFINE v == row.tag
<1>3. v \in Versions /\ row = Facts(v) /\ IsPrefixOf(part, v)
  BY <1>2, PrefixOfRow
<1>4. /\ Sizes[v] \in Nat \ {0} /\ Len(part) <= Sizes[v]
      /\ \A i \in 1..Len(part) : part[i] = Chunk(v, i)
  <2>1. DOMAIN part = 1..Len(part)
    BY <1>1
  <2>2. Sizes[v] \in Nat \ {0}
    BY <1>3, VersionFacts
  <2> QED
    BY <1>3, <2>1, <2>2 DEF IsPrefixOf
<1>5. ASSUME Len(part) = Sizes[v] PROVE part = Whole(v)
  <2>1. part = [i \in 1..Len(part) |-> part[i]]
    BY <1>1
  <2> QED
    BY <1>4, <1>5, <2>1 DEF Whole
<1>6. CASE known = row
  <2>1. known.total = Sizes[v] /\ known.total # None
    BY <1>3, <1>4, <1>6 DEF Facts, None
  <2> QED
    BY <1>1, <1>2, <1>3, <1>5, <2>1
<1>7. CASE /\ v < known.tag /\ known.tag \in Versions /\ known = Facts(known.tag)
           /\ FALSE \in IfRange[known.tag]
  <2> DEFINE w == known.tag
  <2>1. known.total = Sizes[w] /\ Sizes[w] \in Nat \ {0}
    <3>1. known = [total |-> Sizes[w], tag |-> Tag(w)] /\ w \in Versions
      BY <1>7 DEF Facts
    <3> HIDE DEF w
    <3> QED
      BY <3>1, VersionFacts
  <2>2. Len(part) = Sizes[w]
    BY <1>1, <2>1 DEF None
  <2>3. CASE Len(part) = Sizes[v]
    BY <1>2, <1>3, <1>5, <2>3
  <2>4. CASE Len(part) # Sizes[v]
    <3>1. Sizes[w] < Sizes[v]
      BY <1>4, <2>1, <2>2, <2>4
    <3>2. w \in Shrunk(v)
      BY <1>3, <1>7, <3>1, VersionFacts DEF Shrunk
    <3>3. part = SubSeq(Whole(v), 1, Sizes[w])
      <4>1. \A i \in 1..Sizes[w] : Whole(v)[i] = part[i] /\ part[i] \in Chunks
        BY <1>1, <1>4, <2>1, <2>2 DEF Whole
      <4> DEFINE cut == SubSeq(Whole(v), 1, Sizes[w])
      <4>2. /\ cut \in Seq(Chunks) /\ Len(cut) = Sizes[w]
            /\ \A i \in 1..Sizes[w] : cut[i] = Whole(v)[i]
        <5>1. \A i \in 1..Sizes[w] : Whole(v)[i] \in Chunks
          BY <4>1
        <5>2. /\ cut \in Seq(Chunks)
              /\ Len(cut) = IF 1 <= Sizes[w] THEN Sizes[w] - 1 + 1 ELSE 0
              /\ \A i \in 1..(Sizes[w] - 1 + 1) : cut[i] = Whole(v)[1 + i - 1]
          BY <2>1, <5>1, SubSeqProperties
        <5> HIDE DEF cut, w
        <5> QED
          BY <2>1, <5>2
      <4> HIDE DEF cut
      <4>3. part = cut
        BY <1>1, <2>2, <4>1, <4>2, SeqEqual
      <4> QED
        BY <4>3 DEF cut
    <3> QED
      BY <1>2, <1>3, <3>2, <3>3
  <2> QED
    BY <2>3, <2>4
<1> QED
  BY <1>3, <1>6, <1>7 DEF LengthIsOf

\* The destination is written once, with what the length was checked of; and a download is
\* completed only with a destination.
LEMMA DestStep ==
    ASSUME Validators = TRUE, Honest, InOrder, LengthIsOf, DestFits, status = "completed" => dest # <<>>,
           [Next]_vars
    PROVE  DestFits' /\ (status' = "completed" => dest' # <<>>)
<1>a. TypeOK /\ HasReply
  BY DEF Honest
<1>1. CASE dest' = dest /\ (status' = status \/ status' # "completed")
  BY <1>1 DEF DestFits, WholeOrShrunk
<1>2. CASE Finish
  <2>1. CASE Complete /\ dest = <<>>
    <3>1. dest' = part /\ pc = "finish"
      BY <1>2, <2>1 DEF Finish
    <3> QED
      BY <2>1, <3>1, WholeFile DEF DestFits, WholeOrShrunk
  <2>2. CASE ~(Complete /\ dest = <<>>)
    BY <1>1, <1>2, <2>2 DEF Finish
  <2> QED
    BY <2>1, <2>2
<1>3. CASE Fail
  <2>1. /\ dest' = dest
        /\ \E recovered \in {FALSE, Recoverable} :
              status' = IF Interrupted THEN status ELSE IF recovered THEN "completed" ELSE "failed"
    BY <1>3 DEF Fail, Elsewhere
  <2>2. status' = "completed" => status = "completed" \/ Recoverable
    <3>1. PICK recovered \in {FALSE, Recoverable} :
              status' = IF Interrupted THEN status ELSE IF recovered THEN "completed" ELSE "failed"
      BY <2>1
    <3>2. CASE Interrupted
      BY <3>1, <3>2
    <3>3. CASE ~Interrupted /\ recovered = FALSE
      BY <3>1, <3>3
    <3>4. CASE ~Interrupted /\ recovered = Recoverable
      BY <3>1, <3>4
    <3> QED
      BY <3>1, <3>2, <3>3, <3>4
  <2> QED
    BY <2>1, <2>2 DEF DestFits, WholeOrShrunk, Recoverable
<1>4. CASE Reply \/ Resume
  BY <1>1, <1>4, <1>a, ReplyIs, ResumeIs
<1>5. CASE \/ Start \/ Oversized \/ Request \/ RequestAll \/ Persist \/ Create \/ Loop \/ ReadChunk
           \/ ReadEnd \/ Throttle \/ Write
  BY <1>1, <1>5 DEF Start, Oversized, Request, RequestAll, Persist, Create, Loop, ReadChunk, ReadEnd, Eof,
                    Throttle, Write, Elsewhere
<1>6. CASE \/ ReadLost \/ ReadError \/ RequestFails \/ Publish \/ Pause \/ Retake \/ Stop \/ Crash
           \/ UNCHANGED vars
  BY <1>1, <1>6 DEF ReadLost, ReadError, Eof, RequestFails, Publish, Pause, Retake, Stop, Crash, Command,
                    disk, vars
<1> QED
  BY <1>2, <1>3, <1>4, <1>5, <1>6 DEF Next, Worker

\* With validators and without a bandwidth limit a completed download is the whole of one
\* version, or the beginning of one as long as a newer, smaller version of a server that
\* may ignore If-Range: nothing else is ever renamed to the destination and committed,
\* whatever is published, interrupted, resumed and restarted.
THEOREM CompletedWholeOrShrunk ==
    ASSUME Validators = TRUE, Throttled = FALSE
    PROVE  Spec => []CompletedIsWholeOrShrunk
<1>1. Init => InOrder /\ CompletionInv
  BY DEF Init, InOrder, CompletionInv, InTime, RefusalKnows, LengthIsOf, DestFits, NoFacts, NoResp, None
<1>2. Honest /\ InOrder /\ CompletionInv /\ [Next]_vars => InOrder' /\ CompletionInv'
  <2> SUFFICES ASSUME Honest, InOrder, CompletionInv, [Next]_vars PROVE InOrder' /\ CompletionInv'
    OBVIOUS
  <2>1. /\ TypeOK /\ HasReply /\ InTime /\ RefusalKnows /\ LengthIsOf /\ DestFits
        /\ status = "completed" => dest # <<>>
    BY DEF Honest, CompletionInv
  <2>2. InOrder' /\ InTime' /\ RefusalKnows'
    BY <2>1, OrderStep, InTimeStep, RefusalStep
  <2>3. LengthIsOf'
    BY <2>1, LengthStep
  <2>4. DestFits' /\ (status' = "completed" => dest' # <<>>)
    BY <2>1, DestStep
  <2> QED
    BY <2>2, <2>3, <2>4 DEF CompletionInv
<1>3. CompletionInv => CompletedIsWholeOrShrunk
  BY DEF CompletionInv, DestFits, WholeOrShrunk, CompletedIsWholeOrShrunk
<1> QED
  BY <1>1, <1>2, <1>3, BytesInvariant, PTL DEF Spec
=============================================================================
