---------------------------- MODULE IngestProofs ----------------------------
(***************************************************************************)
(* Proofs about Ingest, for every set of seconds, places and request       *)
(* slots.                                                                  *)
(***************************************************************************)
EXTENDS Ingest, TLAPS

BoardOK == /\ board \in Board
           /\ (board.pc = "waiting") <=> (board.conn \in Requests)
RestOK == clock \in Times \cup {0} /\ trusted \in BOOLEAN

\* The POST the board waits for carries the payload the board holds.
Match == board.pc = "waiting" => post[board.conn].fix = board.fix

\* What is to be inserted passed validation, and what was answered 201 has a row.
InOrder(p, table) ==
    /\ p.pc = "insert" => p.fix \in Fixes
    /\ p.pc = "answered" /\ p.status = "201" =>
          p.fix \in Fixes /\ \E row \in table : row.time = p.fix.time
PostsOK == /\ post \in [Requests -> Post]
           /\ \A r \in Requests : InOrder(post[r], locations)

\* One row per second, and one of them the latest.
OneRowPerTime == \A row, other \in locations : row.time = other.time => row = other
HasLatest == locations # {} => \E row \in locations : \A other \in locations : row.time >= other.time
TableOK == locations \subseteq Fixes /\ OneRowPerTime /\ HasLatest
AckedOK == acked \subseteq Times /\ AckedFixesStored

IngestInv == BoardOK /\ RestOK /\ Match /\ PostsOK /\ TableOK /\ AckedOK

Insert(f) == locations' = IF \E row \in locations : row.time = f.time THEN locations
                          ELSE locations \cup {f}
\* No step does anything else to the table.
TableStep == locations' = locations \/ \E f \in Fixes : Insert(f)

-----------------------------------------------------------------------------
(* The table.                                                              *)

LEMMA FixTimes == ASSUME NEW f \in Fixes
                  PROVE  f.time \in Times /\ f.time \in Nat /\ f.time # 0 /\ f \in Payloads /\ f # NoFix
<1>1. f.time \in Times /\ f \in Payloads
  BY DEF Fixes, Payloads
<1>2. f.time \in Nat /\ f.time # 0
  BY <1>1, IngestAssumption
<1> QED BY <1>1, <1>2 DEF NoFix

LEMMA InsertKeepsTable ==
    ASSUME TableOK, NEW f \in Fixes, Insert(f)
    PROVE  /\ TableOK' /\ locations \subseteq locations'
           /\ \E row \in locations' : row.time = f.time
<1>1. CASE \E row \in locations : row.time = f.time
  BY <1>1 DEF Insert, TableOK, OneRowPerTime, HasLatest
<1>2. CASE \A row \in locations : row.time # f.time
  <2>1. locations' = locations \cup {f}
    BY <1>2 DEF Insert
  <2>2. locations' \subseteq Fixes /\ OneRowPerTime'
    BY <1>2, <2>1 DEF TableOK, OneRowPerTime
  <2>3. HasLatest'
    <3>1. CASE locations = {}
      BY <2>1, <3>1, FixTimes DEF HasLatest
    <3>2. CASE locations # {}
      <4>1. PICK top \in locations : \A other \in locations : top.time >= other.time
        BY <3>2 DEF TableOK, HasLatest
      <4>2. top.time \in Nat /\ f.time \in Nat /\ \A other \in locations : other.time \in Nat
        BY FixTimes DEF TableOK
      <4>3. CASE top.time >= f.time
        BY <2>1, <4>1, <4>3 DEF HasLatest
      <4>4. CASE f.time > top.time
        <5>1. \A other \in locations' : f.time >= other.time
          BY <2>1, <4>1, <4>2, <4>4
        <5> QED BY <2>1, <5>1 DEF HasLatest
      <4> QED BY <4>2, <4>3, <4>4
    <3> QED BY <3>1, <3>2
  <2> QED BY <2>1, <2>2, <2>3 DEF TableOK
<1> QED BY <1>1, <1>2

LEMMA TableStepKeeps ==
    ASSUME TableOK, TableStep
    PROVE  TableOK' /\ locations \subseteq locations'
<1>1. CASE locations' = locations
  BY <1>1 DEF TableOK, OneRowPerTime, HasLatest
<1>2. CASE \E f \in Fixes : Insert(f)
  BY <1>2, InsertKeepsTable
<1> QED BY <1>1, <1>2 DEF TableStep

\* Rows do not go away, so neither do the facts about them.
LEMMA StillInOrder ==
    ASSUME NEW p, NEW t, NEW u, t \subseteq u, InOrder(p, t)
    PROVE  InOrder(p, u)
  BY DEF InOrder

LEMMA StillAcked ==
    ASSUME AckedOK, acked' = acked, locations \subseteq locations'
    PROVE  AckedOK'
  BY DEF AckedOK, AckedFixesStored

LEMMA LatestIsLatest ==
    ASSUME NEW t, t # {}, \E row \in t : \A other \in t : row.time >= other.time
    PROVE  LET top == CHOOSE row \in t : \A other \in t : row.time >= other.time
           IN  top \in t /\ \A other \in t : top.time >= other.time
  OBVIOUS

-----------------------------------------------------------------------------
(* The firmware's steps.                                                   *)

LEMMA PayloadTime == ASSUME NEW f \in Payloads PROVE f.time \in Times \cup {0}
  BY FixTimes DEF Payloads, NoFix

\* A failed attempt waits to retry or goes back to the loop, and hangs up either way.
LEMMA AttemptFailedOK ==
    ASSUME BoardOK, board' = AttemptFailed \/ board' = Failed
    PROVE  BoardOK' /\ board'.pc \in {"backoff", "loop"}
<1>1. board.fix.time \in Times \cup {0}
  BY PayloadTime DEF BoardOK, Board
<1>2. CASE board' = Failed
  <2>1. board' \in Board /\ board'.pc = "loop" /\ board'.conn = NoRequest
    BY <1>1, <1>2 DEF BoardOK, Board, BoardSteps, Failed
  <2> QED BY <2>1, IngestAssumption DEF BoardOK
<1>3. CASE board' = [board EXCEPT !.pc = "backoff", !.conn = NoRequest]
  <2>1. board' \in Board /\ board'.pc = "backoff" /\ board'.conn = NoRequest
    BY <1>3 DEF BoardOK, Board, BoardSteps
  <2> QED BY <2>1, IngestAssumption DEF BoardOK
<1> QED BY <1>2, <1>3 DEF AttemptFailed

\* So does every other step of the board that keeps to the types.
LEMMA MovedOK ==
    ASSUME BoardOK, board.pc # "waiting", NEW pc \in BoardSteps \ {"waiting"}, board' \in Board,
           board'.pc = pc, board'.conn = board.conn
    PROVE  BoardOK' /\ board'.pc # "waiting"
  BY DEF BoardOK

LEMMA FreeOK == Free \in Post /\ \A t : InOrder(Free, t)
  BY DEF Free, Post, PostSteps, Statuses, Payloads, InOrder

\* Hanging up leaves the POST to the backend, or clears its slot.
LEMMA HangUpOK ==
    ASSUME PostsOK, NEW r \in Requests,
           post' = post \/ post' = [post EXCEPT ![r] = Free], locations' = locations
    PROVE  PostsOK'
<1>1. post' \in [Requests -> Post]
  BY FreeOK DEF PostsOK
<1>2. ASSUME NEW q \in Requests PROVE InOrder(post'[q], locations')
  <2>1. post'[q] = post[q] \/ post'[q] = Free
    BY DEF PostsOK
  <2> QED BY <2>1, FreeOK DEF PostsOK
<1> QED BY <1>1, <1>2 DEF PostsOK

\* Steps of the board that touch no POST, and leave it not waiting.
LEMMA BoardStepKeeps ==
    ASSUME IngestInv, BoardOK', board'.pc # "waiting", RestOK', PostsOK',
           locations' = locations, acked' = acked
    PROVE  IngestInv'
<1>1. TableOK'
  BY TableStepKeeps DEF TableStep, IngestInv
<1>2. AckedOK'
  BY StillAcked DEF IngestInv
<1> QED BY <1>1, <1>2 DEF IngestInv, Match

LEMMA LoopKeeps ==
    ASSUME IngestInv, SetUp \/ Poll \/ BeginUpload \/ CannotConnect \/ Retry
    PROVE  IngestInv'
<1> USE DEF BoardSteps
<1>1. post' = post /\ locations' = locations /\ acked' = acked /\ trusted' = trusted
  BY DEF SetUp, Poll, BeginUpload, CannotConnect, Retry
<1>2. PostsOK'
  BY <1>1 DEF IngestInv, PostsOK
<1>0. board \in Board /\ BoardOK /\ clock \in Times \cup {0}
  BY DEF IngestInv, BoardOK, RestOK
<1>3. BoardOK' /\ board'.pc # "waiting" /\ clock' \in Times \cup {0}
  <2>1. CASE SetUp
    <3>1. board.pc = "setup" /\ clock' = clock
      BY <2>1 DEF SetUp
    <3>2. board' \in Board /\ board'.pc = "loop" /\ board'.conn = board.conn
      BY <1>0, <2>1 DEF SetUp, Board
    <3> QED BY <1>0, <3>1, <3>2, MovedOK
  <2>2. CASE Poll
    <3>1. CASE \E f \in Fixes : /\ clock' = f.time
                                /\ board' = [board EXCEPT !.fix = f, !.hasFix = TRUE, !.fresh = TRUE]
      <4>1. PICK f \in Fixes : /\ clock' = f.time
                               /\ board' = [board EXCEPT !.fix = f, !.hasFix = TRUE, !.fresh = TRUE]
        BY <3>1
      <4>2. f \in Payloads /\ f.time \in Times
        BY FixTimes
      <4>3. board' \in Board /\ board'.pc = board.pc /\ board'.conn = board.conn
        BY <1>0, <4>1, <4>2 DEF Board
      <4> QED BY <1>0, <2>2, <4>1, <4>2, <4>3, MovedOK DEF Poll
    <3>2. CASE board' = [board EXCEPT !.fix = NoFix, !.fresh = TRUE] /\ clock' = clock
      <4>1. NoFix \in Payloads
        BY DEF Payloads
      <4>2. board' \in Board /\ board'.pc = board.pc /\ board'.conn = board.conn
        BY <1>0, <3>2, <4>1 DEF Board
      <4> QED BY <1>0, <2>2, <3>2, <4>2, MovedOK DEF Poll
    <3> QED BY <2>2, <3>1, <3>2 DEF Poll
  <2>3. CASE BeginUpload
    <3>1. board.pc = "loop" /\ clock' = clock
      BY <2>3 DEF BeginUpload
    <3>2. CASE board' = Failed
      BY <1>0, <3>1, <3>2, AttemptFailedOK
    <3>3. CASE board' = [board EXCEPT !.pc = "post", !.fresh = FALSE, !.attempt = 1]
      <4>1. board' \in Board /\ board'.pc = "post" /\ board'.conn = board.conn
        BY <1>0, <3>3 DEF Board
      <4> QED BY <1>0, <3>1, <4>1, MovedOK
    <3> QED BY <2>3, <3>2, <3>3 DEF BeginUpload
  <2>4. CASE CannotConnect
    <3>1. board' = AttemptFailed /\ clock' = clock
      BY <2>4 DEF CannotConnect
    <3> QED BY <1>0, <3>1, AttemptFailedOK
  <2>5. CASE Retry
    <3>1. board.pc = "backoff" /\ clock' = clock
      BY <2>5 DEF Retry
    <3>2. board' \in Board /\ board'.pc = "post" /\ board'.conn = board.conn
      BY <1>0, <2>5 DEF Retry, Board
    <3> QED BY <1>0, <3>1, <3>2, MovedOK
  <2> QED BY <2>1, <2>2, <2>3, <2>4, <2>5
<1>4. RestOK'
  BY <1>1, <1>3 DEF IngestInv, RestOK
<1> QED BY <1>1, <1>2, <1>3, <1>4, BoardStepKeeps

LEMMA SendPostKeeps == ASSUME IngestInv, SendPost PROVE IngestInv'
<1> DEFINE new == [pc |-> "wire", fix |-> board.fix, status |-> "none"]
<1>1. PICK r \in Requests : /\ board.pc = "post"
                            /\ post' = [post EXCEPT ![r] = new]
                            /\ board' = [board EXCEPT !.pc = "waiting", !.conn = r]
                            /\ UNCHANGED <<clock, trusted, locations, acked>>
  BY DEF SendPost
<1>2. new \in Post /\ new.pc = "wire" /\ new.fix = board.fix
  BY DEF IngestInv, BoardOK, Board, Post, PostSteps, Statuses
<1>3. PostsOK'
  <2>1. post' \in [Requests -> Post] /\ \A q \in Requests : post'[q] = post[q] \/ post'[q] = new
    BY <1>1, <1>2 DEF IngestInv, PostsOK
  <2>2. \A t : InOrder(new, t)
    BY DEF InOrder
  <2> QED BY <1>1, <2>1, <2>2 DEF IngestInv, PostsOK
<1>4. BoardOK' /\ board'.conn = r /\ board'.fix = board.fix
  BY <1>1 DEF IngestInv, BoardOK, Board, BoardSteps
<1>5. Match'
  BY <1>1, <1>2, <1>4 DEF Match, IngestInv, PostsOK
<1>6. TableOK' /\ AckedOK' /\ RestOK'
  BY <1>1, TableStepKeeps, StillAcked DEF TableStep, IngestInv, RestOK
<1> QED BY <1>3, <1>4, <1>5, <1>6 DEF IngestInv

LEMMA TakeAnswerKeeps == ASSUME IngestInv, TakeAnswer PROVE IngestInv'
<1> DEFINE r == board.conn
<1>1. /\ board.pc = "waiting" /\ post[r].pc = "answered" /\ r \in Requests
      /\ post' = [post EXCEPT ![r] = Free]
      /\ clock' = clock /\ trusted' = trusted /\ locations' = locations
  BY DEF TakeAnswer, IngestInv, BoardOK
<1>2. PostsOK' /\ TableOK' /\ RestOK'
  BY <1>1, HangUpOK, TableStepKeeps DEF TableStep, IngestInv, RestOK
<1>3. CASE post[r].status = "201"
  <2>1. /\ board' = [board EXCEPT !.pc = "loop", !.conn = NoRequest, !.unsent = 0]
        /\ acked' = acked \cup {board.fix.time}
    BY <1>3 DEF TakeAnswer
  <2>2. BoardOK' /\ board'.pc = "loop"
    BY <2>1, IngestAssumption DEF IngestInv, BoardOK, Board, BoardSteps
  <2>3. post[r].fix = board.fix /\ InOrder(post[r], locations)
    BY <1>1 DEF IngestInv, Match, PostsOK
  <2>4. board.fix.time \in Times /\ \E row \in locations : row.time = board.fix.time
    BY <1>1, <1>3, <2>3, FixTimes DEF InOrder
  <2>5. AckedOK'
    BY <1>1, <2>1, <2>4 DEF IngestInv, AckedOK, AckedFixesStored
  <2> QED BY <1>2, <2>2, <2>5 DEF IngestInv, Match
<1>4. CASE post[r].status # "201"
  <2>1. board' = AttemptFailed /\ acked' = acked
    BY <1>4 DEF TakeAnswer
  <2>2. BoardOK' /\ board'.pc # "waiting"
    BY <2>1, AttemptFailedOK DEF IngestInv
  <2> QED BY <1>1, <1>2, <2>1, <2>2, BoardStepKeeps
<1> QED BY <1>3, <1>4

LEMMA HangUpKeeps == ASSUME IngestInv, TimeOut \/ Reset PROVE IngestInv'
<1> DEFINE r == board.conn
<1>1. clock' = clock /\ trusted' = trusted /\ locations' = locations /\ acked' = acked
  BY DEF TimeOut, Reset
<1>2. PostsOK'
  <2>1. \/ post' = post
        \/ board.pc = "waiting" /\ post' = [post EXCEPT ![r] = Free]
    BY DEF TimeOut, Reset
  <2>2. CASE post' = post
    BY <1>1, <2>2 DEF IngestInv, PostsOK
  <2>3. CASE board.pc = "waiting" /\ post' = [post EXCEPT ![r] = Free]
    BY <1>1, <2>3, HangUpOK DEF IngestInv, BoardOK
  <2> QED BY <2>1, <2>2, <2>3
<1>3. BoardOK' /\ board'.pc # "waiting"
  <2>1. CASE TimeOut
    BY <2>1, AttemptFailedOK DEF TimeOut, IngestInv
  <2>2. CASE Reset
    <3>1. Booting \in Board /\ Booting.pc = "setup" /\ Booting.conn = NoRequest
      BY DEF Booting, Board, BoardSteps, Payloads
    <3> QED BY <2>2, <3>1, IngestAssumption DEF Reset, BoardOK
  <2> QED BY <2>1, <2>2
<1> QED BY <1>1, <1>2, <1>3, BoardStepKeeps DEF IngestInv, RestOK

-----------------------------------------------------------------------------
(* The backend's steps.                                                    *)

\* What a step of one POST has to establish of it: the board's own keeps its payload.
LEMMA PostStepKeeps ==
    ASSUME IngestInv, NEW r \in Requests, NEW new \in Post,
           post' = [post EXCEPT ![r] = new], InOrder(new, locations'),
           board.conn = r => new.fix = post[r].fix,
           board' = board, RestOK', TableStep, acked' = acked
    PROVE  IngestInv'
<1>1. TableOK' /\ AckedOK' /\ locations \subseteq locations'
  BY TableStepKeeps, StillAcked DEF IngestInv
<1>2. post' \in [Requests -> Post]
  BY DEF IngestInv, PostsOK
<1>3. ASSUME NEW q \in Requests PROVE InOrder(post'[q], locations')
  <2>1. CASE q = r
    BY <2>1 DEF IngestInv, PostsOK
  <2>2. CASE q # r
    <3>1. post'[q] = post[q] /\ InOrder(post[q], locations)
      BY <2>2 DEF IngestInv, PostsOK
    <3> QED BY <1>1, <3>1, StillInOrder
  <2> QED BY <2>1, <2>2
<1>4. BoardOK'
  BY DEF IngestInv, BoardOK
<1>5. ASSUME board.pc = "waiting" PROVE post'[board.conn].fix = board.fix
  <2>1. board.conn \in Requests /\ post[board.conn].fix = board.fix
    BY <1>5 DEF IngestInv, BoardOK, Match
  <2> QED BY <2>1 DEF IngestInv, PostsOK
<1> QED BY <1>1, <1>2, <1>3, <1>4, <1>5 DEF IngestInv, PostsOK, Match

LEMMA AnswerKeeps ==
    ASSUME IngestInv, NEW r \in Requests, NEW status \in Statuses, Answer(r, status),
           status = "201" => /\ post[r].fix \in Fixes
                             /\ \E row \in locations' : row.time = post[r].fix.time,
           board' = board, RestOK', TableStep, acked' = acked
    PROVE  IngestInv'
<1> DEFINE new == [pc |-> "answered", fix |-> post[r].fix, status |-> status]
<1>1. CASE board.conn = r
  <2>1. post' = [post EXCEPT ![r] = new]
    BY <1>1 DEF Answer
  <2>2. new \in Post
    BY DEF IngestInv, PostsOK, Post, PostSteps
  <2>3. InOrder(new, locations')
    BY DEF InOrder
  <2> QED BY <2>1, <2>2, <2>3, PostStepKeeps
<1>2. CASE board.conn # r
  BY <1>2, FreeOK, PostStepKeeps DEF Answer
<1> QED BY <1>1, <1>2

LEMMA PassKeeps ==
    ASSUME IngestInv, NEW r \in Requests, NEW pc \in PostSteps \ {"answered"}, Pass(r, pc),
           pc = "insert" => post[r].fix \in Fixes,
           board' = board, RestOK', locations' = locations, acked' = acked
    PROVE  IngestInv'
<1> DEFINE new == [post[r] EXCEPT !.pc = pc]
<1>1. post' = [post EXCEPT ![r] = new]
  BY DEF Pass
<1>2. new \in Post /\ new.pc = pc /\ new.fix = post[r].fix
  BY DEF IngestInv, PostsOK, Post
<1>3. InOrder(new, locations')
  BY <1>2 DEF InOrder
<1> QED BY <1>1, <1>2, <1>3, PostStepKeeps DEF TableStep

LEMMA BackendKeeps ==
    ASSUME IngestInv, NEW r \in Requests,
           Authenticate(r) \/ Validate(r) \/ InsertLocation(r) \/ Break(r) \/ Lose(r)
    PROVE  IngestInv'
<1>1. board' = board /\ acked' = acked /\ RestOK'
  BY DEF Authenticate, Validate, InsertLocation, Break, Lose, IngestInv, RestOK
<1>2. /\ {"400", "401", "500", "201"} \subseteq Statuses
      /\ {"validate", "insert", "gone"} \subseteq PostSteps \ {"answered"}
  BY DEF Statuses, PostSteps
<1>3. CASE Authenticate(r)
  <2>1. locations' = locations /\ (Pass(r, "validate") \/ Answer(r, "401"))
    BY <1>3 DEF Authenticate
  <2> QED BY <1>1, <1>2, <2>1, PassKeeps, AnswerKeeps DEF TableStep
<1>4. CASE Validate(r)
  <2>1. locations' = locations
    BY <1>4 DEF Validate
  <2>2. CASE Answer(r, "400")
    BY <1>1, <1>2, <2>1, <2>2, AnswerKeeps DEF TableStep
  <2>3. CASE Pass(r, "insert") /\ post[r].fix # NoFix
    <3>1. post[r].fix \in Fixes
      BY <2>3 DEF IngestInv, PostsOK, Post, Payloads
    <3> QED BY <1>1, <1>2, <2>1, <2>3, <3>1, PassKeeps
  <2> QED BY <1>4, <2>2, <2>3 DEF Validate
<1>5. CASE InsertLocation(r)
  <2>1. post[r].fix \in Fixes
    BY <1>5 DEF InsertLocation, IngestInv, PostsOK, InOrder
  <2>2. Insert(post[r].fix) /\ Answer(r, "201")
    BY <1>5 DEF InsertLocation, Insert
  <2>3. \E row \in locations' : row.time = post[r].fix.time
    BY <2>1, <2>2, InsertKeepsTable DEF IngestInv
  <2> QED BY <1>1, <1>2, <2>1, <2>2, <2>3, AnswerKeeps DEF TableStep
<1>6. CASE Break(r)
  BY <1>1, <1>2, <1>6, AnswerKeeps DEF Break, TableStep
<1>7. CASE Lose(r)
  <2>1. locations' = locations
    BY <1>7 DEF Lose
  <2>2. CASE board.conn = r
    <3>1. Pass(r, "gone")
      BY <1>7, <2>2 DEF Lose, Pass
    <3> QED BY <1>1, <1>2, <2>1, <3>1, PassKeeps
  <2>3. CASE board.conn # r
    <3>1. post' = [post EXCEPT ![r] = Free]
      BY <1>7, <2>3 DEF Lose
    <3> QED BY <1>1, <2>1, <2>3, <3>1, FreeOK, PostStepKeeps DEF TableStep
  <2> QED BY <2>2, <2>3
<1> QED BY <1>3, <1>4, <1>5, <1>6, <1>7

-----------------------------------------------------------------------------
(* Every step.                                                             *)

LEMMA IngestInit == Init => IngestInv
<1> SUFFICES ASSUME Init PROVE IngestInv
  OBVIOUS
<1>1. Booting \in Board /\ Booting.pc = "setup" /\ Booting.conn = NoRequest
  BY DEF Booting, Board, BoardSteps, Payloads
<1>2. BoardOK /\ Match
  BY <1>1, IngestAssumption DEF Init, BoardOK, Match
<1>3. PostsOK
  BY FreeOK DEF Init, PostsOK
<1>4. RestOK /\ TableOK /\ AckedOK
  BY DEF Init, RestOK, TableOK, OneRowPerTime, HasLatest, AckedOK, AckedFixesStored
<1> QED BY <1>2, <1>3, <1>4 DEF IngestInv

LEMMA TableSteps ==
    ASSUME IngestInv, [Next]_vars
    PROVE  TableStep
<1>1. CASE \E r \in Requests : InsertLocation(r)
  <2>1. PICK r \in Requests : InsertLocation(r)
    BY <1>1
  <2>2. post[r].fix \in Fixes /\ Insert(post[r].fix)
    BY <2>1 DEF InsertLocation, IngestInv, PostsOK, InOrder, Insert
  <2> QED BY <2>2 DEF TableStep
<1>2. CASE ~\E r \in Requests : InsertLocation(r)
  <2>1. locations' = locations
    BY <1>2 DEF Next, Uploading, vars, SetUp, Poll, BeginUpload, SendPost, CannotConnect,
                TakeAnswer, TimeOut, Retry, Reset, Distrust, Authenticate, Validate, Break, Lose
  <2> QED BY <2>1 DEF TableStep
<1> QED BY <1>1, <1>2

LEMMA IngestStep == IngestInv /\ [Next]_vars => IngestInv'
<1> SUFFICES ASSUME IngestInv, [Next]_vars PROVE IngestInv'
  OBVIOUS
<1>1. CASE SetUp \/ Poll \/ BeginUpload \/ CannotConnect \/ Retry
  BY <1>1, LoopKeeps
<1>2. CASE SendPost
  BY <1>2, SendPostKeeps
<1>3. CASE TakeAnswer
  BY <1>3, TakeAnswerKeeps
<1>4. CASE TimeOut \/ Reset
  BY <1>4, HangUpKeeps
<1>5. ASSUME NEW r \in Requests,
             Authenticate(r) \/ Validate(r) \/ InsertLocation(r) \/ Break(r) \/ Lose(r)
      PROVE  IngestInv'
  BY <1>5, BackendKeeps
<1>6. CASE Distrust \/ UNCHANGED vars
  <2>1. /\ board' = board /\ post' = post /\ locations' = locations /\ acked' = acked
        /\ clock' = clock /\ trusted' \in BOOLEAN
    BY <1>6 DEF Distrust, vars, IngestInv, RestOK
  <2> QED BY <2>1 DEF IngestInv, BoardOK, RestOK, Match, PostsOK, TableOK, OneRowPerTime,
                      HasLatest, AckedOK, AckedFixesStored
<1> QED BY <1>1, <1>2, <1>3, <1>4, <1>5, <1>6 DEF Next, Uploading

LEMMA IngestAlways == Spec => []IngestInv
<1>1. Init => IngestInv
  BY IngestInit
<1>2. IngestInv /\ [Next]_vars => IngestInv'
  BY IngestStep
<1> QED BY <1>1, <1>2, PTL DEF Spec

-----------------------------------------------------------------------------
(* The theorems.                                                           *)

\* The board's state, the POSTs and the table stay well-formed, and the board holds a
\* connection exactly while post_once waits.
THEOREM IngestTypeOK == Spec => []TypeOK
<1>1. IngestInv => TypeOK
  BY DEF IngestInv, BoardOK, RestOK, PostsOK, TableOK, AckedOK, TypeOK, Payloads
<1> QED BY <1>1, IngestAlways, PTL

\* A 201 the board has seen means that the fix's second is in the table, whatever was
\* lost, repeated or abandoned in between.
THEOREM IngestAckedFixesStored == Spec => []AckedFixesStored
<1>1. IngestInv => AckedFixesStored
  BY DEF IngestInv, AckedOK
<1> QED BY <1>1, IngestAlways, PTL

\* The zeroes that a failed poll leaves in lastFix are posted but never stored.
THEOREM IngestFailedPollsLeaveNoTrace == Spec => []FailedPollsLeaveNoTrace
<1>1. IngestInv => FailedPollsLeaveNoTrace
  BY FixTimes DEF IngestInv, TableOK, FailedPollsLeaveNoTrace
<1> QED BY <1>1, IngestAlways, PTL

\* GetLatestLocationForDevice moves to later seconds only, whatever the order of arrival.
THEOREM IngestLatestMovesForward == Spec => LatestMovesForward
<1> DEFINE Forward == locations # {} => /\ locations' # {}
                                        /\ Latest' # Latest => Latest'.time > Latest.time
<1>1. ASSUME IngestInv, [Next]_vars PROVE Forward
  <2> SUFFICES ASSUME locations # {}, Latest' # Latest
               PROVE  locations' # {} /\ Latest'.time > Latest.time
    BY <1>1, TableSteps, TableStepKeeps DEF IngestInv
  <2>1. TableOK /\ TableOK' /\ locations \subseteq locations' /\ locations' # {}
    BY <1>1, TableSteps, TableStepKeeps DEF IngestInv
  <2>2. Latest \in locations /\ \A other \in locations : Latest.time >= other.time
    BY <2>1, LatestIsLatest DEF Latest, TableOK, HasLatest
  <2>3. Latest' \in locations' /\ \A other \in locations' : Latest'.time >= other.time
    BY <2>1, LatestIsLatest DEF Latest, TableOK, HasLatest
  <2>4. Latest'.time >= Latest.time /\ Latest \in locations'
    BY <2>1, <2>2, <2>3
  <2>5. Latest'.time # Latest.time
    BY <2>1, <2>3, <2>4 DEF TableOK, OneRowPerTime
  <2>6. Latest'.time \in Nat /\ Latest.time \in Nat
    BY <2>1, <2>2, <2>3, FixTimes DEF TableOK
  <2> QED BY <2>1, <2>4, <2>5, <2>6
<1>2. IngestInv /\ [Next]_vars => [Forward]_vars
  BY <1>1
<1> QED BY <1>2, IngestAlways, PTL DEF Spec, LatestMovesForward

\* The table implements the log in which the first fix of a second stays: POSTs that are
\* repeated, or late, change nothing that was recorded.
THEOREM IngestImplementsLocationLog == Spec => ImplementsLocationLog
<1>1. Init => Log!LogInit
  BY DEF Init, Log!LogInit
<1>2. IngestInv /\ [Next]_vars => [Log!LogNext]_locations
  <2> SUFFICES ASSUME IngestInv, [Next]_vars, locations' # locations PROVE Log!LogNext
    OBVIOUS
  <2>1. PICK f \in Fixes : Insert(f)
    BY TableSteps DEF TableStep
  <2>2. Log!Record(f)
    BY <2>1 DEF Insert, Log!Record
  <2> QED BY <2>2 DEF Log!LogNext
<1> QED BY <1>1, <1>2, IngestAlways, PTL DEF Spec, ImplementsLocationLog, Log!LogSpec

-----------------------------------------------------------------------------
(* An upload winds down.  With the weak fairness of the upload's steps     *)
(* this is why UploadEnds holds.                                           *)

\* The most steps an upload has left: two attempts of two steps, and the pause between.
StepsOf(b) ==
    IF b.pc \in {"loop", "setup"} THEN 0
    ELSE (IF b.attempt = 1 THEN 3 ELSE 0) +
         (IF b.pc = "post" THEN 2 ELSE IF b.pc = "waiting" THEN 1 ELSE 0)
StepsLeft == StepsOf(board)

\* Only the first attempt is followed by the pause.
OnePause == board.pc = "backoff" => board.attempt = 1
WindsDown == /\ StepsLeft \in 0..5 /\ (StepsLeft = 0 <=> board.pc \in {"loop", "setup"})
             /\ Uploading => StepsLeft' < StepsLeft
             /\ StepsLeft' > StepsLeft => board.pc = "loop"

LEMMA StepsOfBoard ==
    ASSUME NEW b \in Board
    PROVE  /\ StepsOf(b) \in 0..5
           /\ StepsOf(b) = 0 <=> \/ b.pc \in {"loop", "setup"}
                                 \/ b.pc = "backoff" /\ b.attempt = 2
  BY DEF Board, BoardSteps, StepsOf

LEMMA AttemptFailedWinds ==
    ASSUME BoardOK, board.pc \in {"post", "waiting"}, board' = AttemptFailed
    PROVE  OnePause' /\ StepsLeft' < StepsLeft
<1>1. board \in Board
  BY DEF BoardOK
<1>2. CASE board.attempt = 1
  BY <1>1, <1>2 DEF AttemptFailed, Board, OnePause, StepsLeft, StepsOf
<1>3. CASE board.attempt = 2
  BY <1>1, <1>3 DEF AttemptFailed, Failed, Board, OnePause, StepsLeft, StepsOf
<1> QED BY <1>1, <1>2, <1>3 DEF Board

LEMMA UploadingWinds ==
    ASSUME BoardOK, OnePause, Uploading
    PROVE  OnePause' /\ StepsLeft' < StepsLeft
<1>1. board \in Board
  BY DEF BoardOK
<1>2. CASE SendPost
  BY <1>1, <1>2 DEF SendPost, Board, OnePause, StepsLeft, StepsOf
<1>3. CASE CannotConnect \/ TimeOut
  BY <1>3, AttemptFailedWinds DEF CannotConnect, TimeOut
<1>4. CASE TakeAnswer
  <2>1. CASE board' = AttemptFailed
    BY <1>4, <2>1, AttemptFailedWinds DEF TakeAnswer
  <2>2. CASE board' = [board EXCEPT !.pc = "loop", !.conn = NoRequest, !.unsent = 0]
    BY <1>1, <1>4, <2>2 DEF TakeAnswer, Board, OnePause, StepsLeft, StepsOf
  <2> QED BY <1>4, <2>1, <2>2 DEF TakeAnswer
<1>5. CASE Retry
  BY <1>1, <1>5 DEF Retry, Board, OnePause, StepsLeft, StepsOf
<1> QED BY <1>2, <1>3, <1>4, <1>5 DEF Uploading

LEMMA OthersDoNotWind ==
    ASSUME BoardOK, OnePause, [Next]_vars, ~Uploading
    PROVE  OnePause' /\ (StepsLeft' > StepsLeft => board.pc = "loop")
<1>1. board \in Board /\ StepsOf(board) \in Nat
  BY StepsOfBoard DEF BoardOK
<1>2. CASE SetUp \/ Reset
  <2>1. board'.pc \in {"loop", "setup"}
    <3>1. CASE SetUp
      <4> PICK up \in BOOLEAN : board' = [board EXCEPT !.pc = "loop", !.wifiUp = up]
        BY <3>1 DEF SetUp
      <4> QED BY <1>1 DEF Board
    <3>2. CASE Reset
      BY <3>2 DEF Reset, Booting
    <3> QED BY <1>2, <3>1, <3>2
  <2>2. StepsLeft' = 0 /\ StepsLeft \in Nat
    BY <1>1, <2>1 DEF StepsLeft, StepsOf
  <2> QED BY <2>1, <2>2 DEF OnePause
<1>3. CASE Poll \/ BeginUpload
  <2>1. board.pc = "loop" /\ (board'.pc = "backoff" => board'.attempt = 1)
    BY <1>1, <1>3 DEF Poll, BeginUpload, Failed, Board
  <2> QED BY <2>1 DEF OnePause
<1>4. CASE board' = board
  BY <1>1, <1>4 DEF OnePause, StepsLeft, StepsOf
<1>5. CASE \E r \in Requests : \/ Authenticate(r) \/ Validate(r) \/ InsertLocation(r)
                               \/ Break(r) \/ Lose(r)
  <2>1. board' = board
    BY <1>5 DEF Authenticate, Validate, InsertLocation, Break, Lose
  <2> QED BY <1>4, <2>1
<1>6. CASE Distrust \/ UNCHANGED vars
  <2>1. board' = board
    BY <1>6 DEF Distrust, vars
  <2> QED BY <1>4, <2>1
<1> QED BY <1>2, <1>3, <1>5, <1>6 DEF Next

\* Every step of transport_post_locations brings the end of the upload nearer and nothing
\* puts it off again: only the loop starts one.  So the board is back in its loop after at
\* most five of them, whatever the network and the backend do.
THEOREM IngestUploadWindsDown == Spec => [][WindsDown]_vars
<1>1. Init => OnePause
  BY DEF Init, Booting, OnePause
<1>2. IngestInv /\ OnePause /\ [Next]_vars => OnePause' /\ WindsDown
  <2> SUFFICES ASSUME IngestInv, OnePause, [Next]_vars PROVE OnePause' /\ WindsDown
    OBVIOUS
  <2>1. BoardOK /\ BoardOK'
    BY IngestStep DEF IngestInv
  <2>2. StepsLeft \in 0..5 /\ (StepsLeft = 0 <=> board.pc \in {"loop", "setup"})
    <3>1. board \in Board /\ (board.pc = "backoff" => board.attempt = 1)
      BY <2>1 DEF BoardOK, OnePause
    <3> QED BY <3>1, StepsOfBoard DEF StepsLeft
  <2>3. CASE Uploading
    <3>1. OnePause' /\ StepsLeft' < StepsLeft
      BY <2>1, <2>3, UploadingWinds
    <3>2. StepsLeft \in Nat /\ StepsLeft' \in Nat
      <4>1. board \in Board /\ board' \in Board
        BY <2>1 DEF BoardOK
      <4>2. StepsOf(board) \in Nat /\ StepsOf(board') \in Nat
        BY <4>1, StepsOfBoard
      <4> QED BY <4>2 DEF StepsLeft, StepsOf
    <3> QED BY <2>2, <3>1, <3>2 DEF WindsDown
  <2>4. CASE ~Uploading
    BY <2>1, <2>2, <2>4, OthersDoNotWind DEF WindsDown
  <2> QED BY <2>3, <2>4
<1>3. IngestInv /\ OnePause /\ [Next]_vars => [WindsDown]_vars
  BY <1>2
<1>4. Spec => []OnePause
  BY <1>1, <1>2, IngestAlways, PTL DEF Spec
<1> QED BY <1>3, <1>4, IngestAlways, PTL DEF Spec
=============================================================================
