------------------------------- MODULE Ingest -------------------------------
(***************************************************************************)
(* From the GPS receiver to the `locations` table: the firmware's loop,    *)
(* its POSTs over a network that loses and delays them, and the ingest     *)
(* route.  One board; what its key and device go through is in ApiKeys.    *)
(***************************************************************************)
EXTENDS Integers

CONSTANTS
    Times,      \* seconds the receiver may report
    Places,     \* positions with no coordinate that is exactly 0
    NoPlace,    \* the place of a payload that a failed poll zeroed
    Requests,   \* slots for POSTs in flight, those the board gave up on included
    NoRequest   \* the board has no connection

ASSUME IngestAssumption ==
    /\ Times \subseteq Nat \ {0}
    /\ NoPlace \notin Places
    /\ NoRequest \notin Requests

VARIABLES
    board,      \* the firmware's variables and where it is
    clock,      \* the last second the receiver reported
    post,       \* the POSTs in flight
    trusted,    \* the board's key is active and its device is there
    locations,  \* the table, a set of rows
    acked       \* history: recorded_at of the payloads the board saw a 201 for

vars == <<board, clock, post, trusted, locations, acked>>

-----------------------------------------------------------------------------
Fixes == [time : Times, place : Places]
NoFix == [time |-> 0, place |-> NoPlace]
Payloads == Fixes \cup {NoFix}

BoardSteps == {"setup", "loop", "post", "waiting", "backoff"}
Board == [pc : BoardSteps,
          fix : Payloads,                       \* lastFix
          hasFix : BOOLEAN,
          fresh : BOOLEAN,                      \* polled since the last upload
          wifiUp : BOOLEAN,                     \* what setup found
          attempt : {1, 2},
          conn : Requests \cup {NoRequest},     \* the POST it waits for
          unsent : Times \cup {0}]              \* history: fix of the last upload, if it failed

PostSteps == {"idle", "wire", "validate", "insert", "answered", "gone"}
Statuses == {"none", "201", "400", "401", "500"}
Post == [pc : PostSteps, fix : Payloads, status : Statuses]

Free == [pc |-> "idle", fix |-> NoFix, status |-> "none"]

\* The globals and statics of main.cpp after a reset.
Booting == [pc |-> "setup", fix |-> NoFix, hasFix |-> FALSE, fresh |-> FALSE,
            wifiUp |-> FALSE, attempt |-> 1, conn |-> NoRequest, unsent |-> 0]

Init ==
    /\ board = Booting
    /\ clock = 0
    /\ post = [r \in Requests |-> Free]
    /\ trusted = TRUE
    /\ locations = {}
    /\ acked = {}

-----------------------------------------------------------------------------
(* The firmware.                                                           *)

\* setup(); when the modem or the secrets fail it restarts, and nothing happened.
SetUp ==
    /\ board.pc = "setup"
    /\ \E up \in BOOLEAN : board' = [board EXCEPT !.pc = "loop", !.wifiUp = up]
    /\ UNCHANGED <<clock, post, trusted, locations, acked>>

\* A poll overwrites lastFix: with the fix, or with zeroes when there is none.
Poll ==
    /\ board.pc = "loop"
    /\ \/ \E f \in Fixes :
            /\ f.time >= clock
            /\ clock' = f.time
            /\ board' = [board EXCEPT !.fix = f, !.hasFix = TRUE, !.fresh = TRUE]
       \/ /\ board' = [board EXCEPT !.fix = NoFix, !.fresh = TRUE]
          /\ UNCHANGED clock
    /\ UNCHANGED <<post, trusted, locations, acked>>

Failed == [board EXCEPT !.pc = "loop", !.fresh = FALSE, !.conn = NoRequest,
                        !.unsent = board.fix.time]
\* Mutant: the firmware retries until it gets a 201.
AttemptFailed_Mutant == [board EXCEPT !.pc = "backoff", !.conn = NoRequest]
AttemptFailed ==
    IF board.attempt = 1
    THEN [board EXCEPT !.pc = "backoff", !.conn = NoRequest]
    ELSE Failed

\* Five polls fit between two uploads; at least one always happens.
BeginUpload ==
    /\ board.pc = "loop" /\ board.wifiUp /\ board.hasFix /\ board.fresh
    /\ \/ board' = [board EXCEPT !.pc = "post", !.fresh = FALSE, !.attempt = 1]
       \/ board' = Failed       \* WiFi.status() is not WL_CONNECTED
    /\ UNCHANGED <<clock, post, trusted, locations, acked>>

\* post_once gets its request out, or does not get a connection.
SendPost ==
    /\ board.pc = "post"
    /\ \E r \in Requests :
        /\ post[r].pc = "idle"
        /\ post' = [post EXCEPT ![r] = [pc |-> "wire", fix |-> board.fix, status |-> "none"]]
        /\ board' = [board EXCEPT !.pc = "waiting", !.conn = r]
    /\ UNCHANGED <<clock, trusted, locations, acked>>

CannotConnect ==
    /\ board.pc = "post"
    /\ board' = AttemptFailed
    /\ UNCHANGED <<clock, post, trusted, locations, acked>>

\* Mutant: http.end() forgotten.
TakeAnswer_Mutant ==
    LET r == board.conn IN
    /\ board.pc = "waiting" /\ post[r].pc = "answered"
    /\ post' = [post EXCEPT ![r] = Free]
    /\ board' = [board EXCEPT !.pc = "loop"]
    /\ UNCHANGED <<clock, trusted, locations, acked>>

\* Only a 201 counts; every other answer is treated like no answer.
TakeAnswer ==
    LET r == board.conn IN
    /\ board.pc = "waiting" /\ post[r].pc = "answered"
    /\ post' = [post EXCEPT ![r] = Free]
    /\ IF post[r].status = "201"
       THEN /\ board' = [board EXCEPT !.pc = "loop", !.conn = NoRequest, !.unsent = 0]
            /\ acked' = acked \cup {board.fix.time}
       ELSE board' = AttemptFailed /\ UNCHANGED acked
    /\ UNCHANGED <<clock, trusted, locations>>

\* Five seconds without an answer, or a broken connection.  The backend goes on.
TimeOut ==
    LET r == board.conn IN
    /\ board.pc = "waiting"
    /\ board' = AttemptFailed
    /\ post' = IF post[r].pc \in {"answered", "gone"} THEN [post EXCEPT ![r] = Free] ELSE post
    /\ UNCHANGED <<clock, trusted, locations, acked>>

\* The retry does not look at the WiFi again.
Retry ==
    /\ board.pc = "backoff"
    /\ board' = [board EXCEPT !.pc = "post", !.attempt = 2]
    /\ UNCHANGED <<clock, post, trusted, locations, acked>>

\* Watchdog, brown-out or reset button.
Reset ==
    /\ board.pc # "setup"
    /\ board' = Booting
    /\ post' = IF board.pc = "waiting" /\ post[board.conn].pc \in {"answered", "gone"}
               THEN [post EXCEPT ![board.conn] = Free] ELSE post
    /\ UNCHANGED <<clock, trusted, locations, acked>>

-----------------------------------------------------------------------------
(* The route POST /devices/:uuid_firmware/locations.                       *)

\* An answer reaches the board if it still waits.
Answer(r, status) ==
    post' = [post EXCEPT ![r] = IF board.conn = r
                                THEN [pc |-> "answered", fix |-> post[r].fix, status |-> status]
                                ELSE Free]
Pass(r, pc) == post' = [post EXCEPT ![r].pc = pc]

\* RequireDeviceAPIKey; its two lookups are told apart in ApiKeys.
Authenticate(r) ==
    /\ post[r].pc = "wire"
    /\ IF trusted THEN Pass(r, "validate") ELSE Answer(r, "401")
    /\ UNCHANGED <<board, clock, trusted, locations, acked>>

\* Mutant: recorded_at, latitude and longitude lose `required`.
Validate_Mutant(r) ==
    /\ post[r].pc = "validate"
    /\ Pass(r, "insert")
    /\ UNCHANGED <<board, clock, trusted, locations, acked>>

\* A zeroed payload has an empty recorded_at and coordinates of 0.
Validate(r) ==
    /\ post[r].pc = "validate"
    /\ IF post[r].fix = NoFix THEN Answer(r, "400") ELSE Pass(r, "insert")
    /\ UNCHANGED <<board, clock, trusted, locations, acked>>

\* Mutant: ON CONFLICT DO UPDATE.
InsertLocation_Upsert(r) ==
    LET f == post[r].fix IN
    /\ post[r].pc = "insert"
    /\ locations' = {row \in locations : row.time # f.time} \cup {f}
    /\ Answer(r, "201")
    /\ UNCHANGED <<board, clock, trusted, acked>>
\* Mutant: the error of the INSERT is logged and dropped.
InsertLocation_Swallow(r) ==
    /\ post[r].pc = "insert"
    /\ locations' \in {locations, locations \cup {post[r].fix}}
    /\ Answer(r, "201")
    /\ UNCHANGED <<board, clock, trusted, acked>>

\* INSERT ... ON CONFLICT (device_id, recorded_at) DO NOTHING, then 201 either way.
InsertLocation(r) ==
    LET f == post[r].fix IN
    /\ post[r].pc = "insert"
    /\ locations' = IF \E row \in locations : row.time = f.time THEN locations
                    ELSE locations \cup {f}
    /\ Answer(r, "201")
    /\ UNCHANGED <<board, clock, trusted, acked>>

\* A statement fails.
Break(r) ==
    /\ post[r].pc \in {"wire", "insert"}
    /\ Answer(r, "500")
    /\ UNCHANGED <<board, clock, trusted, locations, acked>>

\* The request is lost on its way, or the backend restarts.
Lose(r) ==
    /\ post[r].pc \in {"wire", "validate", "insert"}
    /\ post' = [post EXCEPT ![r] = IF board.conn = r THEN [@ EXCEPT !.pc = "gone"] ELSE Free]
    /\ UNCHANGED <<board, clock, trusted, locations, acked>>

\* The owner revokes the key or deletes the device; the key is built into the firmware.
Distrust ==
    /\ trusted
    /\ trusted' = FALSE
    /\ UNCHANGED <<board, clock, post, locations, acked>>

-----------------------------------------------------------------------------
Uploading == SendPost \/ CannotConnect \/ TakeAnswer \/ TimeOut \/ Retry

Next ==
    \/ SetUp \/ Poll \/ BeginUpload \/ Uploading \/ Reset \/ Distrust
    \/ \E r \in Requests : \/ Authenticate(r) \/ Validate(r) \/ InsertLocation(r)
                           \/ Break(r) \/ Lose(r)

Spec == Init /\ [][Next]_vars

\* transport_post_locations blocks with timeouts only.
FairSpec == Spec /\ WF_vars(Uploading)
-----------------------------------------------------------------------------
\* GetLatestLocationForDevice.
Latest_Mutant ==        \* Mutant: DESC dropped.
    CHOOSE row \in locations : \A other \in locations : row.time <= other.time
Latest ==
    CHOOSE row \in locations : \A other \in locations : row.time >= other.time

-----------------------------------------------------------------------------
(* What ingest promises. *)

TypeOK ==
    /\ board \in Board
    /\ (board.pc = "waiting") <=> (board.conn \in Requests)
    /\ clock \in Times \cup {0}
    /\ post \in [Requests -> Post]
    /\ trusted \in BOOLEAN
    /\ locations \subseteq Payloads
    /\ acked \subseteq Times

\* When the board logs "location sent", the table has a row for that second, and keeps it:
\* an answer never runs ahead of its insert, and is never taken for another fix's.
AckedFixesStored ==
    \A t \in acked : \E row \in locations : row.time = t

\* A poll that failed zeroes the payload but not hasFix, so the board posts zeroes; none of
\* them ever becomes a row.
FailedPollsLeaveNoTrace == NoFix \notin locations

\* What the dashboard calls the latest location is replaced only by one recorded later,
\* although abandoned POSTs insert after newer ones.
LatestMovesForward ==
    [][locations # {} => /\ locations' # {}
                         /\ Latest' # Latest => Latest'.time > Latest.time]_vars

\* An upload ends, whatever the network and the backend do: the loop polls again.
UploadEnds ==
    board.pc \in {"post", "waiting", "backoff"} ~> board.pc \in {"loop", "setup"}

\* The table is a log that only grows, and in which the first fix of a second stays.
Log == INSTANCE LocationLog WITH log <- locations
ImplementsLocationLog == Log!LogSpec
=============================================================================
