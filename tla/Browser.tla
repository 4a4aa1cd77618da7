------------------------------- MODULE Browser -------------------------------
(***************************************************************************)
(* What the screens of the app share: one loaded page, the state of its    *)
(* React components, the requests it has in flight and the server's table  *)
(* behind it.  A page load drops everything but that table, so the screens *)
(* start in `Init` with any table, their mount effect just run; whatever   *)
(* other sessions, or requests an earlier page load left behind, do to the *)
(* table is `Elsewhere`.                                                   *)
(*                                                                         *)
(* A request is served and its answer delivered in two steps.  The server  *)
(* may refuse any request (validation, role, conflict, 5xx); request or    *)
(* answer may get lost.  The hooks' client rejects only when the answer is *)
(* lost; a refused request resolves with `data: null`.                     *)
(***************************************************************************)
EXTENDS Naturals, FiniteSets

CONSTANTS
    Ids,        \* devices on the device screens, users on the user screens
    Names,      \* display names; two rows may share one
    Keys,       \* API keys
    None,       \* null
    PageSize,   \* rows of a page of the device listing; the app asks for 20
    MaxFaults   \* bound on lost messages and on changes made elsewhere

ASSUME BrowserAssumption ==
    /\ MaxFaults \in Nat /\ PageSize \in Nat \ {0}
    /\ None \notin Ids \cup Names \cup Keys
    /\ {"unborn", "gone"} \cap Names = {}
    /\ {"close", "cancel", "toggle", "generate", "copy", "done"} \cap Ids = {}

VARIABLES
    page,       \* the page loaded
    table,      \* what the server has behind it
    view,       \* the state of the page's components and hooks
    calls,      \* requests in flight
    doubt,      \* history: ids whose row this page cannot know or was not sent
    faults      \* faults so far

vars == <<page, table, view, calls, doubt, faults>>

(***************************************************************************)
(* The client's side of a request                                          *)
(***************************************************************************)
Message(op, id, put, n) ==
    [op |-> op, id |-> id, put |-> put, seen |-> None, vetted |-> FALSE,
     reply |-> "none", data |-> None, n |-> n]

Request(op, id, put) ==
    Message(op, id, put, IF \E c \in calls : c.op = op /\ c.n = 1 THEN 2 ELSE 1)

\* A handler runs to its first await: React state v, request c sent.
Send(c, v) ==
    /\ calls' = calls \cup {c}
    /\ view' = v
    /\ UNCHANGED <<page, table, doubt, faults>>

\* A handler that sends nothing.
Touch(v) ==
    /\ view' = v
    /\ UNCHANGED <<page, table, calls, doubt, faults>>

\* The code after the await: React state v, ids D newly in doubt.
Finish(c, v, D) ==
    /\ calls' = calls \ {c}
    /\ view' = v
    /\ doubt' = doubt \cup D
    /\ UNCHANGED <<page, table, faults>>

(***************************************************************************)
(* The server's side                                                       *)
(***************************************************************************)
Respond(c, reply, data, t) ==
    /\ calls' = (calls \ {c}) \cup {[c EXCEPT !.reply = reply, !.data = data]}
    /\ table' = t
    /\ UNCHANGED <<page, view, faults>>

Refuse(c) == Respond(c, "refused", None, table) /\ UNCHANGED doubt

\* Rows of a listing, deleted and never created ones left out.
Listing == [i \in Ids |-> IF table[i] \in Names THEN table[i] ELSE None]
NoRows == [i \in Ids |-> None]

\* The ids that have a row, and on a narrow screen a card.
DataTable(rows) == {i \in Ids : rows[i] # None}

\* The ids a first page may hold when S has rows: the newest, and which those are is
\* left open; all of S unless the page is full.
FirstPages(S) ==
    {P \in SUBSET S : Cardinality(P) <= PageSize /\ (P # S => Cardinality(P) = PageSize)}

\* The rows of P are sent; what is left out the page cannot know.
ServeRows(c, P) ==
    /\ Respond(c, "ok", [i \in Ids |-> IF i \in P THEN Listing[i] ELSE None], table)
    /\ doubt' = DataTable(Listing) \ P

\* The users come all at once, of the devices the app asks for the first page only.
ServeList(c) == ServeRows(c, DataTable(Listing))

ServePage(c) == \E P \in FirstPages(DataTable(Listing)) : ServeRows(c, P)

ServeCreate(c) ==
    /\ \E i \in Ids :
        /\ table[i] = "unborn"
        /\ Respond(c, "ok", i, [table EXCEPT ![i] = c.put])
    /\ UNCHANGED doubt

ServeUpdate(c) ==
    /\ table[c.id] \in Names
    /\ Respond(c, "ok", c.put, [table EXCEPT ![c.id] = c.put])
    /\ UNCHANGED doubt

ServeDelete(c) ==
    /\ table[c.id] \in Names
    /\ Respond(c, "ok", None, [table EXCEPT ![c.id] = "gone"])
    /\ UNCHANGED doubt

\* The request never arrives, or its answer does not.
Lose ==
    /\ faults < MaxFaults
    /\ faults' = faults + 1
    /\ \E c \in calls :
        /\ c.reply # "lost"
        /\ calls' = (calls \ {c}) \cup {[c EXCEPT !.reply = "lost"]}
    /\ UNCHANGED <<page, table, view, doubt>>

\* Another session changes row i of a listing's table.
ElsewhereInList ==
    /\ faults < MaxFaults
    /\ faults' = faults + 1
    /\ \E i \in Ids :
        /\ \/ table[i] = "unborn" /\ \E n \in Names : table' = [table EXCEPT ![i] = n]
           \/ table[i] \in Names /\ \E n \in (Names \ {table[i]}) \cup {"gone"} :
                                        table' = [table EXCEPT ![i] = n]
        /\ doubt' = doubt \cup {i}
    /\ UNCHANGED <<page, view, calls>>

Unserved(c) == c \in calls /\ c.reply = "none"
Answered(c) == c \in calls /\ c.reply # "none"

(***************************************************************************)
(* Controls shared by the screens, each as the set of what it lets the     *)
(* visitor do.                                                             *)
(***************************************************************************)
\* The cross, a click on the backdrop and Escape close it, at any time.
Modal(open) == IF open THEN {"close"} ELSE {}

Button(name, disabled) == IF disabled THEN {} ELSE {name}

\* The skeleton, while a list loads and has no row.
TableStatus(isLoading, rows) == isLoading /\ rows = NoRows

\* Typing into it is the one thing it offers.
Input(disabled) == IF disabled THEN {} ELSE {"type"}

\* The handlers behind "confirm" compare the names once more, with the state of the same
\* render: that second check refuses nothing the button lets through and is left out.
ConfirmActionModal(open, isLoading, requiresTypedName, matches) ==
    IF open
    THEN Modal(TRUE)
         \cup Button("cancel", isLoading)
         \cup Button("confirm", isLoading \/ (requiresTypedName /\ ~matches))
         \cup (IF requiresTypedName THEN Input(isLoading) ELSE {})
    ELSE {}
=============================================================================
