------------------------------- MODULE KeyTable -------------------------------
(***************************************************************************)
(* The API-keys page: useApiKeyService, the device list it picks from and  *)
(* the ApiKeyTable island, whose create modal shows a form and then, once, *)
(* the key issued.  All devices are the visitor's own.                     *)
(***************************************************************************)
EXTENDS Browser

\* The server: the active key of each device, and the keys ever issued.
KeyRows == [Ids -> Keys \cup {None}]
KeyServer == [active : KeyRows, used : SUBSET Keys, devices : SUBSET Ids]

KeyView ==
    [loading : BOOLEAN,                     \* isLoading of useApiKeyService
     rows : KeyRows,
     devices : SUBSET Ids,                  \* useDeviceService's devices
     createOpen : BOOLEAN,
     issued : Keys \cup {None},             \* issuedKey
     menu : BOOLEAN, picked : Ids \cup {None},   \* ApiKeyForm's Dropdown
     target : Ids \cup {None}, targetKey : Keys \cup {None},  \* revokeTarget
     tangled : BOOLEAN,      \* history: two of the hook's requests have overlapped
     strayed : SUBSET (Keys \cup {None}),  \* history: the answer to their revocation got lost
     said : {"none", "failed", "issued", "copied", "revoked"}]  \* last toast

(***************************************************************************)
(* What is rendered                                                        *)
(***************************************************************************)
KeyTableShown == page = "keys" /\ ~TableStatus(view.loading, view.rows)

\* Devices without a row in the list.
PickableDevices == {d \in view.devices : view.rows[d] = None}

Selected == IF view.picked \in PickableDevices THEN view.picked ELSE None

Dropdown(open, items) == {"toggle"} \cup (IF open THEN items ELSE {})

\* `selected` is checked when the button is pressed.
ApiKeyForm(saving) ==
    Dropdown(view.menu, PickableDevices) \cup
    Button("cancel", saving) \cup Button("generate", saving \/ Selected = None)

ApiKeyReveal == {"copy", "done"}

KeyCreateModal ==
    IF KeyTableShown /\ view.createOpen
    THEN Modal(TRUE) \cup
         (IF view.issued # None THEN ApiKeyReveal ELSE ApiKeyForm(view.loading))
    ELSE {}

KeyRevokeModal ==
    IF KeyTableShown THEN ConfirmActionModal(view.target # None, view.loading, FALSE, FALSE)
                     ELSE {}

KeyPageClickable == KeyTableShown /\ ~view.createOpen /\ view.target = None

ApiKeyTableRow == Button("revoke", view.loading)
ApiKeyMobileCard == Button("revoke", view.loading)

KeyRow(d) ==
    IF KeyPageClickable /\ d \in DataTable(view.rows) THEN ApiKeyTableRow \cup ApiKeyMobileCard ELSE {}

\* The form loses its state with the modal, to the reveal, to the skeleton.
KeyRender(v) ==
    IF v.createOpen /\ v.issued = None /\ ~TableStatus(v.loading, v.rows) THEN v
    ELSE [v EXCEPT !.menu = FALSE, !.picked = None]

(***************************************************************************)
(* Handlers up to their first await                                        *)
(***************************************************************************)
\* The mount effect: both lists.
LoadKeys == Message("list", None, None, 1)
LoadKeyDevices == Message("devices", None, None, 1)

OpenCreateKey ==
    /\ KeyPageClickable /\ view.devices # {}
    /\ Touch([view EXCEPT !.createOpen = TRUE])

CloseCreate_Mutant(v) == [v EXCEPT !.createOpen = FALSE]

CloseCreate(v) == [v EXCEPT !.createOpen = FALSE, !.issued = None]

CloseCreateKey ==
    /\ KeyCreateModal \cap {"close", "cancel"} # {}
    /\ Touch(KeyRender(CloseCreate(view)))

\* The trigger, Escape or a click outside.
ToggleMenu ==
    /\ "toggle" \in KeyCreateModal
    /\ Touch([view EXCEPT !.menu = ~@])

PickDevice(d) ==
    /\ d \in KeyCreateModal
    /\ Touch([view EXCEPT !.picked = d, !.menu = FALSE])

IssueKey ==
    /\ "generate" \in KeyCreateModal
    /\ Send(Request("issue", Selected, None), KeyRender([view EXCEPT !.loading = TRUE]))

CopyKey ==
    /\ "copy" \in KeyCreateModal
    /\ \E r \in {"copied", "failed"} : Touch([view EXCEPT !.said = r])

\* handleDone: getAllApiKeys, then close.  Done is not disabled while a
\* revocation, or an earlier Done, is in flight.
SavedKey ==
    /\ "done" \in KeyCreateModal
    /\ Send(Request("refresh", None, None),
            KeyRender([view EXCEPT !.loading = TRUE, !.rows = NoRows,
                                   !.tangled = @ \/ view.loading]))

OpenRevoke(d) ==
    /\ "revoke" \in KeyRow(d)
    /\ Touch([view EXCEPT !.target = d, !.targetKey = view.rows[d]])

NoRevoke(v) == [v EXCEPT !.target = None, !.targetKey = None]

CloseRevoke ==
    /\ KeyRevokeModal \cap {"close", "cancel"} # {}
    /\ Touch(NoRevoke(view))

RevokeKey ==
    /\ "confirm" \in KeyRevokeModal
    /\ Send(Request("revoke", view.target, view.targetKey), [view EXCEPT !.loading = TRUE])

(***************************************************************************)
(* Their continuations                                                     *)
(***************************************************************************)
KeyAnswer(c, v) == Finish(c, KeyRender(v), {})

KeysIdle(v) == [v EXCEPT !.loading = FALSE]

KeysFailed_Mutant(c) == KeyAnswer(c, [view EXCEPT !.said = "failed"])

KeysFailed(c) == KeyAnswer(c, [KeysIdle(view) EXCEPT !.said = "failed"])

KeysLoaded(c) ==
    \/ c.reply = "ok" /\ KeyAnswer(c, [KeysIdle(view) EXCEPT !.rows = c.data])
    \/ c.reply # "ok" /\ KeysFailed(c)

KeysRefreshed(c) ==
    \/ c.reply = "ok" /\ KeyAnswer(c, CloseCreate([KeysIdle(view) EXCEPT !.rows = c.data]))
    \/ c.reply # "ok" /\ KeysFailed(c)

KeyDevicesLoaded(c) ==
    \/ c.reply = "ok" /\ KeyAnswer(c, [view EXCEPT !.devices = c.data])
    \/ c.reply # "ok" /\ KeyAnswer(c, [view EXCEPT !.said = "failed"])

\* handleIssue shows the key whether or not the modal is still open.
KeyIssued(c) ==
    \/ /\ c.reply = "ok"
       /\ KeyAnswer(c, [KeysIdle(view) EXCEPT !.issued = c.data, !.said = "issued"])
    \/ c.reply # "ok" /\ KeysFailed(c)

\* A refused DELETE resolves like a served one.
KeyRevoked(c) ==
    \/ /\ c.reply # "lost"
       /\ KeyAnswer(c, [NoRevoke(KeysIdle(view)) EXCEPT
                          !.rows[c.id] = IF @ = c.put THEN None ELSE @,
                          !.said = "revoked"])
    \/ /\ c.reply = "lost"
       /\ KeyAnswer(c, [KeysIdle(view) EXCEPT !.said = "failed", !.strayed = @ \cup {c.put}])

(***************************************************************************)
(* The server's side                                                       *)
(***************************************************************************)
ServeKeyList(c) ==
    Respond(c, "ok", [i \in Ids |-> IF i \in table.devices THEN table.active[i] ELSE None],
            table)

\* The picker, too, gets the first page of the devices and no other.
ServeKeyDevices(c) == \E P \in FirstPages(table.devices) : Respond(c, "ok", P, table)

Issue(d, k) ==
    [table EXCEPT !.active[d] = k, !.used = @ \cup {k}]

ServeIssue(c) ==
    /\ table.active[c.id] = None
    /\ \E k \in Keys \ table.used : Respond(c, "ok", k, Issue(c.id, k))

ServeRevoke(c) ==
    Respond(c, "ok", None,
            IF table.active[c.id] = c.put THEN [table EXCEPT !.active[c.id] = None] ELSE table)

\* Another session issues or revokes a key.
ElsewhereInKeys ==
    /\ faults < MaxFaults
    /\ faults' = faults + 1
    /\ \E d \in table.devices :
        \/ /\ table.active[d] = None
           /\ \E k \in Keys \ table.used : table' = Issue(d, k)
           /\ UNCHANGED doubt
        \/ /\ table.active[d] # None
           /\ table' = [table EXCEPT !.active[d] = None]
           /\ doubt' = doubt \cup {table.active[d]}
    /\ UNCHANGED <<page, view, calls>>

(***************************************************************************)
(* The screen                                                              *)
(***************************************************************************)
KeyTableInit ==
    /\ table \in {t \in KeyServer :
                    /\ t.used = {t.active[d] : d \in Ids} \ {None}
                    /\ \A d \in Ids : t.active[d] # None =>
                          /\ d \in t.devices
                          /\ \A e \in Ids \ {d} : t.active[e] # t.active[d]}
    /\ view = [loading |-> TRUE, rows |-> NoRows, devices |-> {},
               createOpen |-> FALSE, issued |-> None, menu |-> FALSE, picked |-> None,
               target |-> None, targetKey |-> None, tangled |-> FALSE, strayed |-> {},
               said |-> "none"]
    /\ calls = {LoadKeys, LoadKeyDevices}

KeyTableServer ==
    \E c \in calls : Unserved(c) /\
        \/ c.op \in {"list", "refresh"} /\ ServeKeyList(c) /\ UNCHANGED doubt
        \/ c.op = "devices" /\ ServeKeyDevices(c) /\ UNCHANGED doubt
        \/ c.op = "issue" /\ ServeIssue(c) /\ UNCHANGED doubt
        \/ c.op = "revoke" /\ ServeRevoke(c) /\ UNCHANGED doubt
        \/ Refuse(c)

KeyTableAnswers ==
    \E c \in calls : Answered(c) /\
        \/ c.op = "list" /\ KeysLoaded(c)
        \/ c.op = "refresh" /\ KeysRefreshed(c)
        \/ c.op = "devices" /\ KeyDevicesLoaded(c)
        \/ c.op = "issue" /\ KeyIssued(c)
        \/ c.op = "revoke" /\ KeyRevoked(c)

KeyTableVisitor ==
    \/ OpenCreateKey \/ CloseCreateKey \/ ToggleMenu \/ IssueKey \/ CopyKey \/ SavedKey
    \/ CloseRevoke \/ RevokeKey
    \/ \E d \in Ids : PickDevice(d) \/ OpenRevoke(d)
=============================================================================
