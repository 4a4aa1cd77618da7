----------------------------- MODULE DeviceTable -----------------------------
(***************************************************************************)
(* The devices page: useDeviceService's list and the DeviceTable island    *)
(* with its inline edit, its create modal and its delete modal.  The      *)
(* vehicle type, the inline error texts and the rows' order are left out. *)
(***************************************************************************)
EXTENDS Browser

DeviceView ==
    [loading : BOOLEAN,                         \* the hook's isLoading
     rows : [Ids -> Names \cup {None}],         \* the hook's devices
     createOpen : BOOLEAN,
     editing : Ids \cup {None}, draft : Names \cup {None},
     target : Ids \cup {None},                  \* deleteTarget
     targetName : Names \cup {None},            \* its name when it was chosen
     typed : Names \cup {None},
     vetted : BOOLEAN,   \* history: the name was typed into this dialog
     said : {"none", "failed", "created", "updated", "deleted"}] \* last toast

(***************************************************************************)
(* What is rendered                                                        *)
(***************************************************************************)
DeviceTableShown == page = "devices" /\ ~TableStatus(view.loading, view.rows)

DeviceForm_Mutant(saving) == {"submit", "cancel"}

DeviceForm(saving) == Button("submit", saving) \cup Button("cancel", saving)

DeviceCreateModal ==
    IF DeviceTableShown
    THEN Modal(view.createOpen) \cup (IF view.createOpen THEN DeviceForm(view.loading) ELSE {})
    ELSE {}

DeviceDeleteModal_Mutant ==
    IF DeviceTableShown
    THEN ConfirmActionModal(view.target # None, view.loading, TRUE, view.typed # None)
    ELSE {}

DeviceDeleteModal ==
    IF DeviceTableShown
    THEN ConfirmActionModal(view.target # None, view.loading, TRUE,
                            view.typed = view.targetName)
    ELSE {}

\* An open modal's backdrop covers the toolbar and the rows.
DevicePageClickable == DeviceTableShown /\ ~view.createOpen /\ view.target = None

DeviceTableRow(d) ==
    IF view.editing = d
    THEN Input(view.loading) \cup Button("save", view.loading) \cup Button("cancel", view.loading)
    ELSE Button("edit", FALSE) \cup Button("delete", FALSE)

DeviceMobileCard(d) ==
    IF view.editing = d
    THEN Input(view.loading) \cup Button("save", view.loading) \cup Button("cancel", view.loading)
    ELSE Button("edit", FALSE) \cup Button("delete", FALSE)

\* A row is a table row or, on a narrow screen, a card.
DeviceRow(d) ==
    IF DevicePageClickable /\ d \in DataTable(view.rows)
    THEN DeviceTableRow(d) \cup DeviceMobileCard(d) ELSE {}

(***************************************************************************)
(* Handlers up to their first await                                        *)
(***************************************************************************)
\* The mount effect.
LoadDevices == Message("list", None, None, 1)

OpenCreateDevice ==
    /\ DevicePageClickable
    /\ Touch([view EXCEPT !.createOpen = TRUE])

CloseCreateDevice ==
    /\ DeviceCreateModal \cap {"close", "cancel"} # {}
    /\ Touch([view EXCEPT !.createOpen = FALSE])

\* createDevice keeps the rows of the render that submitted (`...devices`).
CreateDevice(n) ==
    /\ "submit" \in DeviceCreateModal
    /\ Send([Request("create", None, n) EXCEPT !.seen = view.rows],
            [view EXCEPT !.loading = TRUE])

StartEdit(d) ==
    /\ "edit" \in DeviceRow(d)
    /\ Touch([view EXCEPT !.editing = d, !.draft = view.rows[d]])

NoEdit(v) == [v EXCEPT !.editing = None, !.draft = None]

CancelEdit ==
    /\ \E d \in Ids : view.editing = d /\ "cancel" \in DeviceRow(d)
    /\ Touch(NoEdit(view))

TypeEditName(n) ==
    /\ \E d \in Ids : "type" \in DeviceRow(d)
    /\ Touch([view EXCEPT !.draft = n])

\* An empty name only sets the inline error.
SaveEdit(d) ==
    /\ "save" \in DeviceRow(d)
    /\ view.draft # None
    /\ Send(Request("update", d, view.draft), [view EXCEPT !.loading = TRUE])

StartDeleteDevice(d) ==
    /\ "delete" \in DeviceRow(d)
    /\ Touch([view EXCEPT !.target = d, !.targetName = view.rows[d], !.typed = None,
                          !.vetted = FALSE])

NoDelete(v) ==
    [v EXCEPT !.target = None, !.targetName = None, !.typed = None, !.vetted = FALSE]

CloseDeleteDevice ==
    /\ DeviceDeleteModal \cap {"close", "cancel"} # {}
    /\ Touch(NoDelete(view))

TypeDeviceName(n) ==
    /\ "type" \in DeviceDeleteModal
    /\ Touch([view EXCEPT !.typed = n, !.vetted = (n = view.targetName)])

ConfirmDeleteDevice ==
    /\ "confirm" \in DeviceDeleteModal
    /\ Send([Request("delete", view.target, None) EXCEPT !.vetted = view.vetted],
            [view EXCEPT !.loading = TRUE])

\* One key press reaches every listener: the modals' and the inline edit's.
DeviceEscape ==
    /\ page = "devices"
    /\ DeviceTableShown \/ view.editing # None
    /\ LET modals == IF DeviceTableShown THEN NoDelete([view EXCEPT !.createOpen = FALSE])
                                         ELSE view
       IN Touch(NoEdit(modals))

(***************************************************************************)
(* Their continuations                                                     *)
(***************************************************************************)
Idle(v) == [v EXCEPT !.loading = FALSE]

DevicesLoaded_Mutant(c) ==
    \/ /\ c.reply # "lost"
       /\ Finish(c, [Idle(view) EXCEPT !.rows = c.data], {})
    \/ /\ c.reply = "lost"
       /\ Finish(c, [Idle(view) EXCEPT !.said = "failed"], Ids)

DevicesLoaded(c) ==
    \/ /\ c.reply = "ok"
       /\ Finish(c, [Idle(view) EXCEPT !.rows = c.data], {})
    \/ /\ c.reply # "ok"
       /\ Finish(c, [Idle(view) EXCEPT !.said = "failed"], Ids)

DeviceCreated_Mutant(c) ==
    \/ /\ c.reply = "ok"
       /\ Finish(c, [Idle(view) EXCEPT !.rows = [NoRows EXCEPT ![c.data] = c.put],
                                       !.createOpen = FALSE, !.said = "created"], {})
    \/ /\ c.reply # "ok"
       /\ Finish(c, [Idle(view) EXCEPT !.said = "failed"], {c.data} \ {None})

DeviceCreated(c) ==
    \/ /\ c.reply = "ok"
       /\ Finish(c, [Idle(view) EXCEPT !.rows = [c.seen EXCEPT ![c.data] = c.put],
                                       !.createOpen = FALSE, !.said = "created"], {})
    \/ /\ c.reply # "ok"
       /\ Finish(c, [Idle(view) EXCEPT !.said = "failed"], {c.data} \ {None})

DeviceUpdated(c) ==
    \/ /\ c.reply = "ok"
       /\ Finish(c, [NoEdit(Idle(view)) EXCEPT
                        !.rows[c.id] = IF @ = None THEN None ELSE c.data,
                        !.said = "updated"], {})
    \/ /\ c.reply # "ok"
       /\ Finish(c, [Idle(view) EXCEPT !.said = "failed"],
                 IF c.reply = "lost" THEN {c.id} ELSE {})

\* A refused DELETE resolves like a served one.
DeviceDeleted(c) ==
    \/ /\ c.reply # "lost"
       /\ Finish(c, [NoDelete(Idle(view)) EXCEPT !.rows[c.id] = None, !.said = "deleted"],
                 IF c.reply = "refused" THEN {c.id} ELSE {})
    \/ /\ c.reply = "lost"
       /\ Finish(c, [Idle(view) EXCEPT !.said = "failed"], {c.id})

(***************************************************************************)
(* The screen                                                              *)
(***************************************************************************)
DeviceTableInit ==
    /\ table \in [Ids -> Names \cup {"unborn"}]
    /\ view = [loading |-> TRUE, rows |-> NoRows, createOpen |-> FALSE,
               editing |-> None, draft |-> None,
               target |-> None, targetName |-> None, typed |-> None,
               vetted |-> FALSE, said |-> "none"]
    /\ calls = {LoadDevices}

DeviceTableServer ==
    \E c \in calls : Unserved(c) /\
        \/ c.op = "list" /\ ServePage(c)
        \/ c.op = "create" /\ ServeCreate(c)
        \/ c.op = "update" /\ ServeUpdate(c)
        \/ c.op = "delete" /\ ServeDelete(c)
        \/ Refuse(c)

DeviceTableAnswers ==
    \E c \in calls : Answered(c) /\
        \/ c.op = "list" /\ DevicesLoaded(c)
        \/ c.op = "create" /\ DeviceCreated(c)
        \/ c.op = "update" /\ DeviceUpdated(c)
        \/ c.op = "delete" /\ DeviceDeleted(c)

DeviceTableVisitor ==
    \/ OpenCreateDevice \/ CloseCreateDevice
    \/ CancelEdit \/ CloseDeleteDevice \/ ConfirmDeleteDevice \/ DeviceEscape
    \/ \E n \in Names : CreateDevice(n) \/ TypeEditName(n) \/ TypeDeviceName(n)
    \/ TypeEditName(None)
    \/ \E d \in Ids : StartEdit(d) \/ SaveEdit(d) \/ StartDeleteDevice(d)
=============================================================================
