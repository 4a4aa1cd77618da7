------------------------------ MODULE UserTable ------------------------------
(***************************************************************************)
(* The users page: useUserService and the UserTable island with its create *)
(* modal and its delete modal.  A row's name stands for the full name; the *)
(* inline error texts and the rows' order are left out.                   *)
(***************************************************************************)
EXTENDS Browser

UserView ==
    [loading : BOOLEAN,                         \* the hook's isLoading
     rows : [Ids -> Names \cup {None}],         \* the hook's users
     createOpen : BOOLEAN,
     target : Ids \cup {None},                  \* deleteTarget
     targetName : Names \cup {None},            \* its name when it was chosen
     typed : Names \cup {None},
     vetted : BOOLEAN,   \* history: the name was typed into this dialog
     said : {"none", "failed", "created", "deleted"}]        \* last toast

(***************************************************************************)
(* What is rendered                                                        *)
(***************************************************************************)
UserTableShown == page = "users" /\ ~TableStatus(view.loading, view.rows)

CreateUserForm(saving) == Button("submit", saving) \cup Button("cancel", saving)

UserCreateModal ==
    IF UserTableShown
    THEN Modal(view.createOpen) \cup
         (IF view.createOpen THEN CreateUserForm(view.loading) ELSE {})
    ELSE {}

UserDeleteModal ==
    IF UserTableShown
    THEN ConfirmActionModal(view.target # None, view.loading, TRUE,
                            view.typed = view.targetName)
    ELSE {}

UserPageClickable == UserTableShown /\ ~view.createOpen /\ view.target = None

\* Neither looks at isLoading.
UserTableRow == Button("delete", FALSE)
UserMobileCard == Button("delete", FALSE)

UserRow(u) ==
    IF UserPageClickable /\ u \in DataTable(view.rows) THEN UserTableRow \cup UserMobileCard ELSE {}

(***************************************************************************)
(* Handlers up to their first await                                        *)
(***************************************************************************)
\* The mount effect.
LoadUsers == Message("list", None, None, 1)

OpenCreateUser ==
    /\ UserPageClickable
    /\ Touch([view EXCEPT !.createOpen = TRUE])

CloseCreateUser ==
    /\ UserCreateModal \cap {"close", "cancel"} # {}
    /\ Touch([view EXCEPT !.createOpen = FALSE])

\* createUser keeps the rows of the render that submitted (`...users`).
CreateUser(n) ==
    /\ "submit" \in UserCreateModal
    /\ Send([Request("create", None, n) EXCEPT !.seen = view.rows],
            [view EXCEPT !.loading = TRUE])

StartDeleteUser(u) ==
    /\ "delete" \in UserRow(u)
    /\ Touch([view EXCEPT !.target = u, !.targetName = view.rows[u], !.typed = None,
                          !.vetted = FALSE])

CancelDelete(v) ==
    [v EXCEPT !.target = None, !.targetName = None, !.typed = None, !.vetted = FALSE]

CloseDeleteUser ==
    /\ UserDeleteModal \cap {"close", "cancel"} # {}
    /\ Touch(CancelDelete(view))

TypeUserName(n) ==
    /\ "type" \in UserDeleteModal
    /\ Touch([view EXCEPT !.typed = n, !.vetted = (n = view.targetName)])

ConfirmDeleteUser ==
    /\ "confirm" \in UserDeleteModal
    /\ Send([Request("delete", view.target, None) EXCEPT !.vetted = view.vetted],
            [view EXCEPT !.loading = TRUE])

(***************************************************************************)
(* Their continuations                                                     *)
(***************************************************************************)
Settle(v) == [v EXCEPT !.loading = FALSE]

UsersLoaded(c) ==
    \/ /\ c.reply = "ok"
       /\ Finish(c, [Settle(view) EXCEPT !.rows = c.data], {})
    \/ /\ c.reply # "ok"
       /\ Finish(c, [Settle(view) EXCEPT !.said = "failed"], Ids)

UserCreated(c) ==
    \/ /\ c.reply = "ok"
       /\ Finish(c, [Settle(view) EXCEPT !.rows = [c.seen EXCEPT ![c.data] = c.put],
                                         !.createOpen = FALSE, !.said = "created"], {})
    \/ /\ c.reply # "ok"
       /\ Finish(c, [Settle(view) EXCEPT !.said = "failed"], {c.data} \ {None})

\* A refused DELETE resolves like a served one.
UserDeleted(c) ==
    \/ /\ c.reply # "lost"
       /\ Finish(c, [CancelDelete(Settle(view)) EXCEPT !.rows[c.id] = None,
                                                       !.said = "deleted"],
                 IF c.reply = "refused" THEN {c.id} ELSE {})
    \/ /\ c.reply = "lost"
       /\ Finish(c, [Settle(view) EXCEPT !.said = "failed"], {c.id})

(***************************************************************************)
(* The screen                                                              *)
(***************************************************************************)
UserTableInit ==
    /\ table \in [Ids -> Names \cup {"unborn"}]
    /\ view = [loading |-> TRUE, rows |-> NoRows, createOpen |-> FALSE,
               target |-> None, targetName |-> None,
               typed |-> None, vetted |-> FALSE, said |-> "none"]
    /\ calls = {LoadUsers}

UserTableServer ==
    \E c \in calls : Unserved(c) /\
        \/ c.op = "list" /\ ServeList(c)
        \/ c.op = "create" /\ ServeCreate(c)
        \/ c.op = "delete" /\ ServeDelete(c)
        \/ Refuse(c)

UserTableAnswers ==
    \E c \in calls : Answered(c) /\
        \/ c.op = "list" /\ UsersLoaded(c)
        \/ c.op = "create" /\ UserCreated(c)
        \/ c.op = "delete" /\ UserDeleted(c)

UserTableVisitor ==
    \/ OpenCreateUser \/ CloseCreateUser
    \/ CloseDeleteUser \/ ConfirmDeleteUser
    \/ \E n \in Names : CreateUser(n) \/ TypeUserName(n)
    \/ \E u \in Ids : StartDeleteUser(u)
=============================================================================
