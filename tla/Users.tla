-------------------------------- MODULE Users --------------------------------
(***************************************************************************)
(* The users service of the backend: the `users` table, the Authula        *)
(* identities and credentials behind it, and the HTTP requests that read   *)
(* and write both.  A request is a goroutine; it runs one database         *)
(* statement per action, so every interleaving of the statements of        *)
(* concurrent requests is a behaviour.                                     *)
(***************************************************************************)
CONSTANTS
    Emails,              \* addresses people register with
    NoEmail,             \* placeholder in a request slot that was never used
    Requests,            \* slots for requests in flight
    Ops,                 \* the kinds of request a run exercises
    AuthulaSharesTable,  \* TRUE: Authula inserts into the app's own `users` table
    CanFail              \* TRUE: statements fail, clients leave, the process restarts

AllOps == {"hook", "me", "getMe", "create", "update", "passwd", "delete"}

ASSUME UsersAssumption ==
    /\ NoEmail \notin Emails
    /\ Ops \subseteq AllOps
    /\ AuthulaSharesTable \in BOOLEAN
    /\ CanFail \in BOOLEAN

VARIABLES
    users,       \* the `users` table, one row per email (UNIQUE, never removed)
    authula,     \* emails Authula has an identity for
    credential,  \* the password behind each email in Authula's accounts table
    session,     \* emails whose session cookie Authula accepts
    handed,      \* emails whose temporary password reached the admin in a 201
    req          \* the requests in flight

vars == <<users, authula, credential, session, handed, req>>

-----------------------------------------------------------------------------
(* The tables. *)

Roles == {"none", "user", "super_admin"}       \* "none": there is no row
Row == [role : Roles, mustChange : BOOLEAN, deleted : BOOLEAN, edited : BOOLEAN]
NoRow == [role |-> "none", mustChange |-> FALSE, deleted |-> FALSE, edited |-> FALSE]

NewRow(role, mustChange) ==
    [role |-> role, mustChange |-> mustChange, deleted |-> FALSE, edited |-> FALSE]

Exists(e) == users[e].role # "none"
Active_Mutant(e) == Exists(e)                   \* deleted_at IS NULL forgotten
Active(e) == Exists(e) /\ ~users[e].deleted
SuperAdminRow(e) == users[e].role = "super_admin"

\* CountUsers = 0 and HasSuperAdmin look at active rows only ...
NoActiveUsers == \A e \in Emails : ~Active(e)
HasSuperAdmin == \E e \in Emails : Active(e) /\ SuperAdminRow(e)

\* Mutant: the partial index filtered by deleted_at as well.
SuperAdminTaken_Mutant(e) == \E o \in Emails \ {e} : Active(o) /\ SuperAdminRow(o)

\* ... idx_users_one_super_admin at every row, deleted ones included.
SuperAdminTaken(e) == \E o \in Emails \ {e} : SuperAdminRow(o)

\* INSERT INTO users: refused by UNIQUE(email) or by the partial index.
InsertRefused(e, role) ==
    \/ Exists(e)
    \/ role = "super_admin" /\ SuperAdminTaken(e)

\* Mutant: created rows never have to change their password.
FirstUserRow_Mutant == NewRow(IF HasSuperAdmin THEN "user" ELSE "super_admin", FALSE)

\* The first-user rule shared by CreateUser and GetOrCreate.
FirstUserRow == IF HasSuperAdmin THEN NewRow("user", TRUE) ELSE NewRow("super_admin", FALSE)

Passwords == {"none", "temp", "own"}

\* Authula's user insert: role and must_change_password take the SQL defaults.
AuthulaInsert(e) ==
    /\ authula' = authula \cup {e}
    /\ users' = IF AuthulaSharesTable
                THEN [users EXCEPT ![e] = NewRow("user", TRUE)]
                ELSE users

\* A temporary password is 128 random bits: only the 201 that carries it reveals it.
PasswordKnown(e) ==
    \/ credential[e] = "own"
    \/ credential[e] = "temp" /\ e \in handed

-----------------------------------------------------------------------------
(* Requests. *)

GetOrCreateSteps == {"getByEmail", "promoteCheck", "promote", "createCheck", "insert"}
HandlerSteps == {"createUser", "authulaUser", "authulaAccount", "insertCreated",
                 "update", "verify", "writePassword", "clearFlag",
                 "checkRequester", "softDelete"}
Steps == {"idle", "countUsers", "authenticate", "dispatch"}
             \cup GetOrCreateSteps \cup HandlerSteps
Statuses == {"none", "ok", "unauthorized", "not_initialized", "must_change",
             "forbidden", "not_found", "conflict", "invalid", "error"}

Request ==
    [pc : Steps, op : AllOps, actor : Emails \cup {NoEmail}, target : Emails \cup {NoEmail},
     row : Row,              \* the row as it was read, or is about to be inserted
     status : Statuses,
     late : BOOLEAN]         \* history: the actor's row was already deleted on arrival

\* Mutant: the id in the path is not kept.
NewRequest_Mutant(pc, op, e, t) ==
    [pc |-> pc, op |-> op, actor |-> e, target |-> NoEmail, row |-> NoRow,
     status |-> "none", late |-> users[e].deleted]

NewRequest(pc, op, e, t) ==
    [pc |-> pc, op |-> op, actor |-> e, target |-> t, row |-> NoRow,
     status |-> "none", late |-> users[e].deleted]

\* A slot with no request in it, and the status of the last response it sent.
Done(status) == [pc |-> "idle", op |-> "me", actor |-> NoEmail, target |-> NoEmail,
                 row |-> NoRow, status |-> status, late |-> FALSE]

At(r, pc) == req[r].pc = pc
Goto(r, pc) == req' = [req EXCEPT ![r].pc = pc]
Hold(r, pc, row) == req' = [req EXCEPT ![r] = [@ EXCEPT !.pc = pc, !.row = row]]

Reply(r, status) == req' = [req EXCEPT ![r] = Done(status)]

\* GetOrCreate returned a row: the hook is done, AuthSession stores the row in the
\* request's locals, where the gates and the handler read it from then on.
Admit(r, row) == IF req[r].op = "hook" THEN Reply(r, "ok") ELSE Hold(r, "dispatch", row)

\* GetOrCreate failed: AuthSession answers 401 whatever the error was.
Reject(r) == Reply(r, "unauthorized")

Init ==
    /\ users = [e \in Emails |-> NoRow]
    /\ authula = {}
    /\ credential = [e \in Emails |-> "none"]
    /\ session = {}
    /\ handed = {}
    /\ req = [r \in Requests |-> Done("none")]

tables == <<users, authula, credential>>
unmoved == <<session, handed>>

-----------------------------------------------------------------------------
(* Authula's own endpoints (external), and the sign-up hook they trigger. *)

\* POST /api/auth/email-password/sign-up: identity, account and session, then the
\* SignupMirrorHook runs GetOrCreate inside the same request.
SignUp(r) ==
    /\ At(r, "idle")
    /\ "hook" \in Ops
    /\ \E e \in Emails :
        /\ e \notin authula
        /\ AuthulaInsert(e)
        /\ credential' = [credential EXCEPT ![e] = "own"]
        /\ session' = session \cup {e}
        /\ req' = [req EXCEPT ![r] = NewRequest("getByEmail", "hook", e, e)]
    /\ UNCHANGED handed

\* OAuth2 callback: identity on first use, no password, no hook.
OAuthSignIn(e) ==
    /\ e \notin session
    /\ session' = session \cup {e}
    /\ IF e \in authula THEN UNCHANGED <<users, authula>> ELSE AuthulaInsert(e)
    /\ UNCHANGED <<credential, handed, req>>

\* POST /api/auth/email-password/sign-in; Authula knows nothing of deleted_at.
PasswordSignIn(e) ==
    /\ e \notin session
    /\ PasswordKnown(e)
    /\ session' = session \cup {e}
    /\ UNCHANGED <<tables, handed, req>>

\* Sign-out (errors ignored, the cookie is cleared) or expiry of the session.
EndSession(e) ==
    /\ e \in session
    /\ session' = session \ {e}
    /\ UNCHANGED <<tables, handed, req>>

-----------------------------------------------------------------------------
(* The middleware chain. *)

\* A request arrives with e's cookie; /api/auth/me is outside RequireInitialized.
Receive(r) ==
    /\ At(r, "idle")
    /\ \E op \in Ops \ {"hook"}, e \in session, t \in Emails :
        /\ op \in {"create", "delete", "update"} \/ t = e
        /\ req' = [req EXCEPT ![r] =
                     NewRequest(IF op = "me" THEN "authenticate" ELSE "countUsers", op, e, t)]
    /\ UNCHANGED <<tables, unmoved>>

RequireInitialized(r) ==
    /\ At(r, "countUsers")
    /\ IF NoActiveUsers THEN Reply(r, "not_initialized") ELSE Goto(r, "authenticate")
    /\ UNCHANGED <<tables, unmoved>>

\* The session is looked up, then the identity behind it, which is never removed.
Authenticate(r) ==
    /\ At(r, "authenticate")
    /\ IF req[r].actor \in session THEN Goto(r, "getByEmail") ELSE Reject(r)
    /\ UNCHANGED <<tables, unmoved>>

\* GetOrCreate: GetByEmail sees active rows only.
GetByEmail(r) ==
    LET e == req[r].actor IN
    /\ At(r, "getByEmail")
    /\ IF Active(e) THEN Hold(r, "promoteCheck", users[e]) ELSE Goto(r, "createCheck")
    /\ UNCHANGED <<tables, unmoved>>

\* Mutant: the first-user rule applied to inserted rows only.
PromoteCheck_Mutant(r) ==
    /\ At(r, "promoteCheck")
    /\ Admit(r, req[r].row)
    /\ UNCHANGED <<tables, unmoved>>

\* promoteIfFirstUser: HasSuperAdmin, and the role of the row read before.
PromoteCheck(r) ==
    /\ At(r, "promoteCheck")
    /\ IF HasSuperAdmin \/ req[r].row.role = "super_admin"
       THEN Admit(r, req[r].row)
       ELSE Goto(r, "promote")
    /\ UNCHANGED <<tables, unmoved>>

\* UPDATE ... SET role = 'super_admin', must_change_password = FALSE WHERE active.
PromoteToSuperAdmin(r) ==
    LET e == req[r].actor
        row == [users[e] EXCEPT !.role = "super_admin", !.mustChange = FALSE]
    IN
    /\ At(r, "promote")
    /\ IF Active(e) /\ ~SuperAdminTaken(e)
       THEN users' = [users EXCEPT ![e] = row] /\ Admit(r, row)
       ELSE Reject(r) /\ UNCHANGED users
    /\ UNCHANGED <<authula, credential, unmoved>>

\* GetOrCreate without an active row: HasSuperAdmin picks role and flag ...
CreateCheck(r) ==
    /\ At(r, "createCheck")
    /\ Hold(r, "insert", FirstUserRow)
    /\ UNCHANGED <<tables, unmoved>>

\* ... and a later statement inserts; a unique violation becomes ErrUnauthorized.
InsertUser(r) ==
    LET e == req[r].actor  row == req[r].row IN
    /\ At(r, "insert")
    /\ IF InsertRefused(e, row.role)
       THEN Reject(r) /\ UNCHANGED users
       ELSE users' = [users EXCEPT ![e] = row] /\ Admit(r, row)
    /\ UNCHANGED <<authula, credential, unmoved>>

-----------------------------------------------------------------------------
(* The gates that follow AuthSession on each route, and the first step of  *)
(* the handler behind them.                                                *)

Ungated == {"me", "passwd"}                   \* routes without RequirePasswordChanged

PasswordGate(r) == req[r].op \notin Ungated => ~req[r].row.mustChange
RoleGate(r) == req[r].op = "create" => req[r].row.role = "super_admin"
OwnProfile(r) == req[r].op = "update" => req[r].target = req[r].actor

FirstStep == [create |-> "createUser", update |-> "update",
              passwd |-> "verify", delete |-> "checkRequester"]

Dispatch(r) ==
    LET op == req[r].op IN
    /\ At(r, "dispatch")
    /\ \/ ~PasswordGate(r) /\ Reply(r, "must_change")
       \/ PasswordGate(r) /\ ~(RoleGate(r) /\ OwnProfile(r)) /\ Reply(r, "forbidden")
       \/ /\ PasswordGate(r) /\ RoleGate(r) /\ OwnProfile(r)
          /\ \/ op \in {"me", "getMe"} /\ Reply(r, "ok")
             \/ op \in DOMAIN FirstStep /\ Goto(r, FirstStep[op])
    /\ UNCHANGED <<tables, unmoved>>

-----------------------------------------------------------------------------
(* POST /api/v1/users (UsersHandler.Create, Service.CreateUser). *)

CreateUser(r) ==
    /\ At(r, "createUser")
    /\ Hold(r, "authulaUser", FirstUserRow)
    /\ UNCHANGED <<tables, unmoved>>

\* CreateUserWithPassword, first half: the Authula user.
CreateAuthulaUser(r) ==
    LET t == req[r].target IN
    /\ At(r, "authulaUser")
    /\ IF t \in authula
       THEN Reply(r, "error") /\ UNCHANGED <<users, authula>>
       ELSE /\ AuthulaInsert(t)
            /\ Goto(r, "authulaAccount")
    /\ UNCHANGED <<credential, unmoved>>

\* Second half: the account with the generated temporary password.
CreateAuthulaAccount(r) ==
    /\ At(r, "authulaAccount")
    /\ credential' = [credential EXCEPT ![req[r].target] = "temp"]
    /\ Goto(r, "insertCreated")
    /\ UNCHANGED <<users, authula, unmoved>>

InsertCreated(r) ==
    LET t == req[r].target  row == req[r].row IN
    /\ At(r, "insertCreated")
    /\ IF InsertRefused(t, row.role)
       THEN Reply(r, "conflict") /\ UNCHANGED <<users, handed>>
       ELSE /\ users' = [users EXCEPT ![t] = row]
            /\ Reply(r, "ok")
            /\ handed' \in {handed, handed \cup {t}}      \* the response can be lost
    /\ UNCHANGED <<authula, credential, session>>

-----------------------------------------------------------------------------
(* PUT /api/v1/users/:id. *)

\* Mutant: an UPDATE that reaches deleted rows.
UpdateUser_Mutant(r) ==
    /\ At(r, "update")
    /\ users' = [users EXCEPT ![req[r].target].edited = TRUE]
    /\ Reply(r, "ok")
    /\ UNCHANGED <<authula, credential, unmoved>>

UpdateUser(r) ==
    LET e == req[r].target IN
    /\ At(r, "update")
    /\ IF Active(e)
       THEN users' = [users EXCEPT ![e].edited = TRUE] /\ Reply(r, "ok")
       ELSE Reply(r, "not_found") /\ UNCHANGED users
    /\ UNCHANGED <<authula, credential, unmoved>>

-----------------------------------------------------------------------------
(* POST /api/v1/auth/change-password: the account is read and verified,    *)
(* then written, then the flag in `users` is cleared.                      *)

VerifyOldPassword(r) ==
    /\ At(r, "verify")
    /\ \/ PasswordKnown(req[r].actor) /\ Goto(r, "writePassword")
       \/ Reply(r, "invalid")                 \* no account, or a wrong password
    /\ UNCHANGED <<tables, unmoved>>

WritePassword(r) ==
    /\ At(r, "writePassword")
    /\ credential' = [credential EXCEPT ![req[r].actor] = "own"]
    /\ Goto(r, "clearFlag")
    /\ UNCHANGED <<users, authula, unmoved>>

ClearMustChange(r) ==
    LET e == req[r].actor IN
    /\ At(r, "clearFlag")
    /\ users' = IF Active(e) THEN [users EXCEPT ![e].mustChange = FALSE] ELSE users
    /\ Reply(r, "ok")
    /\ UNCHANGED <<authula, credential, unmoved>>

-----------------------------------------------------------------------------
(* DELETE /api/v1/users/:id: the requester is read again, then the target  *)
(* is marked; nothing looks at the target's role.                          *)

\* Mutant: any active user may delete any other.
CheckRequester_Mutant(r) ==
    /\ At(r, "checkRequester")
    /\ IF Active(req[r].actor) THEN Goto(r, "softDelete") ELSE Reply(r, "not_found")
    /\ UNCHANGED <<tables, unmoved>>

CheckRequester(r) ==
    LET e == req[r].actor IN
    /\ At(r, "checkRequester")
    /\ \/ ~Active(e) /\ Reply(r, "not_found")
       \/ Active(e) /\ ~SuperAdminRow(e) /\ e # req[r].target /\ Reply(r, "forbidden")
       \/ /\ Active(e)
          /\ SuperAdminRow(e) \/ e = req[r].target
          /\ Goto(r, "softDelete")
    /\ UNCHANGED <<tables, unmoved>>

SoftDeleteUser(r) ==
    LET t == req[r].target IN
    /\ At(r, "softDelete")
    /\ users' = IF Active(t) THEN [users EXCEPT ![t].deleted = TRUE] ELSE users
    /\ Reply(r, "ok")
    /\ UNCHANGED <<authula, credential, unmoved>>

-----------------------------------------------------------------------------
(* Failures: any statement can fail, the client can go away, the process   *)
(* can restart.  What was written stays written.                           *)

Fail(r) ==
    /\ req[r].pc # "idle"
    /\ CanFail
    /\ \/ Reply(r, "error")
       \/ At(r, "countUsers") /\ Goto(r, "authenticate")   \* the gate lets it through
    /\ UNCHANGED <<tables, unmoved>>

-----------------------------------------------------------------------------
Admission(r) ==
    \/ RequireInitialized(r) \/ Authenticate(r) \/ GetByEmail(r)
    \/ PromoteCheck(r) \/ PromoteToSuperAdmin(r)
    \/ CreateCheck(r) \/ InsertUser(r) \/ Dispatch(r)

Handler(r) ==
    \/ CreateUser(r) \/ CreateAuthulaUser(r) \/ CreateAuthulaAccount(r) \/ InsertCreated(r)
    \/ UpdateUser(r)
    \/ VerifyOldPassword(r) \/ WritePassword(r) \/ ClearMustChange(r)
    \/ CheckRequester(r) \/ SoftDeleteUser(r)

RequestStep(r) == Admission(r) \/ Handler(r)

Next ==
    \/ \E r \in Requests : SignUp(r) \/ Receive(r) \/ RequestStep(r) \/ Fail(r)
    \/ \E e \in Emails : OAuthSignIn(e) \/ PasswordSignIn(e) \/ EndSession(e)

Spec == Init /\ [][Next]_vars

\* A goroutine that was started keeps running; clients are not fair.
FairSpec == Spec /\ \A r \in Requests : WF_vars(RequestStep(r))
-----------------------------------------------------------------------------
(* What the service promises. *)

TypeOK ==
    /\ users \in [Emails -> Row]
    /\ authula \subseteq Emails
    /\ credential \in [Emails -> Passwords]
    /\ session \subseteq Emails
    /\ handed \subseteq Emails
    /\ req \in [Requests -> Request]
    /\ \A r \in Requests : ~At(r, "idle") => req[r].actor \in Emails /\ req[r].target \in Emails

Admitted(r) == req[r].pc \in {"dispatch"} \cup HandlerSteps
PastGate(r) == /\ req[r].op \notin Ungated
               /\ req[r].pc \in HandlerSteps \/ (At(r, "dispatch") /\ PasswordGate(r))

\* The first-user rule under concurrency: nobody is served, whatever way his row was
\* made and however the first sign-ups interleave, before some row holds super_admin;
\* and never do two rows hold it.
OneSuperAdminBeforeService ==
    /\ \A e, o \in Emails : SuperAdminRow(e) /\ SuperAdminRow(o) => e = o
    /\ (\E r \in Requests : Admitted(r)) => \E e \in Emails : SuperAdminRow(e)

\* RequirePasswordChanged judges a copy of the row made earlier in the request; still it
\* lets nobody through, and no handler behind it runs, for somebody whose password is the
\* temporary one an admin gave him.
TempPasswordNeverServed ==
    \A r \in Requests : PastGate(r) => credential[req[r].actor] # "temp"

\* A request that arrives after its sender's row was deleted is never admitted: no path
\* of GetOrCreate revives a tombstone or inserts beside it.
DeletedNeverAdmitted ==
    \A r \in Requests : req[r].late => ~Admitted(r)

\* A tombstone is final, whatever a request that read the row while it was alive still
\* writes: no promotion, no profile edit, no flag, no second life.
TombstonesFrozen ==
    [][\A e \in Emails : users[e].deleted => users'[e] = users[e]]_vars

\* A row goes only by the hand of its owner or of a super_admin, although the requester is
\* checked one statement before the target is marked and may himself be gone by then.
OnlyOwnerOrAdminDeletes ==
    [][\A e \in Emails :
         users'[e].deleted /\ ~users[e].deleted =>
            \E r \in Requests : /\ At(r, "softDelete") /\ req[r].target = e
                                /\ req[r].actor = e \/ SuperAdminRow(req[r].actor)]_vars

\* A sign-up whose statements succeed never ends without a super_admin, however it
\* interleaves with other sign-ups, deletions and failures: by its own promotion or
\* insert, or because whoever made it lose the race was one (SignupMirrorHook, GetOrCreate).
SignUpElects ==
    [][\A r \in Requests :
         /\ req[r].op = "hook" /\ ~At(r, "idle")
         /\ RequestStep(r) /\ At(r, "idle")'
         => \E e \in Emails : SuperAdminRow(e)']_vars

\* The abstract directory the tables implement: the role, once given, stays where it is,
\* and addresses go from absent to active to deleted and never back.
Standing == [e \in Emails |-> IF ~Exists(e) THEN "absent"
                              ELSE IF users[e].deleted THEN "deleted" ELSE "active"]
Admin == IF \E e \in Emails : SuperAdminRow(e)
         THEN CHOOSE e \in Emails : SuperAdminRow(e)
         ELSE NoEmail
Directory == INSTANCE UserDirectory WITH standing <- Standing, admin <- Admin
ImplementsDirectory == Directory!DirSpec

\* The first sign-up, or the one it loses the race to, makes a super_admin: the mirror
\* hook never ends without one if its statements succeed.
FirstSignUpElects ==
    \A r \in Requests :
        (req[r].op = "hook" /\ ~At(r, "idle")) ~> (\E e \in Emails : SuperAdminRow(e))
-----------------------------------------------------------------------------
(* What docs and comments say and the code does not do. *)

\* docs/db/enums.md: the super_admin user cannot be soft-deleted.
SuperAdminNotSoftDeleted ==
    \A e \in Emails : SuperAdminRow(e) => ~users[e].deleted

\* POST /users: 409 means the email was taken, so nothing was provisioned for it.
ConflictProvisionsNothing ==
    [][\A r \in Requests :
         At(r, "insertCreated") => req'[r].status # "conflict"]_vars
=============================================================================
