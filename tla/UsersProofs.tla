----------------------------- MODULE UsersProofs -----------------------------
(***************************************************************************)
(* Proofs about Users, for every set of addresses and of request slots.    *)
(***************************************************************************)
EXTENDS Users, TLAPS

(* The part of TypeOK about requests, which every step of a request rewrites. *)
ReqOK == /\ req \in [Requests -> Request]
         /\ \A r \in Requests :
              ~At(r, "idle") => req[r].actor \in Emails /\ req[r].target \in Emails

LEMMA RowTypes ==
    /\ NoRow \in Row
    /\ \A m \in BOOLEAN : NewRow("user", m) \in Row /\ NewRow("super_admin", m) \in Row
    /\ \A row \in Row : /\ [row EXCEPT !.deleted = TRUE] \in Row
                        /\ [row EXCEPT !.edited = TRUE] \in Row
                        /\ [row EXCEPT !.mustChange = FALSE] \in Row
                        /\ [row EXCEPT !.role = "super_admin", !.mustChange = FALSE] \in Row
  BY DEF NoRow, NewRow, Row, Roles

LEMMA DoneType == ASSUME NEW status \in Statuses PROVE Done(status) \in Request
  BY RowTypes DEF Done, Request, Steps, AllOps

LEMMA GotoType ==
    ASSUME ReqOK, NEW r \in Requests, ~At(r, "idle"), NEW pc \in Steps, Goto(r, pc)
    PROVE  ReqOK'
<1>1. req' \in [Requests -> Request]
  BY DEF ReqOK, Goto, Request
<1>2. \A q \in Requests : req'[q].actor = req[q].actor /\ req'[q].target = req[q].target
  BY DEF ReqOK, Goto, Request
<1>3. \A q \in Requests : q # r => req'[q] = req[q]
  BY DEF ReqOK, Goto
<1> QED BY <1>1, <1>2, <1>3 DEF ReqOK, At

LEMMA HoldType ==
    ASSUME ReqOK, NEW r \in Requests, ~At(r, "idle"), NEW pc \in Steps, NEW row \in Row,
           Hold(r, pc, row)
    PROVE  ReqOK'
<1>1. [req[r] EXCEPT !.pc = pc, !.row = row] \in Request
  BY DEF ReqOK, Request
<1>2. req' = [req EXCEPT ![r] = [req[r] EXCEPT !.pc = pc, !.row = row]]
  BY DEF Hold
<1>3. req' \in [Requests -> Request]
  BY <1>1, <1>2 DEF ReqOK
<1>4. req'[r].actor = req[r].actor /\ req'[r].target = req[r].target
  BY <1>2 DEF ReqOK, Request
<1>5. \A q \in Requests : q # r => req'[q] = req[q]
  BY <1>2 DEF ReqOK
<1> QED BY <1>3, <1>4, <1>5 DEF ReqOK, At

LEMMA ReplyType ==
    ASSUME ReqOK, NEW r \in Requests, NEW status \in Statuses, Reply(r, status)
    PROVE  ReqOK'
<1>1. req' \in [Requests -> Request]
  BY DoneType DEF ReqOK, Reply
<1>2. req'[r].pc = "idle"
  BY DEF ReqOK, Reply, Done
<1>3. \A q \in Requests : q # r => req'[q] = req[q]
  BY DEF ReqOK, Reply
<1> QED BY <1>1, <1>2, <1>3 DEF ReqOK, At

LEMMA AdmitType ==
    ASSUME ReqOK, NEW r \in Requests, ~At(r, "idle"), NEW row \in Row, Admit(r, row)
    PROVE  ReqOK'
<1>1. "ok" \in Statuses /\ "dispatch" \in Steps
  BY DEF Statuses, Steps
<1> QED BY <1>1, HoldType, ReplyType DEF Admit

LEMMA NewRequestType ==
    ASSUME ReqOK, users \in [Emails -> Row], NEW r \in Requests, NEW pc \in Steps,
           NEW op \in AllOps, NEW e \in Emails, NEW t \in Emails,
           req' = [req EXCEPT ![r] = NewRequest(pc, op, e, t)]
    PROVE  ReqOK'
<1>1. users[e].deleted \in BOOLEAN
  BY DEF Row
<1>2. "none" \in Statuses
  BY DEF Statuses
<1>3. NewRequest(pc, op, e, t) \in Request
  BY <1>1, <1>2, RowTypes DEF NewRequest, Request
<1>4. req' \in [Requests -> Request]
  BY <1>3 DEF ReqOK
<1>5. req'[r].actor = e /\ req'[r].target = t
  BY DEF ReqOK, NewRequest
<1>6. \A q \in Requests : q # r => req'[q] = req[q]
  BY DEF ReqOK
<1> QED BY <1>4, <1>5, <1>6 DEF ReqOK, At

LEMMA InsertType ==
    ASSUME users \in [Emails -> Row], authula \subseteq Emails, NEW e \in Emails, AuthulaInsert(e)
    PROVE  users' \in [Emails -> Row] /\ authula' \subseteq Emails
  BY RowTypes DEF AuthulaInsert

-----------------------------------------------------------------------------
(* Type correctness. *)

TablesOK == /\ users \in [Emails -> Row]
            /\ authula \subseteq Emails
            /\ credential \in [Emails -> Passwords]
            /\ session \subseteq Emails
            /\ handed \subseteq Emails

LEMMA TypeSplit == TypeOK <=> TablesOK /\ ReqOK
  BY DEF TypeOK, TablesOK, ReqOK

LEMMA TypeInvariance == TypeOK /\ [Next]_vars => TypeOK'
<1> SUFFICES ASSUME TablesOK, ReqOK, [Next]_vars PROVE TablesOK' /\ ReqOK'
  BY TypeSplit, PTL
<1> USE UsersAssumption DEF At, tables, unmoved
<1> USE DEF Steps, GetOrCreateSteps, HandlerSteps, Statuses, Reject
<1>1. ASSUME NEW r \in Requests, SignUp(r) PROVE TablesOK' /\ ReqOK'
  <2> PICK e \in Emails : /\ AuthulaInsert(e)
                          /\ credential' = [credential EXCEPT ![e] = "own"]
                          /\ session' = session \cup {e}
                          /\ req' = [req EXCEPT ![r] = NewRequest("getByEmail", "hook", e, e)]
    BY <1>1 DEF SignUp
  <2>1. TablesOK'
    BY <1>1, InsertType DEF SignUp, TablesOK, Passwords
  <2>2. ReqOK'
    BY NewRequestType DEF TablesOK, AllOps
  <2> QED BY <2>1, <2>2
<1>2. ASSUME NEW r \in Requests, Receive(r) PROVE TablesOK' /\ ReqOK'
  <2>1. TablesOK'
    BY <1>2 DEF Receive, TablesOK
  <2>2. ReqOK'
    <3> PICK op \in Ops \ {"hook"}, e \in session, t \in Emails :
          req' = [req EXCEPT ![r] =
                    NewRequest(IF op = "me" THEN "authenticate" ELSE "countUsers", op, e, t)]
      BY <1>2 DEF Receive
    <3> QED BY NewRequestType DEF TablesOK
  <2> QED BY <2>1, <2>2
<1>3. ASSUME NEW r \in Requests, Fail(r) PROVE TablesOK' /\ ReqOK'
  BY <1>3, ReplyType, GotoType DEF Fail, TablesOK
<1>4. ASSUME NEW r \in Requests, Admission(r) PROVE TablesOK' /\ ReqOK'
  <2> DEFINE e == req[r].actor
  <2>1. ~At(r, "idle") => e \in Emails /\ users[e] \in Row /\ req[r].row \in Row
    BY DEF ReqOK, TablesOK, Request
  <2>2. CASE RequireInitialized(r)
    BY <2>2, ReplyType, GotoType DEF RequireInitialized, TablesOK
  <2>3. CASE Authenticate(r)
    BY <2>3, ReplyType, GotoType DEF Authenticate, TablesOK
  <2>4. CASE GetByEmail(r)
    BY <2>1, <2>4, HoldType, GotoType DEF GetByEmail, TablesOK
  <2>5. CASE PromoteCheck(r)
    BY <2>1, <2>5, AdmitType, GotoType DEF PromoteCheck, TablesOK
  <2>6. CASE PromoteToSuperAdmin(r)
    <3> DEFINE row == [users[e] EXCEPT !.role = "super_admin", !.mustChange = FALSE]
    <3>1. row \in Row
      BY <2>1, <2>6, RowTypes DEF PromoteToSuperAdmin
    <3>2. TablesOK'
      BY <2>6, <3>1 DEF PromoteToSuperAdmin, TablesOK
    <3>3. ReqOK'
      BY <2>6, <3>1, AdmitType, ReplyType DEF PromoteToSuperAdmin
    <3> QED BY <3>2, <3>3
  <2>7. CASE CreateCheck(r)
    <3>1. FirstUserRow \in Row
      BY RowTypes DEF FirstUserRow
    <3> QED BY <2>7, <3>1, HoldType DEF CreateCheck, TablesOK
  <2>8. CASE InsertUser(r)
    BY <2>1, <2>8, AdmitType, ReplyType DEF InsertUser, TablesOK
  <2>9. CASE Dispatch(r)
    <3>1. TablesOK'
      BY <2>9 DEF Dispatch, TablesOK
    <3>2. ReqOK'
      BY <2>9, GotoType, ReplyType DEF Dispatch, FirstStep
    <3> QED BY <3>1, <3>2
  <2> QED BY <1>4, <2>2, <2>3, <2>4, <2>5, <2>6, <2>7, <2>8, <2>9 DEF Admission
<1>5. ASSUME NEW r \in Requests, Handler(r) PROVE TablesOK' /\ ReqOK'
  <2> DEFINE e == req[r].actor  t == req[r].target
  <2>1. ~At(r, "idle") => /\ e \in Emails /\ users[e] \in Row
                          /\ t \in Emails /\ users[t] \in Row
                          /\ req[r].row \in Row
    BY DEF ReqOK, TablesOK, Request
  <2>2. CASE CreateUser(r)
    <3>1. FirstUserRow \in Row
      BY RowTypes DEF FirstUserRow
    <3> QED BY <2>2, <3>1, HoldType DEF CreateUser, TablesOK
  <2>3. CASE CreateAuthulaUser(r)
    <3>1. TablesOK'
      BY <2>1, <2>3, InsertType DEF CreateAuthulaUser, TablesOK
    <3>2. ReqOK'
      BY <2>3, GotoType, ReplyType DEF CreateAuthulaUser
    <3> QED BY <3>1, <3>2
  <2>4. CASE CreateAuthulaAccount(r)
    BY <2>1, <2>4, GotoType DEF CreateAuthulaAccount, TablesOK, Passwords
  <2>5. CASE InsertCreated(r)
    BY <2>1, <2>5, ReplyType DEF InsertCreated, TablesOK
  <2>6. CASE UpdateUser(r)
    <3>1. [users[t] EXCEPT !.edited = TRUE] \in Row
      BY <2>1, <2>6, RowTypes DEF UpdateUser
    <3> QED BY <2>6, <3>1, ReplyType DEF UpdateUser, TablesOK
  <2>7. CASE VerifyOldPassword(r)
    BY <2>7, GotoType, ReplyType DEF VerifyOldPassword, TablesOK
  <2>8. CASE WritePassword(r)
    BY <2>1, <2>8, GotoType DEF WritePassword, TablesOK, Passwords
  <2>9. CASE ClearMustChange(r)
    <3>1. [users[e] EXCEPT !.mustChange = FALSE] \in Row
      BY <2>1, <2>9, RowTypes DEF ClearMustChange
    <3> QED BY <2>9, <3>1, ReplyType DEF ClearMustChange, TablesOK
  <2>10. CASE CheckRequester(r)
    BY <2>10, GotoType, ReplyType DEF CheckRequester, TablesOK
  <2>11. CASE SoftDeleteUser(r)
    <3>1. [users[t] EXCEPT !.deleted = TRUE] \in Row
      BY <2>1, <2>11, RowTypes DEF SoftDeleteUser
    <3> QED BY <2>11, <3>1, ReplyType DEF SoftDeleteUser, TablesOK
  <2> QED BY <1>5, <2>2, <2>3, <2>4, <2>5, <2>6, <2>7, <2>8, <2>9, <2>10, <2>11 DEF Handler
<1>6. ASSUME NEW e \in Emails, OAuthSignIn(e) \/ PasswordSignIn(e) \/ EndSession(e)
      PROVE  TablesOK' /\ ReqOK'
  <2>1. TablesOK'
    BY <1>6, InsertType DEF OAuthSignIn, PasswordSignIn, EndSession, TablesOK
  <2>2. ReqOK'
    BY <1>6 DEF OAuthSignIn, PasswordSignIn, EndSession, ReqOK
  <2> QED BY <2>1, <2>2
<1>7. CASE UNCHANGED vars
  BY <1>7 DEF vars, TablesOK, ReqOK
<1> QED BY <1>1, <1>2, <1>3, <1>4, <1>5, <1>6, <1>7 DEF Next, RequestStep

LEMMA TypeInit == Init => TypeOK
<1> SUFFICES ASSUME Init PROVE TypeOK
  OBVIOUS
<1>1. Done("none") \in Request
  BY DoneType DEF Statuses
<1>2. ReqOK
  BY <1>1 DEF Init, ReqOK, At, Done
<1>3. TablesOK
  BY RowTypes DEF Init, TablesOK, Passwords
<1> QED BY <1>2, <1>3, TypeSplit

\* Every variable keeps its type, and a request in flight always has a sender and a target.
THEOREM UsersTypeOK == Spec => []TypeOK
  BY TypeInit, TypeInvariance, PTL DEF Spec
-----------------------------------------------------------------------------
(* What the request updates do to a slot, and that they touch no other. *)

Others(r) == \A q \in Requests : q # r => req'[q] = req[q]
SameRequest(r) == /\ req'[r].op = req[r].op
                  /\ req'[r].actor = req[r].actor
                  /\ req'[r].target = req[r].target
                  /\ req'[r].late = req[r].late

LEMMA GotoEffect ==
    ASSUME ReqOK, NEW r \in Requests, NEW pc, Goto(r, pc)
    PROVE  Others(r) /\ SameRequest(r) /\ req'[r].pc = pc /\ req'[r].row = req[r].row
  BY DEF ReqOK, Goto, Request, Others, SameRequest

LEMMA HoldEffect ==
    ASSUME ReqOK, NEW r \in Requests, NEW pc, NEW row, Hold(r, pc, row)
    PROVE  Others(r) /\ SameRequest(r) /\ req'[r].pc = pc /\ req'[r].row = row
  BY DEF ReqOK, Hold, Request, Others, SameRequest

LEMMA ReplyEffect ==
    ASSUME ReqOK, NEW r \in Requests, NEW status, Reply(r, status)
    PROVE  Others(r) /\ req'[r].pc = "idle" /\ ~req'[r].late
  BY DEF ReqOK, Reply, Done, Others

LEMMA AdmitEffect ==
    ASSUME ReqOK, NEW r \in Requests, NEW row, Admit(r, row)
    PROVE  /\ Others(r)
           /\ \/ req'[r].pc = "idle" /\ ~req'[r].late
              \/ SameRequest(r) /\ req'[r].pc = "dispatch" /\ req'[r].row = row
  BY ReplyEffect, HoldEffect DEF Admit

-----------------------------------------------------------------------------
(* Whoever is in `users`, has a password or a session, sends a request or  *)
(* is being provisioned is known to Authula; its insert meets no row then. *)

IdentityInv ==
    /\ \A e \in Emails : Exists(e) \/ credential[e] # "none" => e \in authula
    /\ session \subseteq authula
    /\ \A r \in Requests : /\ ~At(r, "idle") => req[r].actor \in authula
                           /\ At(r, "authulaAccount") \/ At(r, "insertCreated") =>
                                req[r].target \in authula

\* A step that leaves a request where IdentityInv has nothing to say of its target.
LEMMA IdentityOfRequests ==
    ASSUME IdentityInv, authula \subseteq authula', NEW r \in Requests, Others(r),
           ~At(r, "idle")' => req'[r].actor \in authula',
           (At(r, "authulaAccount") \/ At(r, "insertCreated"))' => req'[r].target \in authula'
    PROVE  \A q \in Requests : /\ ~At(q, "idle")' => req'[q].actor \in authula'
                               /\ (At(q, "authulaAccount") \/ At(q, "insertCreated"))' =>
                                    req'[q].target \in authula'
  BY DEF IdentityInv, Others, At

LEMMA IdentityInvariance == TypeOK /\ IdentityInv /\ [Next]_vars => IdentityInv'
<1> SUFFICES ASSUME TablesOK, ReqOK, IdentityInv, [Next]_vars PROVE IdentityInv'
  BY TypeSplit
<1> USE DEF tables, unmoved, Reject
<1>0. ASSUME NEW e \in Emails, AuthulaInsert(e)
      PROVE  /\ \A o \in Emails : Exists(o)' => o \in authula'
             /\ authula \subseteq authula' /\ e \in authula'
  BY <1>0 DEF AuthulaInsert, IdentityInv, Exists, TablesOK
<1>1. ASSUME NEW r \in Requests, SignUp(r) PROVE IdentityInv'
  <2> PICK e \in Emails : /\ AuthulaInsert(e)
                          /\ credential' = [credential EXCEPT ![e] = "own"]
                          /\ session' = session \cup {e}
                          /\ req' = [req EXCEPT ![r] = NewRequest("getByEmail", "hook", e, e)]
    BY <1>1 DEF SignUp
  <2>1. Others(r) /\ req'[r].pc = "getByEmail" /\ req'[r].actor = e
    BY DEF NewRequest, Others, ReqOK
  <2>2. \A o \in Emails : credential'[o] # "none" => credential[o] # "none" \/ o = e
    BY DEF TablesOK
  <2> QED BY <1>0, <2>1, <2>2, IdentityOfRequests DEF IdentityInv, At
<1>2. ASSUME NEW r \in Requests, Receive(r) PROVE IdentityInv'
  <2> PICK op \in Ops \ {"hook"}, e \in session, t \in Emails :
        req' = [req EXCEPT ![r] =
                  NewRequest(IF op = "me" THEN "authenticate" ELSE "countUsers", op, e, t)]
    BY <1>2 DEF Receive
  <2>1. /\ Others(r) /\ req'[r].actor = e
        /\ req'[r].pc = IF op = "me" THEN "authenticate" ELSE "countUsers"
    BY DEF NewRequest, Others, ReqOK
  <2> QED BY <1>2, <2>1, IdentityOfRequests DEF Receive, IdentityInv, At, Exists
<1>3. ASSUME NEW r \in Requests, Fail(r) PROVE IdentityInv'
  BY <1>3, ReplyEffect, GotoEffect DEF Fail, IdentityInv, At, Exists, Others, SameRequest
<1>4. ASSUME NEW r \in Requests, Admission(r) PROVE IdentityInv'
  BY <1>4, ReplyEffect, GotoEffect, HoldEffect, AdmitEffect DEF Admission, RequireInitialized, Authenticate,
     GetByEmail, PromoteCheck, PromoteToSuperAdmin, CreateCheck, InsertUser, Dispatch, FirstStep, IdentityInv,
     At, Exists, Others, SameRequest, TablesOK
<1>5. ASSUME NEW r \in Requests, Handler(r) PROVE IdentityInv'
  <2> USE <1>5 DEF IdentityInv, At, Exists, Others, SameRequest, TablesOK
  <2>1. CASE CreateUser(r)
    BY <2>1, HoldEffect DEF CreateUser
  <2>2. CASE CreateAuthulaUser(r)
    BY <2>2, <1>0, GotoEffect, ReplyEffect DEF CreateAuthulaUser, ReqOK
  <2>3. CASE CreateAuthulaAccount(r)
    BY <2>3, GotoEffect DEF CreateAuthulaAccount
  <2>4. CASE InsertCreated(r)
    BY <2>4, ReplyEffect DEF InsertCreated
  <2>5. CASE UpdateUser(r) \/ ClearMustChange(r) \/ SoftDeleteUser(r)
    BY <2>5, ReplyEffect DEF UpdateUser, ClearMustChange, SoftDeleteUser, Active
  <2>6. CASE VerifyOldPassword(r) \/ WritePassword(r) \/ CheckRequester(r)
    BY <2>6, ReplyEffect, GotoEffect DEF VerifyOldPassword, WritePassword, CheckRequester
  <2> QED BY <2>1, <2>2, <2>3, <2>4, <2>5, <2>6 DEF Handler
<1>6. ASSUME NEW e \in Emails, OAuthSignIn(e) \/ PasswordSignIn(e) \/ EndSession(e)
      PROVE  IdentityInv'
  <2>1. CASE OAuthSignIn(e) /\ e \notin authula
    BY <2>1, <1>0 DEF OAuthSignIn, IdentityInv, At
  <2>2. CASE OAuthSignIn(e) /\ e \in authula
    BY <2>2 DEF OAuthSignIn, IdentityInv, At, Exists
  <2>3. CASE EndSession(e)
    BY <2>3 DEF EndSession, IdentityInv, At, Exists
  <2>4. CASE PasswordSignIn(e)
    <3>1. e \in authula
      BY <2>4 DEF PasswordSignIn, PasswordKnown, IdentityInv
    <3> QED BY <2>4, <3>1 DEF PasswordSignIn, IdentityInv, At, Exists
  <2> QED BY <1>6, <2>1, <2>2, <2>3, <2>4
<1>7. CASE UNCHANGED vars
  BY <1>7 DEF vars, IdentityInv, At, Exists
<1> QED BY <1>1, <1>2, <1>3, <1>4, <1>5, <1>6, <1>7 DEF Next, RequestStep

LEMMA IdentityInit == Init => IdentityInv
  BY DEF Init, IdentityInv, Exists, NoRow, At, Done

-----------------------------------------------------------------------------
(* The super_admin role. *)

SuperExists == \E e \in Emails : SuperAdminRow(e)
OneHolder == \A e, o \in Emails : SuperAdminRow(e) /\ SuperAdminRow(o) => e = o

\* No statement takes the role away, and none gives it while another row holds it.
LEMMA RoleSteps ==
    ASSUME TypeOK, IdentityInv, [Next]_vars
    PROVE  /\ \A e \in Emails : SuperAdminRow(e) => SuperAdminRow(e)'
           /\ OneHolder => OneHolder'
<1> DEFINE Goal == /\ \A e \in Emails : SuperAdminRow(e) => SuperAdminRow(e)'
                   /\ OneHolder => OneHolder'
<1> SUFFICES ASSUME TablesOK, ReqOK PROVE Goal
  BY TypeSplit
<1> USE DEF tables, unmoved
<1>0. users' = users => Goal
  BY DEF SuperAdminRow, OneHolder
<1>1. ASSUME NEW e \in Emails, NEW row \in Row, users' = [users EXCEPT ![e] = row],
             row.role = users[e].role
      PROVE  Goal
  BY <1>1 DEF TablesOK, SuperAdminRow, OneHolder
<1>2. ASSUME NEW e \in Emails, NEW row \in Row, users' = [users EXCEPT ![e] = row],
             ~SuperAdminRow(e), row.role = "super_admin" => ~SuperAdminTaken(e)
      PROVE  Goal
  BY <1>2 DEF TablesOK, SuperAdminRow, SuperAdminTaken, OneHolder
<1>3. ASSUME NEW e \in Emails, e \notin authula, AuthulaInsert(e) PROVE Goal
  <2>1. ~SuperAdminRow(e) /\ NewRow("user", TRUE) \in Row
    BY <1>3, RowTypes DEF IdentityInv, Exists, SuperAdminRow
  <2> QED BY <1>0, <1>2, <1>3, <2>1 DEF AuthulaInsert, NewRow
<1>4. ASSUME NEW r \in Requests, SignUp(r) PROVE Goal
  BY <1>3, <1>4 DEF SignUp
<1>5. ASSUME NEW r \in Requests, Receive(r) \/ Fail(r) PROVE Goal
  BY <1>0, <1>5 DEF Receive, Fail
<1>6. ASSUME NEW r \in Requests, RequestStep(r) PROVE Goal
  <2> DEFINE e == req[r].actor  t == req[r].target  row == req[r].row
  <2>1. ~At(r, "idle") => /\ e \in Emails /\ users[e] \in Row
                          /\ t \in Emails /\ users[t] \in Row
                          /\ row \in Row
    BY DEF ReqOK, TablesOK, Request
  <2>2. CASE PromoteToSuperAdmin(r)
    <3> DEFINE new == [users[e] EXCEPT !.role = "super_admin", !.mustChange = FALSE]
    <3>1. e \in Emails /\ new \in Row
      BY <2>1, <2>2, RowTypes DEF PromoteToSuperAdmin, At
    <3>2. CASE users' = [users EXCEPT ![e] = new] /\ ~SuperAdminTaken(e)
      BY <3>1, <3>2 DEF TablesOK, SuperAdminRow, SuperAdminTaken, OneHolder, Row
    <3> QED BY <1>0, <2>2, <3>2 DEF PromoteToSuperAdmin
  <2>3. CASE InsertUser(r)
    <3>1. e \in Emails /\ row \in Row
      BY <2>1, <2>3 DEF InsertUser, At
    <3> QED BY <1>0, <1>2, <2>3, <3>1 DEF InsertUser, InsertRefused, Exists, SuperAdminRow
  <2>4. CASE InsertCreated(r)
    <3>1. t \in Emails /\ row \in Row
      BY <2>1, <2>4 DEF InsertCreated, At
    <3> QED BY <1>0, <1>2, <2>4, <3>1 DEF InsertCreated, InsertRefused, Exists, SuperAdminRow
  <2>5. CASE CreateAuthulaUser(r)
    BY <1>0, <1>3, <2>1, <2>5 DEF CreateAuthulaUser, At
  <2>6. CASE UpdateUser(r)
    <3>1. [users[t] EXCEPT !.edited = TRUE] \in Row
      BY <2>1, <2>6, RowTypes DEF UpdateUser, At
    <3> QED BY <1>0, <1>1, <2>1, <2>6, <3>1 DEF UpdateUser, At, Row
  <2>7. CASE ClearMustChange(r)
    <3>1. [users[e] EXCEPT !.mustChange = FALSE] \in Row
      BY <2>1, <2>7, RowTypes DEF ClearMustChange, At
    <3> QED BY <1>0, <1>1, <2>1, <2>7, <3>1 DEF ClearMustChange, At, Row
  <2>8. CASE SoftDeleteUser(r)
    <3>1. [users[t] EXCEPT !.deleted = TRUE] \in Row
      BY <2>1, <2>8, RowTypes DEF SoftDeleteUser, At
    <3> QED BY <1>0, <1>1, <2>1, <2>8, <3>1 DEF SoftDeleteUser, At, Row
  <2>9. CASE \/ RequireInitialized(r) \/ Authenticate(r) \/ GetByEmail(r) \/ PromoteCheck(r)
            \/ CreateCheck(r) \/ Dispatch(r) \/ CreateUser(r) \/ CreateAuthulaAccount(r)
            \/ VerifyOldPassword(r) \/ WritePassword(r) \/ CheckRequester(r)
    BY <1>0, <2>9 DEF RequireInitialized, Authenticate, GetByEmail, PromoteCheck, CreateCheck,
       Dispatch, CreateUser, CreateAuthulaAccount, VerifyOldPassword, WritePassword, CheckRequester
  <2> QED BY <1>6, <2>2, <2>3, <2>4, <2>5, <2>6, <2>7, <2>8, <2>9
          DEF RequestStep, Admission, Handler
<1>7. ASSUME NEW e \in Emails, OAuthSignIn(e) \/ PasswordSignIn(e) \/ EndSession(e) PROVE Goal
  BY <1>0, <1>3, <1>7 DEF OAuthSignIn, PasswordSignIn, EndSession
<1>8. CASE UNCHANGED vars
  BY <1>0, <1>8 DEF vars
<1> QED BY <1>4, <1>5, <1>6, <1>7, <1>8 DEF Next

(* A request that has been let in, or carries a row that will let it in    *)
(* without electing anybody, does so because somebody was elected already. *)
Served(r) == \/ Admitted(r)
             \/ At(r, "insert") /\ req[r].row.role # "super_admin"
             \/ At(r, "promoteCheck") /\ req[r].row.role = "super_admin"
ServiceInv == \A r \in Requests : Served(r) => SuperExists

LEMMA ServiceInvariance ==
    TypeOK /\ IdentityInv /\ ServiceInv /\ [Next]_vars => ServiceInv'
<1> SUFFICES ASSUME TypeOK, TablesOK, ReqOK, IdentityInv, ServiceInv, [Next]_vars
             PROVE  ServiceInv'
  BY TypeSplit
<1> USE DEF tables, unmoved, Reject
<1>0. SuperExists => SuperExists'
  BY RoleSteps DEF SuperExists
<1>1. ASSUME NEW r \in Requests, Others(r), Served(r)' => SuperExists' PROVE ServiceInv'
  BY <1>0, <1>1 DEF ServiceInv, Served, Admitted, At, Others
<1>2. ASSUME NEW r \in Requests, req'[r].pc = "idle" PROVE ~Served(r)'
  BY <1>2 DEF Served, Admitted, At, HandlerSteps
<1>3. ASSUME NEW r \in Requests, NEW status, Reply(r, status) PROVE ServiceInv'
  BY <1>1, <1>2, <1>3, ReplyEffect
<1>4. ASSUME NEW r \in Requests, NEW row, Admit(r, row), SuperExists' PROVE ServiceInv'
  BY <1>1, <1>4, AdmitEffect
<1>5. ASSUME NEW r \in Requests, NEW pc, Goto(r, pc), SuperExists PROVE ServiceInv'
  BY <1>0, <1>1, <1>5, GotoEffect
<1>6. ASSUME NEW r \in Requests, NEW pc \in {"authenticate", "getByEmail", "promote", "createCheck"},
             Goto(r, pc)
      PROVE  ServiceInv'
  BY <1>1, <1>6, GotoEffect DEF Served, Admitted, At, HandlerSteps
<1>7. HasSuperAdmin => SuperExists
  BY DEF HasSuperAdmin, SuperExists
<1>8. ASSUME NEW r \in Requests, SignUp(r) \/ Receive(r) PROVE ServiceInv'
  <2>1. Others(r) /\ req'[r].pc \in {"getByEmail", "authenticate", "countUsers"}
    BY <1>8 DEF SignUp, Receive, NewRequest, Others, ReqOK
  <2> QED BY <1>1, <2>1 DEF Served, Admitted, At, HandlerSteps
<1>9. ASSUME NEW r \in Requests, Fail(r) PROVE ServiceInv'
  BY <1>3, <1>6, <1>9 DEF Fail
<1>10. ASSUME NEW r \in Requests, Admission(r) PROVE ServiceInv'
  <2> DEFINE e == req[r].actor  row == req[r].row
  <2>1. ~At(r, "idle") => e \in Emails /\ users[e] \in Row
    BY DEF ReqOK, TablesOK
  <2>2. CASE RequireInitialized(r) \/ Authenticate(r)
    BY <1>3, <1>6, <2>2 DEF RequireInitialized, Authenticate
  <2>3. CASE GetByEmail(r)
    <3>1. CASE Hold(r, "promoteCheck", users[e])
      <4>1. e \in Emails
        BY <2>1, <2>3 DEF GetByEmail, At
      <4>2. Others(r) /\ req'[r].pc = "promoteCheck" /\ req'[r].row = users[e]
        BY <3>1, HoldEffect
      <4>3. users[e].role = "super_admin" => SuperExists
        BY <4>1 DEF SuperExists, SuperAdminRow
      <4> QED BY <1>0, <1>1, <4>2, <4>3 DEF Served, Admitted, At, HandlerSteps
    <3> QED BY <1>6, <2>3, <3>1 DEF GetByEmail
  <2>4. CASE PromoteCheck(r)
    <3>1. row.role = "super_admin" => SuperExists
      BY <2>4 DEF PromoteCheck, ServiceInv, Served
    <3> QED BY <1>0, <1>4, <1>6, <1>7, <2>4, <3>1 DEF PromoteCheck
  <2>5. CASE PromoteToSuperAdmin(r)
    <3> DEFINE new == [users[e] EXCEPT !.role = "super_admin", !.mustChange = FALSE]
    <3>1. CASE users' = [users EXCEPT ![e] = new] /\ Admit(r, new)
      <4>1. e \in Emails /\ new.role = "super_admin"
        BY <2>1, <2>5 DEF PromoteToSuperAdmin, At, Row
      <4>2. SuperExists'
        BY <3>1, <4>1 DEF TablesOK, SuperExists, SuperAdminRow
      <4> QED BY <1>4, <3>1, <4>2
    <3> QED BY <1>3, <2>5, <3>1 DEF PromoteToSuperAdmin
  <2>6. CASE CreateCheck(r)
    <3>1. Others(r) /\ req'[r].pc = "insert" /\ req'[r].row = FirstUserRow
      BY <2>6, HoldEffect DEF CreateCheck
    <3>2. FirstUserRow.role # "super_admin" => SuperExists
      BY <1>7 DEF FirstUserRow, NewRow
    <3> QED BY <1>0, <1>1, <3>1, <3>2 DEF Served, Admitted, At, HandlerSteps
  <2>7. CASE InsertUser(r)
    <3>1. CASE row.role # "super_admin"
      <4>1. SuperExists
        BY <2>7, <3>1 DEF InsertUser, ServiceInv, Served
      <4> QED BY <1>0, <1>3, <1>4, <2>7, <4>1 DEF InsertUser
    <3>2. CASE users' = [users EXCEPT ![e] = row] /\ Admit(r, row) /\ row.role = "super_admin"
      <4>1. e \in Emails
        BY <2>1, <2>7 DEF InsertUser, At
      <4>2. SuperExists'
        BY <3>2, <4>1 DEF TablesOK, SuperExists, SuperAdminRow
      <4> QED BY <1>4, <3>2, <4>2
    <3> QED BY <1>3, <2>7, <3>1, <3>2 DEF InsertUser
  <2>8. CASE Dispatch(r)
    <3>1. SuperExists
      BY <2>8 DEF Dispatch, ServiceInv, Served, Admitted, At
    <3> QED BY <1>3, <1>5, <2>8, <3>1 DEF Dispatch
  <2> QED BY <1>10, <2>2, <2>3, <2>4, <2>5, <2>6, <2>7, <2>8 DEF Admission
<1>11. ASSUME NEW r \in Requests, Handler(r) PROVE ServiceInv'
  <2>1. Admitted(r)
    BY <1>11 DEF Handler, CreateUser, CreateAuthulaUser, CreateAuthulaAccount, InsertCreated,
       UpdateUser, VerifyOldPassword, WritePassword, ClearMustChange, CheckRequester,
       SoftDeleteUser, Admitted, HandlerSteps, At
  <2>2. SuperExists'
    BY <1>0, <2>1 DEF ServiceInv, Served
  <2>3. Others(r)
    BY <1>11, GotoEffect, HoldEffect, ReplyEffect DEF Handler, CreateUser, CreateAuthulaUser,
       CreateAuthulaAccount, InsertCreated, UpdateUser, VerifyOldPassword, WritePassword,
       ClearMustChange, CheckRequester, SoftDeleteUser
  <2> QED BY <1>1, <2>2, <2>3
<1>12. ASSUME NEW e \in Emails, OAuthSignIn(e) \/ PasswordSignIn(e) \/ EndSession(e)
       PROVE  ServiceInv'
  BY <1>0, <1>12 DEF OAuthSignIn, PasswordSignIn, EndSession, ServiceInv, Served, Admitted, At
<1>13. CASE UNCHANGED vars
  BY <1>0, <1>13 DEF vars, ServiceInv, Served, Admitted, At
<1> QED BY <1>8, <1>9, <1>10, <1>11, <1>12, <1>13 DEF Next, RequestStep

\* However the first sign-ups interleave, with each other and with failures, at most one row
\* ever holds super_admin, and nobody is served before one does.
THEOREM UsersOneSuperAdmin == Spec => []OneSuperAdminBeforeService
<1>1. Init => OneHolder /\ ServiceInv
  BY DEF Init, OneHolder, SuperAdminRow, NoRow, ServiceInv, Served, Admitted, At, Done, HandlerSteps
<1>2. TypeOK /\ IdentityInv /\ OneHolder /\ [Next]_vars => OneHolder'
  BY RoleSteps
<1>3. OneHolder /\ ServiceInv => OneSuperAdminBeforeService
  BY DEF OneHolder, ServiceInv, Served, SuperExists, OneSuperAdminBeforeService
<1> QED BY <1>1, <1>2, <1>3, TypeInit, TypeInvariance, IdentityInit, IdentityInvariance,
        ServiceInvariance, PTL DEF Spec

-----------------------------------------------------------------------------
(* What a step may do to the table: one of five things to one row.         *)

Drafts == {"insert", "authulaUser", "authulaAccount", "insertCreated"}

\* A deleted row is a row, and so is one that is about to be inserted.
RowsInv ==
    /\ \A e \in Emails : users[e].deleted => Exists(e)
    /\ \A r \in Requests : req[r].pc \in Drafts =>
         /\ req[r].row.role # "none" /\ req[r].row.deleted = FALSE
         /\ req[r].row.role = "super_admin" \/ req[r].row.mustChange = TRUE

Write(e, row) == users' = [users EXCEPT ![e] = row]

Inserts(e) ==
    /\ ~Exists(e)
    /\ \E row \in Row :
        /\ Write(e, row)
        /\ row.role # "none" /\ row.deleted = FALSE
        /\ row.role = "super_admin" \/ row.mustChange = TRUE
        /\ row.role = "super_admin" => ~SuperAdminTaken(e)

Promotes(e) ==
    /\ Active(e) /\ ~SuperAdminTaken(e)
    /\ Write(e, [users[e] EXCEPT !.role = "super_admin", !.mustChange = FALSE])

Edits(e) == Active(e) /\ Write(e, [users[e] EXCEPT !.edited = TRUE])

Clears(e) ==
    /\ Active(e) /\ Write(e, [users[e] EXCEPT !.mustChange = FALSE])
    /\ \E r \in Requests : At(r, "clearFlag") /\ req[r].actor = e

Deletes(e) ==
    /\ Active(e) /\ Write(e, [users[e] EXCEPT !.deleted = TRUE])
    /\ \E r \in Requests : At(r, "softDelete") /\ req[r].target = e

RowStep == \/ users' = users
           \/ \E e \in Emails : Inserts(e) \/ Promotes(e) \/ Edits(e) \/ Clears(e) \/ Deletes(e)

LEMMA RowSteps == TypeOK /\ IdentityInv /\ RowsInv /\ [Next]_vars => RowStep
<1> SUFFICES ASSUME TablesOK, ReqOK, IdentityInv, RowsInv, [Next]_vars PROVE RowStep
  BY TypeSplit
<1> USE DEF tables, unmoved
<1>1. ASSUME NEW e \in Emails, e \notin authula, AuthulaInsert(e) PROVE RowStep
  <2>1. ~Exists(e)
    BY <1>1 DEF IdentityInv
  <2>2. CASE users' = [users EXCEPT ![e] = NewRow("user", TRUE)]
    <3>1. NewRow("user", TRUE) \in Row
      BY RowTypes
    <3>2. Inserts(e)
      BY <2>1, <2>2, <3>1 DEF Inserts, Write, NewRow
    <3> QED BY <3>2 DEF RowStep
  <2> QED BY <1>1, <2>2 DEF AuthulaInsert, RowStep
<1>2. ASSUME NEW r \in Requests, SignUp(r) PROVE RowStep
  BY <1>1, <1>2 DEF SignUp
<1>3. ASSUME NEW e \in Emails, OAuthSignIn(e) \/ PasswordSignIn(e) \/ EndSession(e) PROVE RowStep
  BY <1>1, <1>3 DEF OAuthSignIn, PasswordSignIn, EndSession, RowStep
<1>4. ASSUME NEW r \in Requests, RequestStep(r) PROVE RowStep
  <2> DEFINE e == req[r].actor  t == req[r].target  row == req[r].row
  <2>1. ~At(r, "idle") => e \in Emails /\ t \in Emails /\ row \in Row
    BY DEF ReqOK, Request
  <2>2. CASE PromoteToSuperAdmin(r)
    <3>1. e \in Emails
      BY <2>1, <2>2 DEF PromoteToSuperAdmin, At
    <3>2. users' = users \/ Promotes(e)
      BY <2>2 DEF PromoteToSuperAdmin, Promotes, Write
    <3> QED BY <3>1, <3>2 DEF RowStep
  <2>3. CASE InsertUser(r)
    <3>1. e \in Emails /\ row \in Row
      BY <2>1, <2>3 DEF InsertUser, At
    <3>2. /\ row.role # "none" /\ row.deleted = FALSE
          /\ row.role = "super_admin" \/ row.mustChange = TRUE
      BY <2>3 DEF InsertUser, At, RowsInv, Drafts
    <3>3. users' = users \/ Inserts(e)
      BY <2>3, <3>1, <3>2 DEF InsertUser, InsertRefused, Inserts, Write
    <3> QED BY <3>1, <3>3 DEF RowStep
  <2>4. CASE InsertCreated(r)
    <3>1. t \in Emails /\ row \in Row
      BY <2>1, <2>4 DEF InsertCreated, At
    <3>2. /\ row.role # "none" /\ row.deleted = FALSE
          /\ row.role = "super_admin" \/ row.mustChange = TRUE
      BY <2>4 DEF InsertCreated, At, RowsInv, Drafts
    <3>3. users' = users \/ Inserts(t)
      BY <2>4, <3>1, <3>2 DEF InsertCreated, InsertRefused, Inserts, Write
    <3> QED BY <3>1, <3>3 DEF RowStep
  <2>5. CASE CreateAuthulaUser(r)
    <3>1. t \in Emails
      BY <2>1, <2>5 DEF CreateAuthulaUser, At
    <3> QED BY <1>1, <2>5, <3>1 DEF CreateAuthulaUser, RowStep
  <2>6. CASE UpdateUser(r)
    <3>1. t \in Emails
      BY <2>1, <2>6 DEF UpdateUser, At
    <3>2. users' = users \/ Edits(t)
      <4>1. [users EXCEPT ![t].edited = TRUE] = [users EXCEPT ![t] = [users[t] EXCEPT !.edited = TRUE]]
        OBVIOUS
      <4> QED BY <2>6, <4>1 DEF UpdateUser, Edits, Write
    <3> QED BY <3>1, <3>2 DEF RowStep
  <2>7. CASE ClearMustChange(r)
    <3>1. e \in Emails
      BY <2>1, <2>7 DEF ClearMustChange, At
    <3>2. users' = users \/ Clears(e)
      BY <2>7 DEF ClearMustChange, Clears, Write
    <3> QED BY <3>1, <3>2 DEF RowStep
  <2>8. CASE SoftDeleteUser(r)
    <3>1. t \in Emails
      BY <2>1, <2>8 DEF SoftDeleteUser, At
    <3>2. users' = users \/ Deletes(t)
      BY <2>8 DEF SoftDeleteUser, Deletes, Write
    <3> QED BY <3>1, <3>2 DEF RowStep
  <2>9. CASE \/ RequireInitialized(r) \/ Authenticate(r) \/ GetByEmail(r) \/ PromoteCheck(r)
            \/ CreateCheck(r) \/ Dispatch(r) \/ CreateUser(r) \/ CreateAuthulaAccount(r)
            \/ VerifyOldPassword(r) \/ WritePassword(r) \/ CheckRequester(r)
    BY <2>9 DEF RequireInitialized, Authenticate, GetByEmail, PromoteCheck, CreateCheck,
       Dispatch, CreateUser, CreateAuthulaAccount, VerifyOldPassword, WritePassword, CheckRequester,
       RowStep
  <2> QED BY <1>4, <2>2, <2>3, <2>4, <2>5, <2>6, <2>7, <2>8, <2>9
          DEF RequestStep, Admission, Handler
<1>5. ASSUME NEW r \in Requests, Receive(r) \/ Fail(r) PROVE RowStep
  BY <1>5 DEF Receive, Fail, RowStep
<1>6. CASE UNCHANGED vars
  BY <1>6 DEF vars, RowStep
<1> QED BY <1>2, <1>3, <1>4, <1>5, <1>6 DEF Next

\* Rows of others stay; a row that is there stays, deleted rows as they are.
LEMMA RowStepKeeps ==
    ASSUME TypeOK, RowsInv, RowStep, NEW e \in Emails
    PROVE  /\ Exists(e) => Exists(e)'
           /\ users[e].deleted => users'[e] = users[e]
           /\ users'[e].deleted => users[e].deleted \/ Deletes(e)
           /\ users'[e].deleted => Exists(e)'
<1>0. TablesOK
  BY TypeSplit
<1>1. ASSUME NEW o \in Emails, NEW row \in Row, Write(o, row)
      PROVE  users'[e] = IF e = o THEN row ELSE users[e]
  BY <1>0, <1>1 DEF Write, TablesOK
<1>2. users[e] \in Row
  BY <1>0 DEF TablesOK
<1>3. CASE users' = users
  BY <1>3 DEF RowsInv, Exists
<1>4. ASSUME NEW o \in Emails, Inserts(o)
      PROVE  /\ Exists(e) => Exists(e)'
             /\ users[e].deleted => users'[e] = users[e]
             /\ users'[e].deleted => users[e].deleted
             /\ users'[e].deleted => Exists(e)'
  BY <1>1, <1>2, <1>4 DEF Inserts, RowsInv, Exists
<1>5. ASSUME NEW o \in Emails, Promotes(o) \/ Edits(o) \/ Clears(o) \/ Deletes(o)
      PROVE  /\ Exists(e) => Exists(e)'
             /\ users[e].deleted => users'[e] = users[e]
             /\ users'[e].deleted => users[e].deleted \/ Deletes(e)
             /\ users'[e].deleted => Exists(e)'
  <2>1. users[o] \in Row
    BY <1>0 DEF TablesOK
  <2>2. CASE Promotes(o)
    <3> DEFINE row == [users[o] EXCEPT !.role = "super_admin", !.mustChange = FALSE]
    <3>1. row \in Row /\ row.role # "none" /\ row.deleted = users[o].deleted
      BY <2>1 DEF Row, Roles
    <3> HIDE DEF row
    <3> QED BY <1>1, <1>2, <2>2, <3>1 DEF Promotes, Active, RowsInv, Exists, row
  <2>3. CASE Edits(o)
    <3>1. [users[o] EXCEPT !.edited = TRUE] \in Row
      BY <2>1, RowTypes
    <3> QED BY <1>1, <1>2, <2>1, <2>3, <3>1 DEF Edits, Active, RowsInv, Exists, Row
  <2>4. CASE Clears(o)
    <3>1. [users[o] EXCEPT !.mustChange = FALSE] \in Row
      BY <2>1, RowTypes
    <3> QED BY <1>1, <1>2, <2>1, <2>4, <3>1 DEF Clears, Active, RowsInv, Exists, Row
  <2>5. CASE Deletes(o)
    <3>1. [users[o] EXCEPT !.deleted = TRUE] \in Row
      BY <2>1, RowTypes
    <3>2. e = o \/ users'[e] = users[e]
      BY <1>1, <2>5, <3>1 DEF Deletes
    <3>3. e = o => users'[e].role = users[e].role /\ ~users[e].deleted /\ Exists(e)
      BY <1>1, <2>1, <2>5, <3>1 DEF Deletes, Active, Row
    <3> QED BY <2>5, <3>2, <3>3 DEF RowsInv, Exists
  <2> QED BY <1>5, <2>2, <2>3, <2>4, <2>5
<1> QED BY <1>3, <1>4, <1>5 DEF RowStep

(* The part of RowsInv about one request. *)
Draft(r) == req[r].pc \in Drafts =>
                /\ req[r].row.role # "none" /\ req[r].row.deleted = FALSE
                /\ req[r].row.role = "super_admin" \/ req[r].row.mustChange = TRUE

LEMMA RowsInvariance == TypeOK /\ IdentityInv /\ RowsInv /\ [Next]_vars => RowsInv'
<1> SUFFICES ASSUME TypeOK, TablesOK, ReqOK, IdentityInv, RowsInv, [Next]_vars PROVE RowsInv'
  BY TypeSplit
<1>1. \A e \in Emails : users'[e].deleted => Exists(e)'
  BY RowSteps, RowStepKeeps
<1> SUFFICES \A q \in Requests : Draft(q)'
  BY <1>1 DEF RowsInv, Draft
<1>2. \A q \in Requests : Draft(q)
  BY DEF RowsInv, Draft
<1> USE DEF tables, unmoved, Reject
<1>3. ASSUME NEW r \in Requests, Others(r), Draft(r)' PROVE \A q \in Requests : Draft(q)'
  BY <1>2, <1>3 DEF Draft, Others
<1>4. ASSUME NEW r \in Requests, NEW status, Reply(r, status) PROVE \A q \in Requests : Draft(q)'
  BY <1>3, <1>4, ReplyEffect DEF Draft, Drafts
<1>5. ASSUME NEW r \in Requests, NEW row, Admit(r, row) PROVE \A q \in Requests : Draft(q)'
  BY <1>3, <1>5, AdmitEffect DEF Draft, Drafts
<1>6. ASSUME NEW r \in Requests, NEW pc, Goto(r, pc), pc \in Drafts => req[r].pc \in Drafts
      PROVE  \A q \in Requests : Draft(q)'
  <2>1. Others(r) /\ req'[r].pc = pc /\ req'[r].row = req[r].row
    BY <1>6, GotoEffect
  <2> QED BY <1>2, <1>3, <1>6, <2>1 DEF Draft
<1>7. ASSUME NEW r \in Requests, NEW pc, Hold(r, pc, FirstUserRow)
      PROVE  \A q \in Requests : Draft(q)'
  <2>1. Others(r) /\ req'[r].row = FirstUserRow
    BY <1>7, HoldEffect
  <2>2. /\ FirstUserRow.role # "none" /\ FirstUserRow.deleted = FALSE
        /\ FirstUserRow.role = "super_admin" \/ FirstUserRow.mustChange = TRUE
    BY DEF FirstUserRow, NewRow
  <2> QED BY <1>3, <2>1, <2>2 DEF Draft
<1>8. ASSUME NEW r \in Requests, SignUp(r) \/ Receive(r) PROVE \A q \in Requests : Draft(q)'
  <2>1. Others(r)
    BY <1>8 DEF SignUp, Receive, Others, ReqOK
  <2>2. req'[r].pc \in {"getByEmail", "authenticate", "countUsers"}
    BY <1>8 DEF SignUp, Receive, NewRequest, ReqOK
  <2> QED BY <1>3, <2>1, <2>2 DEF Draft, Drafts
<1>9. ASSUME NEW r \in Requests, Fail(r) PROVE \A q \in Requests : Draft(q)'
  BY <1>4, <1>6, <1>9 DEF Fail, Drafts
<1>10. ASSUME NEW r \in Requests, RequestStep(r) PROVE \A q \in Requests : Draft(q)'
  <2>1. CASE RequireInitialized(r) \/ Authenticate(r)
    BY <1>4, <1>6, <2>1 DEF RequireInitialized, Authenticate, Drafts
  <2>2. CASE GetByEmail(r)
    <3>1. ASSUME NEW row, Hold(r, "promoteCheck", row) PROVE \A q \in Requests : Draft(q)'
      <4>1. Others(r) /\ req'[r].pc = "promoteCheck"
        BY <3>1, HoldEffect
      <4> QED BY <1>3, <4>1 DEF Draft, Drafts
    <3> QED BY <1>6, <2>2, <3>1 DEF GetByEmail, Drafts
  <2>3. CASE PromoteCheck(r) \/ PromoteToSuperAdmin(r) \/ InsertUser(r)
    BY <1>4, <1>5, <1>6, <2>3 DEF PromoteCheck, PromoteToSuperAdmin, InsertUser, Drafts
  <2>4. CASE CreateCheck(r) \/ CreateUser(r)
    BY <1>7, <2>4 DEF CreateCheck, CreateUser
  <2>5. CASE Dispatch(r)
    BY <1>4, <1>6, <2>5 DEF Dispatch, FirstStep, Drafts
  <2>6. CASE CreateAuthulaUser(r) \/ CreateAuthulaAccount(r)
    BY <1>4, <1>6, <2>6 DEF CreateAuthulaUser, CreateAuthulaAccount, At, Drafts
  <2>7. CASE \/ InsertCreated(r) \/ UpdateUser(r) \/ ClearMustChange(r) \/ SoftDeleteUser(r)
    BY <1>4, <2>7 DEF InsertCreated, UpdateUser, ClearMustChange, SoftDeleteUser
  <2>8. CASE VerifyOldPassword(r) \/ WritePassword(r) \/ CheckRequester(r)
    BY <1>4, <1>6, <2>8 DEF VerifyOldPassword, WritePassword, CheckRequester, Drafts
  <2> QED BY <1>10, <2>1, <2>2, <2>3, <2>4, <2>5, <2>6, <2>7, <2>8
          DEF RequestStep, Admission, Handler
<1>11. ASSUME NEW e \in Emails, OAuthSignIn(e) \/ PasswordSignIn(e) \/ EndSession(e)
       PROVE  \A q \in Requests : Draft(q)'
  BY <1>2, <1>11 DEF OAuthSignIn, PasswordSignIn, EndSession, Draft
<1>12. CASE UNCHANGED vars
  BY <1>2, <1>12 DEF vars, Draft
<1> QED BY <1>8, <1>9, <1>10, <1>11, <1>12 DEF Next

LEMMA RowsInit == Init => RowsInv
  BY DEF Init, RowsInv, Drafts, NoRow, Done

\* A tombstone is final, whatever a request that read the row while it was alive still writes.
THEOREM UsersTombstonesFrozen == Spec => TombstonesFrozen
<1>1. TypeOK /\ IdentityInv /\ RowsInv /\ [Next]_vars =>
        [\A e \in Emails : users[e].deleted => users'[e] = users[e]]_vars
  BY RowSteps, RowStepKeeps
<1> QED BY <1>1, TypeInit, TypeInvariance, IdentityInit, IdentityInvariance, RowsInit,
        RowsInvariance, PTL DEF Spec, TombstonesFrozen

-----------------------------------------------------------------------------
(* Deleting: the role checked one statement earlier is never taken away.   *)

MayDelete(r) ==
    At(r, "softDelete") => req[r].actor = req[r].target \/ SuperAdminRow(req[r].actor)
DeleteInv == \A r \in Requests : MayDelete(r)

LEMMA DeleteInvariance == TypeOK /\ IdentityInv /\ DeleteInv /\ [Next]_vars => DeleteInv'
<1> SUFFICES ASSUME TypeOK, TablesOK, ReqOK, IdentityInv, DeleteInv, [Next]_vars
             PROVE  DeleteInv'
  BY TypeSplit
<1>0. \A e \in Emails : SuperAdminRow(e) => SuperAdminRow(e)'
  BY RoleSteps
<1> USE DEF tables, unmoved, Reject
<1>1. ASSUME NEW q \in Requests, req'[q] = req[q] PROVE MayDelete(q)'
  <2>1. At(q, "softDelete") => req[q].actor \in Emails
    BY DEF ReqOK, At
  <2> QED BY <1>0, <1>1, <2>1 DEF DeleteInv, MayDelete, At, SuperAdminRow
<1>2. ASSUME NEW r \in Requests, Others(r), MayDelete(r)' PROVE DeleteInv'
  BY <1>1, <1>2 DEF DeleteInv, Others
<1>3. ASSUME NEW r \in Requests, Others(r), req'[r].pc # "softDelete" PROVE DeleteInv'
  BY <1>2, <1>3 DEF MayDelete, At
<1>4. ASSUME NEW r \in Requests, NEW status, Reply(r, status) PROVE DeleteInv'
  BY <1>3, <1>4, ReplyEffect
<1>5. ASSUME NEW r \in Requests, NEW row, Admit(r, row) PROVE DeleteInv'
  BY <1>3, <1>5, AdmitEffect
<1>6. ASSUME NEW r \in Requests, NEW pc, Goto(r, pc), pc # "softDelete" PROVE DeleteInv'
  BY <1>3, <1>6, GotoEffect
<1>7. ASSUME NEW r \in Requests, NEW pc, NEW row, Hold(r, pc, row), pc # "softDelete"
      PROVE  DeleteInv'
  BY <1>3, <1>7, HoldEffect
<1>8. ASSUME NEW r \in Requests, SignUp(r) \/ Receive(r) PROVE DeleteInv'
  <2>1. Others(r)
    BY <1>8 DEF SignUp, Receive, Others, ReqOK
  <2>2. req'[r].pc \in {"getByEmail", "authenticate", "countUsers"}
    BY <1>8 DEF SignUp, Receive, NewRequest, ReqOK
  <2> QED BY <1>3, <2>1, <2>2
<1>9. ASSUME NEW r \in Requests, Fail(r) PROVE DeleteInv'
  BY <1>4, <1>6, <1>9 DEF Fail
<1>10. ASSUME NEW r \in Requests, RequestStep(r) PROVE DeleteInv'
  <2>1. CASE \/ RequireInitialized(r) \/ Authenticate(r) \/ GetByEmail(r) \/ PromoteCheck(r)
             \/ PromoteToSuperAdmin(r) \/ CreateCheck(r) \/ InsertUser(r)
    BY <1>4, <1>5, <1>6, <1>7, <2>1 DEF RequireInitialized, Authenticate, GetByEmail, PromoteCheck,
       PromoteToSuperAdmin, CreateCheck, InsertUser
  <2>2. CASE Dispatch(r)
    BY <1>4, <1>6, <2>2 DEF Dispatch, FirstStep
  <2>3. CASE CheckRequester(r)
    <3>1. CASE Goto(r, "softDelete")
      <4>1. Others(r) /\ SameRequest(r)
        BY <3>1, GotoEffect
      <4>2. req[r].actor \in Emails
        BY <2>3 DEF CheckRequester, At, ReqOK
      <4>3. req[r].actor = req[r].target \/ SuperAdminRow(req[r].actor) \/ DeleteInv'
        BY <1>4, <2>3 DEF CheckRequester
      <4> QED BY <1>0, <1>2, <4>1, <4>2, <4>3 DEF SameRequest, MayDelete, SuperAdminRow
    <3> QED BY <1>4, <2>3, <3>1 DEF CheckRequester
  <2>4. CASE \/ CreateUser(r) \/ CreateAuthulaUser(r) \/ CreateAuthulaAccount(r)
             \/ VerifyOldPassword(r) \/ WritePassword(r)
    BY <1>4, <1>6, <1>7, <2>4 DEF CreateUser, CreateAuthulaUser, CreateAuthulaAccount,
       VerifyOldPassword, WritePassword
  <2>5. CASE InsertCreated(r) \/ UpdateUser(r) \/ ClearMustChange(r) \/ SoftDeleteUser(r)
    BY <1>4, <2>5 DEF InsertCreated, UpdateUser, ClearMustChange, SoftDeleteUser
  <2> QED BY <1>10, <2>1, <2>2, <2>3, <2>4, <2>5 DEF RequestStep, Admission, Handler
<1>11. ASSUME NEW e \in Emails, OAuthSignIn(e) \/ PasswordSignIn(e) \/ EndSession(e)
       PROVE  DeleteInv'
  BY <1>1, <1>11 DEF OAuthSignIn, PasswordSignIn, EndSession, DeleteInv
<1>12. CASE UNCHANGED vars
  BY <1>1, <1>12 DEF vars, DeleteInv
<1> QED BY <1>8, <1>9, <1>10, <1>11, <1>12 DEF Next

\* A row goes only by the hand of its owner or of a super_admin, although the requester is
\* checked one statement before the target is marked.
THEOREM UsersOnlyOwnerOrAdminDeletes == Spec => OnlyOwnerOrAdminDeletes
<1>1. TypeOK /\ IdentityInv /\ RowsInv /\ DeleteInv /\ [Next]_vars =>
        [\A e \in Emails :
           users'[e].deleted /\ ~users[e].deleted =>
              \E r \in Requests : /\ At(r, "softDelete") /\ req[r].target = e
                                  /\ req[r].actor = e \/ SuperAdminRow(req[r].actor)]_vars
  <2> SUFFICES ASSUME TypeOK, IdentityInv, RowsInv, DeleteInv, [Next]_vars,
                      NEW e \in Emails, users'[e].deleted, ~users[e].deleted
               PROVE  \E r \in Requests : /\ At(r, "softDelete") /\ req[r].target = e
                                          /\ req[r].actor = e \/ SuperAdminRow(req[r].actor)
    OBVIOUS
  <2>1. Deletes(e)
    BY RowSteps, RowStepKeeps
  <2>2. PICK r \in Requests : At(r, "softDelete") /\ req[r].target = e
    BY <2>1 DEF Deletes
  <2> QED BY <2>2 DEF DeleteInv, MayDelete
<1>2. Init => DeleteInv
  BY DEF Init, DeleteInv, MayDelete, At, Done
<1> QED BY <1>1, <1>2, TypeInit, TypeInvariance, IdentityInit, IdentityInvariance, RowsInit,
        RowsInvariance, DeleteInvariance, PTL DEF Spec, OnlyOwnerOrAdminDeletes

-----------------------------------------------------------------------------
(* Late requests: their sender's tombstone keeps them out of GetOrCreate's *)
(* promotion, and its row keeps them out of the table.                     *)

LateSteps == {"countUsers", "authenticate", "getByEmail", "createCheck", "insert"}
LateStays(r) == req[r].late => req[r].pc \in LateSteps /\ users[req[r].actor].deleted
LateInv == \A r \in Requests : LateStays(r)

LEMMA LateInvariance == TypeOK /\ IdentityInv /\ RowsInv /\ LateInv /\ [Next]_vars => LateInv'
<1> SUFFICES ASSUME TypeOK, TablesOK, ReqOK, IdentityInv, RowsInv, LateInv, [Next]_vars
             PROVE  LateInv'
  BY TypeSplit
<1>0. \A e \in Emails : users[e].deleted => users'[e].deleted /\ Exists(e)
  BY RowSteps, RowStepKeeps DEF RowsInv
<1> USE DEF tables, unmoved, Reject
<1>1. ASSUME NEW q \in Requests, req[q].late PROVE req[q].actor \in Emails /\ users'[req[q].actor].deleted
  BY <1>0, <1>1 DEF LateInv, LateStays, LateSteps, ReqOK, At
<1>2. ASSUME NEW q \in Requests, req'[q] = req[q] PROVE LateStays(q)'
  BY <1>1, <1>2 DEF LateInv, LateStays
<1>3. ASSUME NEW r \in Requests, Others(r), LateStays(r)' PROVE LateInv'
  BY <1>2, <1>3 DEF LateInv, Others
<1>4. ASSUME NEW r \in Requests, NEW status, Reply(r, status) PROVE LateInv'
  <2>1. Others(r) /\ ~req'[r].late
    BY <1>4, ReplyEffect
  <2> QED BY <1>3, <2>1 DEF LateStays
<1>5. ASSUME NEW r \in Requests, Others(r), SameRequest(r), req[r].late => req'[r].pc \in LateSteps
      PROVE  LateInv'
  BY <1>1, <1>3, <1>5 DEF SameRequest, LateStays
<1>6. ASSUME NEW r \in Requests, NEW pc, Goto(r, pc), req[r].late => pc \in LateSteps
      PROVE  LateInv'
  BY <1>5, <1>6, GotoEffect
<1>7. ASSUME NEW r \in Requests, NEW pc, NEW row, Hold(r, pc, row), req[r].late => pc \in LateSteps
      PROVE  LateInv'
  BY <1>5, <1>7, HoldEffect
<1>8. ASSUME NEW r \in Requests, NEW row, Admit(r, row), ~req[r].late PROVE LateInv'
  BY <1>4, <1>7, <1>8 DEF Admit
<1>9. ASSUME NEW r \in Requests, req[r].pc \notin LateSteps PROVE ~req[r].late
  BY <1>9 DEF LateInv, LateStays
<1>10. ASSUME NEW r \in Requests, SignUp(r) PROVE LateInv'
  <2> PICK e \in Emails : /\ e \notin authula
                          /\ AuthulaInsert(e)
                          /\ req' = [req EXCEPT ![r] = NewRequest("getByEmail", "hook", e, e)]
    BY <1>10 DEF SignUp
  <2>1. ~users[e].deleted
    BY <1>0 DEF IdentityInv
  <2>2. Others(r) /\ (req'[r].late => users[e].deleted)
    BY DEF NewRequest, Others, ReqOK
  <2> QED BY <1>3, <2>1, <2>2 DEF LateStays
<1>11. ASSUME NEW r \in Requests, Receive(r) PROVE LateInv'
  <2> PICK op \in Ops \ {"hook"}, e \in session, t \in Emails :
        req' = [req EXCEPT ![r] =
                  NewRequest(IF op = "me" THEN "authenticate" ELSE "countUsers", op, e, t)]
    BY <1>11 DEF Receive
  <2>1. Others(r) /\ req'[r].actor = e /\ e \in Emails
    BY DEF NewRequest, Others, ReqOK, TablesOK
  <2>2. req'[r].pc \in {"authenticate", "countUsers"}
    BY DEF NewRequest, ReqOK
  <2>3. req'[r].late => users[e].deleted
    BY DEF NewRequest, ReqOK
  <2> QED BY <1>0, <1>3, <2>1, <2>2, <2>3 DEF LateStays, LateSteps
<1>12. ASSUME NEW r \in Requests, Fail(r) PROVE LateInv'
  BY <1>4, <1>6, <1>12 DEF Fail, LateSteps
<1>13. ASSUME NEW r \in Requests, RequestStep(r) PROVE LateInv'
  <2> DEFINE e == req[r].actor
  <2>1. CASE RequireInitialized(r) \/ Authenticate(r)
    BY <1>4, <1>6, <2>1 DEF RequireInitialized, Authenticate, LateSteps
  <2>2. CASE GetByEmail(r)
    <3>1. Active(e) => ~req[r].late
      BY DEF LateInv, LateStays, Active
    <3> QED BY <1>6, <1>7, <2>2, <3>1 DEF GetByEmail, LateSteps
  <2>3. CASE PromoteCheck(r) \/ PromoteToSuperAdmin(r) \/ Dispatch(r)
    <3>1. ~req[r].late
      BY <1>9, <2>3 DEF PromoteCheck, PromoteToSuperAdmin, Dispatch, At, LateSteps
    <3> QED BY <1>4, <1>6, <1>8, <2>3, <3>1 DEF PromoteCheck, PromoteToSuperAdmin, Dispatch
  <2>4. CASE CreateCheck(r)
    BY <1>7, <2>4 DEF CreateCheck, LateSteps
  <2>5. CASE InsertUser(r)
    <3>1. req[r].late => Exists(e)
      <4>1. e \in Emails
        BY <2>5 DEF InsertUser, At, ReqOK
      <4> QED BY <1>0, <4>1 DEF LateInv, LateStays
    <3> QED BY <1>4, <1>8, <2>5, <3>1 DEF InsertUser, InsertRefused
  <2>6. CASE Handler(r)
    <3>1. ~req[r].late
      BY <1>9, <2>6 DEF Handler, CreateUser, CreateAuthulaUser, CreateAuthulaAccount, InsertCreated,
         UpdateUser, VerifyOldPassword, WritePassword, ClearMustChange, CheckRequester,
         SoftDeleteUser, At, LateSteps
    <3> QED BY <1>4, <1>6, <1>7, <2>6, <3>1 DEF Handler, CreateUser, CreateAuthulaUser,
            CreateAuthulaAccount, InsertCreated, UpdateUser, VerifyOldPassword, WritePassword,
            ClearMustChange, CheckRequester, SoftDeleteUser
  <2> QED BY <1>13, <2>1, <2>2, <2>3, <2>4, <2>5, <2>6 DEF RequestStep, Admission
<1>14. ASSUME NEW e \in Emails, OAuthSignIn(e) \/ PasswordSignIn(e) \/ EndSession(e)
       PROVE  LateInv'
  BY <1>2, <1>14 DEF OAuthSignIn, PasswordSignIn, EndSession, LateInv
<1>15. CASE UNCHANGED vars
  BY <1>2, <1>15 DEF vars, LateInv
<1> QED BY <1>10, <1>11, <1>12, <1>13, <1>14, <1>15 DEF Next

\* A request that arrives after its sender's row was deleted is never admitted, however long
\* it stays in flight and whatever others write meanwhile.
THEOREM UsersDeletedNeverAdmitted == Spec => []DeletedNeverAdmitted
<1>1. Init => LateInv
  BY DEF Init, LateInv, LateStays, Done
<1>2. LateInv => DeletedNeverAdmitted
  BY DEF LateInv, LateStays, LateSteps, DeletedNeverAdmitted, Admitted, HandlerSteps
<1> QED BY <1>1, <1>2, TypeInit, TypeInvariance, IdentityInit, IdentityInvariance, RowsInit,
        RowsInvariance, LateInvariance, PTL DEF Spec

-----------------------------------------------------------------------------
(* UserDirectory is what the table does.                                   *)

AdminValue == /\ \A e \in Emails : SuperAdminRow(e) => Admin = e
              /\ ~SuperExists => Admin = NoEmail

LEMMA AdminIs == OneHolder => AdminValue
<1> SUFFICES ASSUME OneHolder, NEW e \in Emails, SuperAdminRow(e) PROVE Admin = e
  BY DEF AdminValue, Admin, SuperExists
<1>1. Admin = CHOOSE o \in Emails : SuperAdminRow(o)
  BY DEF Admin
<1>2. Admin \in Emails /\ SuperAdminRow(Admin)
  BY <1>1
<1> QED BY <1>2 DEF OneHolder

LEMMA AdminIsNext == OneHolder' => AdminValue'
  BY AdminIs, PTL

\* Every step of the service is a step of the directory, or leaves it alone.
LEMMA DirectoryStep ==
    TypeOK /\ RowsInv /\ OneHolder /\ OneHolder' /\ RowStep =>
        [Directory!DirNext]_<<Standing, Admin>>
<1> SUFFICES ASSUME TablesOK, RowsInv, OneHolder, OneHolder', RowStep
             PROVE  [Directory!DirNext]_<<Standing, Admin>>
  BY TypeSplit
<1>0. ASSUME NEW e \in Emails, NEW row \in Row, Write(e, row)
      PROVE  /\ users'[e] = row
             /\ \A o \in Emails \ {e} : users'[o] = users[o]
             /\ Standing' = [Standing EXCEPT ![e] = IF row.role = "none" THEN "absent"
                                                    ELSE IF row.deleted THEN "deleted" ELSE "active"]
  BY <1>0 DEF Write, TablesOK, Standing, Exists
<1>1. ASSUME \A e \in Emails : SuperAdminRow(e)' = SuperAdminRow(e) PROVE Admin' = Admin
  BY <1>1, AdminIs, AdminIsNext DEF AdminValue, SuperExists
<1>2. ASSUME NEW e \in Emails, NEW row \in Row, Write(e, row),
             row.role = "super_admin" <=> SuperAdminRow(e)
      PROVE  Admin' = Admin
  BY <1>0, <1>1, <1>2 DEF SuperAdminRow
<1>3. ASSUME NEW e \in Emails, NEW row \in Row, Write(e, row), row.role = "super_admin",
             ~SuperAdminTaken(e)
      PROVE  /\ Admin' = e
             /\ SuperAdminRow(e) \/ Admin = NoEmail
  <2>1. SuperAdminRow(e)'
    BY <1>0, <1>3 DEF SuperAdminRow
  <2>2. ~SuperAdminRow(e) => ~SuperExists
    BY <1>3 DEF SuperAdminTaken, SuperExists
  <2> QED BY <2>1, <2>2, AdminIs, AdminIsNext DEF AdminValue
<1>4. CASE users' = users
  <2>1. Standing' = Standing
    BY <1>4 DEF Standing, Exists
  <2>2. Admin' = Admin
    BY <1>1, <1>4 DEF SuperAdminRow
  <2> QED BY <2>1, <2>2
<1>5. ASSUME NEW e \in Emails, Inserts(e) PROVE Directory!Join(e)
  <2>1. PICK row \in Row : /\ Write(e, row)
                           /\ row.role # "none" /\ row.deleted = FALSE
                           /\ row.role = "super_admin" => ~SuperAdminTaken(e)
    BY <1>5 DEF Inserts
  <2>2. Standing[e] = "absent" /\ ~SuperAdminRow(e)
    BY <1>5 DEF Inserts, Standing, Exists, SuperAdminRow
  <2>3. Standing' = [Standing EXCEPT ![e] = "active"]
    BY <1>0, <2>1
  <2>4. Admin' \in {Admin} \cup (IF Admin = NoEmail THEN {e} ELSE {})
    <3>1. CASE row.role = "super_admin"
      BY <1>3, <2>1, <2>2, <3>1
    <3>2. CASE row.role # "super_admin"
      BY <1>2, <2>1, <2>2, <3>2
    <3> QED BY <3>1, <3>2
  <2> QED BY <2>2, <2>3, <2>4 DEF Directory!Join
<1>6. ASSUME NEW e \in Emails, Active(e) PROVE users[e] \in Row /\ Standing[e] = "active"
  BY <1>6 DEF TablesOK, Active, Standing
<1>7. ASSUME NEW e \in Emails, Promotes(e)
      PROVE  Directory!Elect(e) \/ UNCHANGED <<Standing, Admin>>
  <2>1. PICK row : row = [users[e] EXCEPT !.role = "super_admin", !.mustChange = FALSE]
    OBVIOUS
  <2>2. row \in Row /\ row.role = "super_admin" /\ row.deleted = FALSE
    BY <1>6, <1>7, <2>1 DEF Promotes, Active, Row, Roles
  <2>3. Standing' = Standing
    <3>1. Standing' = [Standing EXCEPT ![e] = "active"]
      BY <1>0, <1>7, <2>1, <2>2 DEF Promotes
    <3> QED BY <1>6, <1>7, <3>1 DEF Promotes, Standing
  <2>4. Admin' = e /\ (SuperAdminRow(e) \/ Admin = NoEmail)
    BY <1>3, <1>7, <2>1, <2>2 DEF Promotes
  <2>5. SuperAdminRow(e) => Admin = e
    BY AdminIs DEF AdminValue
  <2> QED BY <1>6, <1>7, <2>3, <2>4, <2>5 DEF Promotes, Directory!Elect
<1>8. ASSUME NEW e \in Emails, Edits(e) \/ Clears(e) PROVE UNCHANGED <<Standing, Admin>>
  <2>1. Active(e)
    BY <1>8 DEF Edits, Clears
  <2>2. PICK row : /\ row = [users[e] EXCEPT !.edited = TRUE] \/ row = [users[e] EXCEPT !.mustChange = FALSE]
                   /\ Write(e, row)
    BY <1>8 DEF Edits, Clears
  <2>3. row \in Row /\ row.role = users[e].role /\ row.deleted = FALSE
    BY <1>6, <2>1, <2>2 DEF Active, Row
  <2>4. Standing' = Standing
    <3>1. Standing' = [Standing EXCEPT ![e] = "active"]
      BY <1>0, <2>1, <2>2, <2>3 DEF Active, Exists
    <3> QED BY <1>6, <2>1, <3>1 DEF Standing
  <2>5. Admin' = Admin
    BY <1>2, <2>2, <2>3 DEF SuperAdminRow
  <2> QED BY <2>4, <2>5
<1>9. ASSUME NEW e \in Emails, Deletes(e) PROVE Directory!Leave(e)
  <2>1. Active(e)
    BY <1>9 DEF Deletes
  <2>2. PICK row : row = [users[e] EXCEPT !.deleted = TRUE] /\ Write(e, row)
    BY <1>9 DEF Deletes
  <2>3. row \in Row /\ row.role = users[e].role /\ row.deleted
    BY <1>6, <2>1, <2>2 DEF Row
  <2>4. Standing' = [Standing EXCEPT ![e] = "deleted"]
    BY <1>0, <2>1, <2>2, <2>3 DEF Active, Exists
  <2>5. Admin' = Admin
    BY <1>2, <2>2, <2>3 DEF SuperAdminRow
  <2> QED BY <1>6, <2>1, <2>4, <2>5 DEF Directory!Leave
<1> QED BY <1>4, <1>5, <1>7, <1>8, <1>9 DEF RowStep, Directory!DirNext

\* The tables implement the directory: addresses join once and leave for good, and the role,
\* once given, stays where it is.
THEOREM UsersImplementDirectory == Spec => ImplementsDirectory
<1>1. Init => Directory!DirInit
  BY DEF Init, Directory!DirInit, Standing, Admin, Exists, SuperAdminRow, NoRow
<1>2. Init => OneHolder
  BY DEF Init, OneHolder, SuperAdminRow, NoRow
<1>3. TypeOK /\ IdentityInv /\ OneHolder /\ [Next]_vars => OneHolder'
  BY RoleSteps
<1>4. TypeOK /\ IdentityInv /\ RowsInv /\ OneHolder /\ [Next]_vars =>
        [Directory!DirNext]_<<Standing, Admin>>
  BY <1>3, RowSteps, DirectoryStep
<1>5. [Directory!DirNext]_<<Standing, Admin>> => [Directory!DirNext]_(Directory!dirVars)
  BY DEF Directory!dirVars
<1> QED BY <1>1, <1>2, <1>3, <1>4, <1>5, TypeInit, TypeInvariance, IdentityInit,
        IdentityInvariance, RowsInit, RowsInvariance, PTL
        DEF Spec, ImplementsDirectory, Directory!DirSpec

-----------------------------------------------------------------------------
(* Passwords.  Provisioning writes one where there is none; once an address *)
(* has a password it keeps having one.                                     *)

Pending(e) == \E r \in Requests : At(r, "authulaAccount") /\ req[r].target = e

\* The two halves: of a request about to write a password, and of one changing it.
Provisions(r) == At(r, "authulaAccount") =>
    /\ credential[req[r].target] = "none"
    /\ \A q \in Requests : At(q, "authulaAccount") /\ req[q].target = req[r].target => q = r
Changes(r) ==
    /\ At(r, "writePassword") => credential[req[r].actor] # "none"
    /\ At(r, "clearFlag") => credential[req[r].actor] = "own"

CredInv == \A r \in Requests : Provisions(r) /\ Changes(r)

Writing == {"authulaAccount", "writePassword", "clearFlag"}

LEMMA CredInvariance == TypeOK /\ IdentityInv /\ CredInv /\ [Next]_vars => CredInv'
<1> SUFFICES ASSUME TablesOK, ReqOK, IdentityInv, CredInv, [Next]_vars PROVE CredInv'
  BY TypeSplit
<1> USE DEF tables, unmoved, Reject
<1>0. \A q \in Requests : req[q].pc \in Writing => req[q].actor \in Emails /\ req[q].target \in Emails
  BY DEF Writing, ReqOK, At
\* A step by r, with what is left to say about r itself and about the other requests.
<1>1. ASSUME NEW r \in Requests, Others(r), Changes(r)', req'[r].pc # "authulaAccount",
             \A q \in Requests \ {r} :
               /\ At(q, "authulaAccount") => credential'[req[q].target] = "none"
               /\ At(q, "writePassword") => credential'[req[q].actor] # "none"
               /\ At(q, "clearFlag") => credential'[req[q].actor] = "own"
      PROVE  CredInv'
  BY <1>1 DEF CredInv, Provisions, Changes, Others, At
<1>2. ASSUME NEW r \in Requests, Others(r), req'[r].pc \notin Writing, credential' = credential
      PROVE  CredInv'
  <2>1. Changes(r)'
    BY <1>2 DEF Changes, Writing, At
  <2> QED BY <1>1, <1>2, <2>1 DEF CredInv, Provisions, Changes, Writing
<1>3. ASSUME NEW r \in Requests, NEW status, Reply(r, status), credential' = credential
      PROVE  CredInv'
  <2>1. Others(r) /\ req'[r].pc = "idle"
    BY <1>3, ReplyEffect
  <2> QED BY <1>2, <1>3, <2>1 DEF Writing
<1>4. ASSUME NEW r \in Requests, NEW row, Admit(r, row), credential' = credential PROVE CredInv'
  <2>1. Others(r) /\ req'[r].pc \in {"idle", "dispatch"}
    BY <1>4, AdmitEffect
  <2> QED BY <1>2, <1>4, <2>1 DEF Writing
<1>5. ASSUME NEW r \in Requests, NEW pc, Goto(r, pc), pc \notin Writing, credential' = credential
      PROVE  CredInv'
  BY <1>2, <1>5, GotoEffect
<1>6. ASSUME NEW r \in Requests, NEW pc, NEW row, Hold(r, pc, row), pc \notin Writing,
             credential' = credential
      PROVE  CredInv'
  BY <1>2, <1>6, HoldEffect
<1>7. ASSUME NEW r \in Requests, SignUp(r) PROVE CredInv'
  <2> PICK e \in Emails : /\ e \notin authula
                          /\ credential' = [credential EXCEPT ![e] = "own"]
                          /\ req' = [req EXCEPT ![r] = NewRequest("getByEmail", "hook", e, e)]
    BY <1>7 DEF SignUp
  <2>1. Others(r)
    BY DEF Others, ReqOK
  <2>2. req'[r].pc = "getByEmail"
    BY DEF NewRequest, ReqOK
  <2>3. \A q \in Requests : /\ At(q, "authulaAccount") => req[q].target \in authula
                            /\ req[q].pc \in Writing => req[q].actor \in authula
    BY DEF IdentityInv, Writing, At
  <2>4. \A o \in authula : o \in Emails => credential'[o] = credential[o]
    BY DEF TablesOK
  <2>5. Changes(r)'
    BY <2>2 DEF Changes, At
  <2> QED BY <1>0, <1>1, <2>1, <2>2, <2>3, <2>4, <2>5 DEF CredInv, Provisions, Changes, Writing, At
<1>8. ASSUME NEW r \in Requests, Receive(r) PROVE CredInv'
  <2>1. Others(r) /\ credential' = credential
    BY <1>8 DEF Receive, Others, ReqOK
  <2>2. req'[r].pc \in {"authenticate", "countUsers"}
    BY <1>8 DEF Receive, NewRequest, ReqOK
  <2> QED BY <1>2, <2>1, <2>2 DEF Writing
<1>9. ASSUME NEW r \in Requests, Fail(r) PROVE CredInv'
  BY <1>3, <1>5, <1>9 DEF Fail, Writing
<1>10. ASSUME NEW r \in Requests, Admission(r) PROVE CredInv'
  BY <1>3, <1>4, <1>5, <1>6, <1>10 DEF Admission, RequireInitialized, Authenticate, GetByEmail,
     PromoteCheck, PromoteToSuperAdmin, CreateCheck, InsertUser, Dispatch, FirstStep, Writing
<1>11. ASSUME NEW r \in Requests, Handler(r) PROVE CredInv'
  <2> DEFINE e == req[r].actor  t == req[r].target
  <2>1. CASE \/ CreateUser(r) \/ InsertCreated(r) \/ UpdateUser(r) \/ ClearMustChange(r)
             \/ CheckRequester(r) \/ SoftDeleteUser(r)
    BY <1>3, <1>5, <1>6, <2>1 DEF CreateUser, InsertCreated, UpdateUser, ClearMustChange,
       CheckRequester, SoftDeleteUser, Writing
  <2>2. CASE CreateAuthulaUser(r)
    <3>1. CASE t \notin authula /\ Goto(r, "authulaAccount")
      <4>1. Others(r) /\ SameRequest(r) /\ req'[r].pc = "authulaAccount"
        BY <3>1, GotoEffect
      <4>2. t \in Emails /\ credential[t] = "none" /\ credential' = credential
        BY <2>2, <3>1 DEF CreateAuthulaUser, At, ReqOK, IdentityInv, TablesOK
      <4>3. \A q \in Requests : At(q, "authulaAccount") => req[q].target # t
        BY <3>1 DEF IdentityInv
      <4> QED BY <4>1, <4>2, <4>3 DEF CredInv, Provisions, Changes, SameRequest, Others, At
    <3> QED BY <1>3, <2>2, <3>1 DEF CreateAuthulaUser
  <2>3. CASE CreateAuthulaAccount(r)
    <3>1. Others(r) /\ req'[r].pc = "insertCreated"
      BY <2>3, GotoEffect DEF CreateAuthulaAccount
    <3>2. /\ t \in Emails /\ credential[t] = "none"
          /\ \A q \in Requests : At(q, "authulaAccount") /\ req[q].target = t => q = r
      BY <2>3 DEF CreateAuthulaAccount, At, ReqOK, CredInv, Provisions
    <3>3. \A o \in Emails : o # t => credential'[o] = credential[o]
      BY <2>3 DEF CreateAuthulaAccount, TablesOK
    <3>4. Changes(r)'
      BY <3>1 DEF Changes, At
    <3>5. \A q \in Requests \ {r} :
               /\ At(q, "authulaAccount") => req[q].target \in Emails \ {t}
               /\ At(q, "writePassword") \/ At(q, "clearFlag") => req[q].actor \in Emails \ {t}
      BY <1>0, <3>2 DEF CredInv, Provisions, Changes, Writing, At
    <3> QED BY <1>1, <3>1, <3>3, <3>4, <3>5 DEF CredInv, Provisions, Changes
  <2>4. CASE VerifyOldPassword(r)
    <3>1. CASE PasswordKnown(e) /\ Goto(r, "writePassword")
      <4>1. Others(r) /\ SameRequest(r) /\ req'[r].pc = "writePassword"
        BY <3>1, GotoEffect
      <4>2. credential' = credential /\ credential[e] # "none"
        BY <2>4, <3>1 DEF VerifyOldPassword, PasswordKnown
      <4>3. Changes(r)'
        BY <4>1, <4>2 DEF Changes, SameRequest, At
      <4> QED BY <1>1, <4>1, <4>2, <4>3 DEF CredInv, Provisions, Changes
    <3> QED BY <1>3, <2>4, <3>1 DEF VerifyOldPassword
  <2>5. CASE WritePassword(r)
    <3>1. Others(r) /\ SameRequest(r) /\ req'[r].pc = "clearFlag"
      BY <2>5, GotoEffect DEF WritePassword
    <3>2. e \in Emails /\ credential[e] # "none"
      BY <2>5 DEF WritePassword, At, ReqOK, CredInv, Changes
    <3>3. \A o \in Emails : credential'[o] = IF o = e THEN "own" ELSE credential[o]
      BY <2>5 DEF WritePassword, TablesOK
    <3>4. Changes(r)'
      BY <3>1, <3>2, <3>3 DEF Changes, SameRequest, At
    <3> QED BY <1>0, <1>1, <3>1, <3>2, <3>3, <3>4 DEF CredInv, Provisions, Changes, Writing, At
  <2> QED BY <1>11, <2>1, <2>2, <2>3, <2>4, <2>5 DEF Handler
<1>12. ASSUME req' = req, credential' = credential PROVE CredInv'
  BY <1>12 DEF CredInv, Provisions, Changes, At
<1>13. ASSUME NEW e \in Emails, OAuthSignIn(e) \/ PasswordSignIn(e) \/ EndSession(e)
       PROVE  CredInv'
  BY <1>12, <1>13 DEF OAuthSignIn, PasswordSignIn, EndSession
<1>14. CASE UNCHANGED vars
  BY <1>12, <1>14 DEF vars
<1> QED BY <1>7, <1>8, <1>9, <1>10, <1>11, <1>13, <1>14 DEF Next, RequestStep

LEMMA CredInit == Init => CredInv
  BY DEF Init, CredInv, Provisions, Changes, At, Done

-----------------------------------------------------------------------------
(* Temporary passwords.  From the moment one is about to be written until  *)
(* its owner replaces it, his row carries the flag and so does every copy  *)
(* of it that a request of his holds.                                      *)

Temp(e) == credential[e] = "temp" \/ Pending(e)

\* One comes into being only for an address without identity, row or requests.
LEMMA TempChange ==
    ASSUME TypeOK, IdentityInv, ServiceInv, [Next]_vars, NEW e \in Emails, Temp(e)'
    PROVE  \/ Temp(e)
           \/ /\ e \notin authula /\ SuperExists
              /\ users' = users \/ users' = [users EXCEPT ![e] = NewRow("user", TRUE)]
<1> SUFFICES ASSUME TablesOK, ReqOK PROVE
           \/ Temp(e)
           \/ /\ e \notin authula /\ SuperExists
              /\ users' = users \/ users' = [users EXCEPT ![e] = NewRow("user", TRUE)]
  BY TypeSplit
<1> USE DEF tables, unmoved, Reject
<1>1. ASSUME NEW r \in Requests, Others(r), req'[r].pc # "authulaAccount",
             credential'[e] = "temp" => credential[e] = "temp"
      PROVE  Temp(e)
  BY <1>1 DEF Temp, Pending, Others, At
<1>2. ASSUME NEW r \in Requests, NEW status, Reply(r, status), credential' = credential
      PROVE  Temp(e)
  BY <1>1, <1>2, ReplyEffect
<1>3. ASSUME NEW r \in Requests, NEW row, Admit(r, row), credential' = credential PROVE Temp(e)
  BY <1>1, <1>3, AdmitEffect
<1>4. ASSUME NEW r \in Requests, NEW pc, Goto(r, pc), pc # "authulaAccount",
             credential'[e] = "temp" => credential[e] = "temp"
      PROVE  Temp(e)
  BY <1>1, <1>4, GotoEffect
<1>5. ASSUME NEW r \in Requests, NEW pc, NEW row, Hold(r, pc, row), pc # "authulaAccount",
             credential' = credential
      PROVE  Temp(e)
  BY <1>1, <1>5, HoldEffect
<1>6. ASSUME NEW r \in Requests, SignUp(r) \/ Receive(r) PROVE Temp(e)
  <2>1. Others(r)
    BY <1>6 DEF SignUp, Receive, Others, ReqOK
  <2>2. req'[r].pc \in {"getByEmail", "authenticate", "countUsers"}
    BY <1>6 DEF SignUp, Receive, NewRequest, ReqOK
  <2>3. credential'[e] = "temp" => credential[e] = "temp"
    BY <1>6 DEF SignUp, Receive, TablesOK
  <2> QED BY <1>1, <2>1, <2>2, <2>3
<1>7. ASSUME NEW r \in Requests, Fail(r) PROVE Temp(e)
  BY <1>2, <1>4, <1>7 DEF Fail
<1>8. ASSUME NEW r \in Requests, Admission(r) PROVE Temp(e)
  BY <1>2, <1>3, <1>4, <1>5, <1>8 DEF Admission, RequireInitialized, Authenticate, GetByEmail,
     PromoteCheck, PromoteToSuperAdmin, CreateCheck, InsertUser, Dispatch, FirstStep
<1>9. ASSUME NEW r \in Requests, CreateAuthulaUser(r), ~Temp(e)
      PROVE  /\ e \notin authula /\ SuperExists
             /\ users' = users \/ users' = [users EXCEPT ![e] = NewRow("user", TRUE)]
  <2> DEFINE t == req[r].target
  <2>1. CASE t \notin authula /\ AuthulaInsert(t) /\ Goto(r, "authulaAccount")
    <3>1. Others(r) /\ SameRequest(r) /\ req'[r].pc = "authulaAccount"
      BY <2>1, GotoEffect
    <3>2. e = t
      BY <1>9, <3>1 DEF CreateAuthulaUser, Temp, Pending, Others, SameRequest, At
    <3>3. SuperExists
      BY <1>9 DEF CreateAuthulaUser, ServiceInv, Served, Admitted, HandlerSteps, At
    <3> QED BY <2>1, <3>2, <3>3 DEF AuthulaInsert
  <2> QED BY <1>2, <1>9, <2>1 DEF CreateAuthulaUser
<1>10. ASSUME NEW r \in Requests, CreateAuthulaAccount(r) PROVE Temp(e)
  <2>1. CASE e = req[r].target
    BY <1>10, <2>1 DEF CreateAuthulaAccount, Temp, Pending
  <2>2. CASE e # req[r].target
    <3>1. credential'[e] = credential[e]
      BY <1>10, <2>2 DEF CreateAuthulaAccount, TablesOK
    <3> QED BY <1>4, <1>10, <3>1 DEF CreateAuthulaAccount
  <2> QED BY <2>1, <2>2
<1>11. ASSUME NEW r \in Requests, WritePassword(r) PROVE Temp(e)
  <2>1. credential'[e] = "temp" => credential[e] = "temp"
    BY <1>11 DEF WritePassword, TablesOK
  <2> QED BY <1>4, <1>11, <2>1 DEF WritePassword
<1>12. ASSUME NEW r \in Requests,
              \/ CreateUser(r) \/ InsertCreated(r) \/ UpdateUser(r) \/ VerifyOldPassword(r)
              \/ ClearMustChange(r) \/ CheckRequester(r) \/ SoftDeleteUser(r)
       PROVE  Temp(e)
  BY <1>2, <1>4, <1>5, <1>12 DEF CreateUser, InsertCreated, UpdateUser, VerifyOldPassword,
     ClearMustChange, CheckRequester, SoftDeleteUser
<1>13. ASSUME req' = req, credential' = credential PROVE Temp(e)
  BY <1>13 DEF Temp, Pending, At
<1>14. ASSUME NEW o \in Emails, OAuthSignIn(o) \/ PasswordSignIn(o) \/ EndSession(o)
       PROVE  Temp(e)
  BY <1>13, <1>14 DEF OAuthSignIn, PasswordSignIn, EndSession
<1>15. CASE UNCHANGED vars
  BY <1>13, <1>15 DEF vars
<1> QED BY <1>6, <1>7, <1>8, <1>9, <1>10, <1>11, <1>12, <1>14, <1>15
        DEF Next, RequestStep, Handler

\* The row behind a temporary password, before and after it is inserted.
TempRow(e) == Temp(e) => /\ SuperExists /\ ~SuperAdminRow(e)
                         /\ Exists(e) => users[e].mustChange = TRUE
TempRows == \A e \in Emails : TempRow(e)

LEMMA TempRowsInvariance ==
    /\ TypeOK /\ IdentityInv /\ RowsInv /\ ServiceInv /\ CredInv /\ TempRows
    /\ [Next]_vars
    => TempRows'
<1> SUFFICES ASSUME TypeOK, TablesOK, IdentityInv, RowsInv, ServiceInv, CredInv, TempRows,
                    [Next]_vars, NEW e \in Emails, Temp(e)'
             PROVE  /\ SuperExists' /\ ~SuperAdminRow(e)'
                    /\ Exists(e)' => users'[e].mustChange = TRUE
  BY TypeSplit DEF TempRows, TempRow
<1>1. SuperExists => SuperExists'
  BY RoleSteps DEF SuperExists
<1>2. ASSUME NEW row \in Row, Write(e, row) PROVE users'[e] = row
  BY <1>2 DEF Write, TablesOK
<1>3. CASE Temp(e)
  <2>1. /\ SuperExists /\ ~SuperAdminRow(e)
        /\ Exists(e) => users[e].mustChange = TRUE
    BY <1>3 DEF TempRows, TempRow
  <2>2. SuperAdminTaken(e)
    BY <2>1 DEF SuperExists, SuperAdminTaken
  <2>3. CASE users'[e] = users[e]
    BY <1>1, <2>1, <2>3 DEF SuperAdminRow, Exists
  <2>4. CASE Inserts(e)
    BY <1>1, <1>2, <2>1, <2>2, <2>4 DEF Inserts, SuperAdminRow
  <2>5. ~Promotes(e)
    BY <2>2 DEF Promotes
  <2>6. ~Clears(e)
    BY <1>3 DEF Clears, Temp, Pending, CredInv, Provisions, Changes
  <2>7. CASE Edits(e) \/ Deletes(e)
    <3>1. Active(e) /\ users[e] \in Row
      BY <2>7 DEF Edits, Deletes, TablesOK
    <3>2. PICK row : /\ row = [users[e] EXCEPT !.edited = TRUE] \/ row = [users[e] EXCEPT !.deleted = TRUE]
                     /\ Write(e, row)
      BY <2>7 DEF Edits, Deletes
    <3>3. row \in Row /\ row.role = users[e].role /\ row.mustChange = users[e].mustChange
      BY <3>1, <3>2 DEF Row
    <3> QED BY <1>1, <1>2, <2>1, <3>1, <3>2, <3>3 DEF Active, SuperAdminRow
  <2>8. ASSUME NEW o \in Emails, o # e,
               Inserts(o) \/ Promotes(o) \/ Edits(o) \/ Clears(o) \/ Deletes(o)
        PROVE  users'[e] = users[e]
    BY <2>8 DEF Inserts, Promotes, Edits, Clears, Deletes, Write, TablesOK
  <2>9. RowStep
    BY RowSteps
  <2> QED BY <2>3, <2>4, <2>5, <2>6, <2>7, <2>8, <2>9 DEF RowStep
<1>4. CASE ~Temp(e)
  <2>1. /\ e \notin authula /\ SuperExists
        /\ users' = users \/ users' = [users EXCEPT ![e] = NewRow("user", TRUE)]
    BY <1>4, TempChange
  <2>2. ~Exists(e)
    BY <2>1 DEF IdentityInv
  <2> QED BY <1>1, <2>1, <2>2 DEF TablesOK, Exists, SuperAdminRow, NewRow
<1> QED BY <1>3, <1>4

\* The copies of that row, and the handlers they let run.
TempCopy(r) == Temp(req[r].actor) =>
    /\ At(r, "promoteCheck") \/ At(r, "dispatch") => req[r].row.mustChange = TRUE
    /\ req[r].pc \in HandlerSteps => req[r].op \in Ungated
TempCopies == \A r \in Requests : TempCopy(r)

LEMMA TempCopiesInvariance ==
    /\ TypeOK /\ IdentityInv /\ RowsInv /\ ServiceInv /\ TempRows /\ TempCopies
    /\ [Next]_vars
    => TempCopies'
<1> SUFFICES ASSUME TypeOK, TablesOK, ReqOK, IdentityInv, RowsInv, ServiceInv, TempRows, TempCopies,
                    [Next]_vars
             PROVE  TempCopies'
  BY TypeSplit
<1> USE DEF tables, unmoved, Reject
<1> DEFINE Watched == {"promoteCheck", "dispatch"} \cup HandlerSteps
\* Nobody in flight gets a temporary password, for Authula knows him already.
<1>0. ASSUME NEW q \in Requests, ~At(q, "idle"), Temp(req[q].actor)' , req'[q].actor = req[q].actor
      PROVE  Temp(req[q].actor)
  <2>1. PICK e \in Emails : e = req[q].actor /\ e \in authula
    BY <1>0 DEF IdentityInv, ReqOK
  <2>2. Temp(e)'
    BY <1>0, <2>1 DEF Temp, Pending, At
  <2>3. Temp(e)
    BY <2>1, <2>2, TempChange
  <2> QED BY <2>1, <2>3
<1>1. ASSUME NEW q \in Requests, req'[q] = req[q] PROVE TempCopy(q)'
  <2>1. CASE At(q, "idle")
    BY <1>1, <2>1 DEF TempCopy, At, HandlerSteps
  <2>2. CASE ~At(q, "idle")
    BY <1>0, <1>1, <2>2 DEF TempCopies, TempCopy, At
  <2> QED BY <2>1, <2>2
<1>2. ASSUME NEW r \in Requests, Others(r), TempCopy(r)' PROVE TempCopies'
  BY <1>1, <1>2 DEF TempCopies, Others
<1>3. ASSUME NEW r \in Requests, Others(r), req'[r].pc \notin Watched PROVE TempCopies'
  BY <1>2, <1>3 DEF TempCopy, At
<1>4. ASSUME NEW r \in Requests, NEW status, Reply(r, status) PROVE TempCopies'
  BY <1>3, <1>4, ReplyEffect DEF HandlerSteps
<1>5. ASSUME NEW r \in Requests, NEW pc, Goto(r, pc), pc \notin Watched PROVE TempCopies'
  BY <1>3, <1>5, GotoEffect
<1>6. ASSUME NEW r \in Requests, NEW pc \in {"promoteCheck", "dispatch"}, NEW row,
             Others(r), SameRequest(r), req'[r].pc = pc, req'[r].row = row,
             ~At(r, "idle"), Temp(req[r].actor) => row.mustChange = TRUE
      PROVE  TempCopies'
  <2>1. TempCopy(r)'
    BY <1>0, <1>6 DEF SameRequest, TempCopy, At, HandlerSteps
  <2> QED BY <1>2, <1>6, <2>1
<1>7. ASSUME NEW r \in Requests, NEW row, Admit(r, row), ~At(r, "idle"),
             Temp(req[r].actor) => row.mustChange = TRUE
      PROVE  TempCopies'
  BY <1>4, <1>6, <1>7, HoldEffect DEF Admit
<1>8. ASSUME NEW r \in Requests, NEW pc \in HandlerSteps, Others(r), SameRequest(r), req'[r].pc = pc,
             ~At(r, "idle"), Temp(req[r].actor) => req[r].op \in Ungated
      PROVE  TempCopies'
  <2>1. TempCopy(r)'
    BY <1>0, <1>8 DEF SameRequest, TempCopy, At, HandlerSteps
  <2> QED BY <1>2, <1>8, <2>1
<1>9. ASSUME NEW r \in Requests, NEW pc \in HandlerSteps, Goto(r, pc), req[r].pc \in HandlerSteps
      PROVE  TempCopies'
  <2>1. Temp(req[r].actor) => req[r].op \in Ungated
    BY <1>9 DEF TempCopies, TempCopy
  <2>2. ~At(r, "idle")
    BY <1>9 DEF At, HandlerSteps
  <2> QED BY <1>8, <1>9, <2>1, <2>2, GotoEffect
<1>10. ASSUME NEW r \in Requests, SignUp(r) \/ Receive(r) PROVE TempCopies'
  <2>1. Others(r)
    BY <1>10 DEF SignUp, Receive, Others, ReqOK
  <2>2. req'[r].pc \in {"getByEmail", "authenticate", "countUsers"}
    BY <1>10 DEF SignUp, Receive, NewRequest, ReqOK
  <2> QED BY <1>3, <2>1, <2>2 DEF HandlerSteps
<1>11. ASSUME NEW r \in Requests, Fail(r) PROVE TempCopies'
  BY <1>4, <1>5, <1>11 DEF Fail, HandlerSteps
<1>12. ASSUME NEW r \in Requests, Admission(r) PROVE TempCopies'
  <2> DEFINE e == req[r].actor  row == req[r].row
  <2>0. ~At(r, "idle") /\ e \in Emails
    BY <1>12 DEF Admission, RequireInitialized, Authenticate, GetByEmail, PromoteCheck,
       PromoteToSuperAdmin, CreateCheck, InsertUser, Dispatch, At, ReqOK
  <2>1. Temp(e) => SuperAdminTaken(e)
    BY <2>0 DEF TempRows, TempRow, SuperExists, SuperAdminTaken
  <2>2. CASE RequireInitialized(r) \/ Authenticate(r)
    BY <1>4, <1>5, <2>2 DEF RequireInitialized, Authenticate, HandlerSteps
  <2>3. CASE GetByEmail(r)
    <3>1. CASE Active(e) /\ Hold(r, "promoteCheck", users[e])
      <4>1. PICK copy : copy = users[e]
        OBVIOUS
      <4>2. Temp(e) => copy.mustChange = TRUE
        BY <2>0, <3>1, <4>1 DEF Active, TempRows, TempRow
      <4>3. Hold(r, "promoteCheck", copy)
        BY <3>1, <4>1
      <4> QED BY <1>6, <2>0, <4>2, <4>3, HoldEffect
    <3> QED BY <1>5, <2>3, <3>1 DEF GetByEmail, HandlerSteps
  <2>4. CASE PromoteCheck(r)
    <3>1. Temp(e) => row.mustChange = TRUE
      BY <2>4 DEF PromoteCheck, TempCopies, TempCopy
    <3> QED BY <1>5, <1>7, <2>0, <2>4, <3>1 DEF PromoteCheck, HandlerSteps
  <2>5. CASE PromoteToSuperAdmin(r)
    BY <1>4, <1>7, <2>0, <2>1, <2>5 DEF PromoteToSuperAdmin
  <2>6. CASE CreateCheck(r)
    <3>1. Others(r) /\ req'[r].pc = "insert"
      BY <2>6, HoldEffect DEF CreateCheck
    <3> QED BY <1>3, <3>1 DEF HandlerSteps
  <2>7. CASE InsertUser(r)
    <3>1. row.role = "super_admin" \/ row.mustChange = TRUE
      BY <2>7 DEF InsertUser, At, RowsInv, Drafts
    <3> QED BY <1>4, <1>7, <2>0, <2>1, <2>7, <3>1 DEF InsertUser, InsertRefused
  <2>8. CASE Dispatch(r)
    <3>1. Temp(e) /\ PasswordGate(r) => req[r].op \in Ungated
      BY <2>8 DEF Dispatch, PasswordGate, TempCopies, TempCopy
    <3>2. ASSUME NEW pc \in HandlerSteps, Goto(r, pc), PasswordGate(r) PROVE TempCopies'
      BY <1>8, <2>0, <3>1, <3>2, GotoEffect
    <3>3. \A op \in DOMAIN FirstStep : FirstStep[op] \in HandlerSteps
      BY DEF FirstStep, HandlerSteps
    <3> QED BY <1>4, <2>8, <3>2, <3>3 DEF Dispatch
  <2> QED BY <1>12, <2>2, <2>3, <2>4, <2>5, <2>6, <2>7, <2>8 DEF Admission
<1>13. ASSUME NEW r \in Requests, Handler(r) PROVE TempCopies'
  <2>1. CASE CreateUser(r)
    <3>1. Others(r) /\ SameRequest(r) /\ req'[r].pc = "authulaUser"
      BY <2>1, HoldEffect DEF CreateUser
    <3>2. ~At(r, "idle") /\ (Temp(req[r].actor) => req[r].op \in Ungated)
      BY <2>1 DEF CreateUser, At, HandlerSteps, TempCopies, TempCopy
    <3>3. "authulaUser" \in HandlerSteps
      BY DEF HandlerSteps
    <3> QED BY <1>8, <3>1, <3>2, <3>3
  <2>2. CASE \/ CreateAuthulaUser(r) \/ CreateAuthulaAccount(r) \/ VerifyOldPassword(r)
             \/ WritePassword(r) \/ CheckRequester(r)
    BY <1>4, <1>9, <2>2 DEF CreateAuthulaUser, CreateAuthulaAccount, VerifyOldPassword,
       WritePassword, CheckRequester, At, HandlerSteps
  <2>3. CASE InsertCreated(r) \/ UpdateUser(r) \/ ClearMustChange(r) \/ SoftDeleteUser(r)
    BY <1>4, <2>3 DEF InsertCreated, UpdateUser, ClearMustChange, SoftDeleteUser
  <2> QED BY <1>13, <2>1, <2>2, <2>3 DEF Handler
<1>14. ASSUME req' = req PROVE TempCopies'
  BY <1>1, <1>14 DEF TempCopies
<1>15. ASSUME NEW e \in Emails, OAuthSignIn(e) \/ PasswordSignIn(e) \/ EndSession(e)
       PROVE  TempCopies'
  BY <1>14, <1>15 DEF OAuthSignIn, PasswordSignIn, EndSession
<1>16. CASE UNCHANGED vars
  BY <1>14, <1>16 DEF vars
<1> QED BY <1>10, <1>11, <1>12, <1>13, <1>15, <1>16 DEF Next, RequestStep

\* RequirePasswordChanged judges a copy of the row made earlier in the request; still nobody
\* whose password is the temporary one an admin gave him gets past it.
THEOREM UsersTempPasswordNeverServed == Spec => []TempPasswordNeverServed
<1>1. Init => ServiceInv /\ TempRows /\ TempCopies
  BY DEF Init, ServiceInv, Served, Admitted, TempRows, TempRow, TempCopies, TempCopy, Temp, Pending,
     At, Done, HandlerSteps
<1>2. TempCopies => TempPasswordNeverServed
  BY DEF TempCopies, TempCopy, Temp, TempPasswordNeverServed, PastGate, PasswordGate, At
<1> QED BY <1>1, <1>2, TypeInit, TypeInvariance, IdentityInit, IdentityInvariance, RowsInit,
        RowsInvariance, CredInit, CredInvariance, ServiceInvariance, TempRowsInvariance,
        TempCopiesInvariance, PTL DEF Spec

-----------------------------------------------------------------------------
(* A sign-up elects: whatever keeps the mirror hook from giving the role   *)
(* away (a row that is gone, a row that is there already, a taken role)    *)
(* shows that somebody held it before.                                     *)

\* Where Authula has its own table, the rows of `users` come from GetOrCreate and
\* CreateUser alone; where it shares the table, a hook finds the row of its own sign-up.
HookAt(r) ==
    /\ req[r].op = "hook" /\ ~At(r, "idle") =>
          /\ req[r].pc \in GetOrCreateSteps
          /\ AuthulaSharesTable => Exists(req[r].actor)
    /\ req[r].pc \in {"promoteCheck", "promote"} => Exists(req[r].actor)
    /\ req[r].op = "hook" /\ AuthulaSharesTable /\ req[r].pc \in {"createCheck", "insert"} =>
          SuperExists

ElectInv ==
    /\ \A e \in Emails : users[e].deleted => SuperExists
    /\ ~AuthulaSharesTable => \A e \in Emails : Exists(e) => SuperExists
    /\ \A r \in Requests : HookAt(r)

\* What the proofs of a step need, and what it can build on.
Ground == TypeOK /\ IdentityInv /\ ServiceInv /\ RowsInv /\ ElectInv

LEMMA GroundFacts ==
    ASSUME Ground, [Next]_vars
    PROVE  /\ TablesOK /\ ReqOK /\ RowStep
           /\ SuperExists => SuperExists'
           /\ \A e \in Emails : Exists(e) => Exists(e)'
           /\ \A e \in Emails : users'[e].deleted => users[e].deleted \/ Deletes(e)
<1>1. TypeOK /\ IdentityInv /\ RowsInv
  BY DEF Ground
<1>2. RowStep
  BY <1>1, RowSteps
<1> QED BY <1>1, <1>2, TypeSplit, RoleSteps, RowStepKeeps DEF SuperExists

LEMMA ElectRows ==
    ASSUME Ground, [Next]_vars
    PROVE  /\ \A e \in Emails : users'[e].deleted => SuperExists'
           /\ ~AuthulaSharesTable => \A e \in Emails : Exists(e)' => SuperExists'
<1> USE DEF tables, unmoved
<1>0. TablesOK /\ ReqOK /\ (SuperExists => SuperExists')
  BY GroundFacts
<1>1. ASSUME NEW e \in Emails, users'[e].deleted PROVE SuperExists'
  <2>0. users[e].deleted \/ Deletes(e)
    BY <1>1, GroundFacts
  <2>1. CASE users[e].deleted
    BY <1>0, <2>1 DEF Ground, ElectInv
  <2>2. CASE Deletes(e)
    <3>1. PICK r \in Requests : At(r, "softDelete")
      BY <2>2 DEF Deletes
    <3>2. Served(r)
      BY <3>1 DEF Served, Admitted, At, HandlerSteps
    <3> QED BY <1>0, <3>2 DEF Ground, ServiceInv
  <2> QED BY <2>0, <2>1, <2>2
<1>2. ASSUME ~AuthulaSharesTable, NEW e \in Emails, Exists(e)' PROVE SuperExists'
  <2>1. CASE SuperExists
    BY <1>0, <2>1
  <2>2. CASE ~SuperExists
    <3>1. \A o \in Emails : ~Exists(o)
      BY <1>2, <2>2 DEF Ground, ElectInv
    <3>2. users' # users
      BY <1>2, <3>1 DEF Exists
    <3>3. \A r \in Requests : ~Served(r)
      BY <2>2 DEF Ground, ServiceInv
    <3>4. \A r \in Requests : ~SignUp(r) /\ ~Receive(r) /\ ~Fail(r)
      BY <1>2, <3>2 DEF SignUp, Receive, Fail, AuthulaInsert
    <3>5. \A o \in Emails : ~OAuthSignIn(o) /\ ~PasswordSignIn(o) /\ ~EndSession(o)
      BY <1>2, <3>2 DEF OAuthSignIn, PasswordSignIn, EndSession, AuthulaInsert
    <3>6. PICK r \in Requests : RequestStep(r)
      BY <3>2, <3>4, <3>5 DEF Next, vars
    <3>7. ~Admitted(r)
      BY <3>3 DEF Served
    <3>8. ~Handler(r)
      BY <3>7 DEF Handler, CreateUser, CreateAuthulaUser, CreateAuthulaAccount, InsertCreated,
         UpdateUser, VerifyOldPassword, WritePassword, ClearMustChange, CheckRequester,
         SoftDeleteUser, Admitted, HandlerSteps, At
    <3>9. PromoteToSuperAdmin(r) \/ InsertUser(r)
      BY <3>2, <3>6, <3>8 DEF RequestStep, Admission, RequireInitialized, Authenticate,
         GetByEmail, PromoteCheck, CreateCheck, Dispatch
    <3> DEFINE a == req[r].actor  row == req[r].row
    <3>10. a \in Emails /\ users[a] \in Row
      BY <1>0, <3>9 DEF PromoteToSuperAdmin, InsertUser, At, ReqOK, TablesOK
    <3>11. ~PromoteToSuperAdmin(r)
      BY <3>1, <3>2, <3>10 DEF PromoteToSuperAdmin, Active
    <3>12. InsertUser(r) /\ users' = [users EXCEPT ![a] = row]
      BY <3>2, <3>9, <3>11 DEF InsertUser
    <3>13. row.role = "super_admin"
      BY <3>3, <3>12 DEF InsertUser, Served
    <3>14. PICK o \in Emails : o = a /\ users'[o].role = "super_admin"
      BY <1>0, <3>10, <3>12, <3>13 DEF TablesOK
    <3> QED BY <3>14 DEF SuperExists, SuperAdminRow
  <2> QED BY <2>1, <2>2
<1> QED BY <1>1, <1>2

\* A step of one request leaves what is said of the others.
LEMMA HookOthers ==
    ASSUME Ground, [Next]_vars, NEW r \in Requests, Others(r), HookAt(r)'
    PROVE  \A q \in Requests : HookAt(q)'
<1> SUFFICES ASSUME NEW q \in Requests, q # r PROVE HookAt(q)'
  OBVIOUS
<1>1. req'[q] = req[q] /\ HookAt(q) /\ ReqOK /\ (SuperExists => SuperExists')
  BY GroundFacts DEF Others, Ground, ElectInv
<1>2. CASE At(q, "idle")
  BY <1>1, <1>2 DEF HookAt, At, GetOrCreateSteps
<1>3. CASE ~At(q, "idle")
  <2>1. PICK e \in Emails : e = req[q].actor
    BY <1>1, <1>3 DEF ReqOK
  <2>2. Exists(e) => Exists(e)'
    BY GroundFacts
  <2> QED BY <1>1, <1>3, <2>1, <2>2 DEF HookAt, At, Exists
<1> QED BY <1>2, <1>3

LEMMA HookIdle ==
    ASSUME NEW r \in Requests, req'[r].pc = "idle"
    PROVE  HookAt(r)'
  BY DEF HookAt, At

\* A request that stands outside GetOrCreate, and is no hook's.
LEMMA HookElsewhere ==
    ASSUME NEW r \in Requests, req'[r].op # "hook", req'[r].pc \notin {"promoteCheck", "promote"}
    PROVE  HookAt(r)'
  BY DEF HookAt, At

\* A hook that found no active row of its own had somebody's tombstone in its place.
LEMMA HookWithoutRow ==
    ASSUME Ground, NEW r \in Requests, req[r].op = "hook", ~At(r, "idle"), AuthulaSharesTable,
           ~Active(req[r].actor)
    PROVE  SuperExists
<1>1. HookAt(r) /\ req[r].actor \in Emails
  BY TypeSplit DEF Ground, ElectInv, ReqOK
<1>2. users[req[r].actor].deleted
  BY <1>1 DEF HookAt, Active
<1> QED BY <1>1, <1>2 DEF Ground, ElectInv

LEMMA HookAdmission ==
    ASSUME Ground, [Next]_vars, NEW r \in Requests, Admission(r)
    PROVE  Others(r) /\ HookAt(r)'
<1> USE DEF tables, unmoved, Reject
<1> DEFINE a == req[r].actor
<1>0. ReqOK /\ HookAt(r) /\ (SuperExists => SuperExists')
  BY GroundFacts DEF Ground, ElectInv
<1>1. PICK e \in Emails : e = a
  BY <1>0 DEF Admission, RequireInitialized, Authenticate, GetByEmail, PromoteCheck,
     PromoteToSuperAdmin, CreateCheck, InsertUser, Dispatch, At, ReqOK
<1>2. Exists(e) => Exists(e)'
  BY GroundFacts
<1>3. ASSUME NEW status, Reply(r, status) PROVE Others(r) /\ HookAt(r)'
  BY <1>0, <1>3, ReplyEffect, HookIdle
<1>4. ASSUME NEW row, Admit(r, row), ~At(r, "idle") PROVE Others(r) /\ HookAt(r)'
  <2>1. CASE req[r].op = "hook"
    BY <1>3, <1>4, <2>1 DEF Admit
  <2>2. CASE req[r].op # "hook"
    <3>1. Hold(r, "dispatch", row)
      BY <1>4, <2>2 DEF Admit
    <3>2. Others(r) /\ SameRequest(r) /\ req'[r].pc = "dispatch"
      BY <1>0, <3>1, HoldEffect
    <3> QED BY <2>2, <3>2, HookElsewhere DEF SameRequest
  <2> QED BY <2>1, <2>2
\* A step within GetOrCreate.
<1>5. ASSUME NEW pc \in GetOrCreateSteps, Others(r), SameRequest(r), req'[r].pc = pc,
             ~At(r, "idle"),
             pc \in {"promoteCheck", "promote"} => Exists(e),
             req[r].op = "hook" /\ AuthulaSharesTable /\ pc \in {"createCheck", "insert"} => SuperExists
      PROVE  Others(r) /\ HookAt(r)'
  <2>1. req'[r].actor = e /\ req'[r].op = req[r].op
    BY <1>1, <1>5 DEF SameRequest
  <2>2. req[r].op = "hook" /\ AuthulaSharesTable => Exists(e)
    BY <1>0, <1>1, <1>5 DEF HookAt
  <2>3. pc # "idle"
    BY DEF GetOrCreateSteps
  <2> QED BY <1>0, <1>2, <1>5, <2>1, <2>2, <2>3 DEF HookAt, At, Exists
<1>6. CASE RequireInitialized(r) \/ Authenticate(r)
  <2>1. CASE \E status : Reply(r, status)
    BY <1>3, <2>1
  <2>2. req[r].op # "hook"
    BY <1>0, <1>6 DEF HookAt, RequireInitialized, Authenticate, At, GetOrCreateSteps
  <2>3. ASSUME NEW pc \in {"authenticate", "getByEmail"}, Goto(r, pc) PROVE Others(r) /\ HookAt(r)'
    <3>1. Others(r) /\ SameRequest(r) /\ req'[r].pc = pc
      BY <1>0, <2>3, GotoEffect
    <3> QED BY <2>2, <3>1, HookElsewhere DEF SameRequest
  <2> QED BY <1>6, <2>1, <2>3 DEF RequireInitialized, Authenticate
<1>7. CASE GetByEmail(r)
  <2>0. ~At(r, "idle")
    BY <1>7 DEF GetByEmail, At
  <2>1. CASE Active(a) /\ Hold(r, "promoteCheck", users[a])
    <3>1. Exists(e)
      BY <1>1, <2>1 DEF Active
    <3>2. PICK row : Hold(r, "promoteCheck", row)
      BY <2>1
    <3>3. Others(r) /\ SameRequest(r) /\ req'[r].pc = "promoteCheck"
      BY <1>0, <3>2, HoldEffect
    <3> QED BY <1>5, <2>0, <3>1, <3>3 DEF GetOrCreateSteps
  <2>2. CASE ~Active(a) /\ Goto(r, "createCheck")
    <3>1. req[r].op = "hook" /\ AuthulaSharesTable => SuperExists
      BY <2>0, <2>2, HookWithoutRow
    <3>2. Others(r) /\ SameRequest(r) /\ req'[r].pc = "createCheck"
      BY <1>0, <2>2, GotoEffect
    <3> QED BY <1>5, <2>0, <3>1, <3>2 DEF GetOrCreateSteps
  <2> QED BY <1>7, <2>1, <2>2 DEF GetByEmail
<1>8. CASE PromoteCheck(r)
  <2>0. ~At(r, "idle") /\ Exists(e)
    BY <1>0, <1>1, <1>8 DEF PromoteCheck, At, HookAt
  <2>1. CASE Goto(r, "promote")
    <3>1. Others(r) /\ SameRequest(r) /\ req'[r].pc = "promote"
      BY <1>0, <2>1, GotoEffect
    <3> QED BY <1>5, <2>0, <3>1 DEF GetOrCreateSteps
  <2> QED BY <1>4, <1>8, <2>0, <2>1 DEF PromoteCheck
<1>9. CASE PromoteToSuperAdmin(r) \/ InsertUser(r)
  <2>1. ~At(r, "idle")
    BY <1>9 DEF PromoteToSuperAdmin, InsertUser, At
  <2>2. \/ \E status : Reply(r, status)
        \/ \E row : Admit(r, row)
    BY <1>9 DEF PromoteToSuperAdmin, InsertUser
  <2> QED BY <1>3, <1>4, <2>1, <2>2
<1>10. CASE CreateCheck(r)
  <2>0. ~At(r, "idle") /\ (req[r].op = "hook" /\ AuthulaSharesTable => SuperExists)
    BY <1>0, <1>10 DEF CreateCheck, At, HookAt
  <2>1. Others(r) /\ SameRequest(r) /\ req'[r].pc = "insert"
    BY <1>0, <1>10, HoldEffect DEF CreateCheck
  <2> QED BY <1>5, <2>0, <2>1 DEF GetOrCreateSteps
<1>11. CASE Dispatch(r)
  <2>1. req[r].op # "hook"
    BY <1>0, <1>11 DEF HookAt, Dispatch, At, GetOrCreateSteps
  <2>2. ASSUME NEW pc \in HandlerSteps, Goto(r, pc) PROVE Others(r) /\ HookAt(r)'
    <3>1. Others(r) /\ SameRequest(r) /\ req'[r].pc = pc
      BY <1>0, <2>2, GotoEffect
    <3> QED BY <2>1, <3>1, HookElsewhere DEF SameRequest, HandlerSteps
  <2>3. \A op \in DOMAIN FirstStep : FirstStep[op] \in HandlerSteps
    BY DEF FirstStep, HandlerSteps
  <2> QED BY <1>3, <1>11, <2>2, <2>3 DEF Dispatch
<1> QED BY <1>6, <1>7, <1>8, <1>9, <1>10, <1>11 DEF Admission

LEMMA HookHandler ==
    ASSUME Ground, NEW r \in Requests, Handler(r)
    PROVE  Others(r) /\ HookAt(r)'
<1>0. ReqOK /\ HookAt(r)
  BY TypeSplit DEF Ground, ElectInv
<1>1. req[r].op # "hook"
  BY <1>0 DEF Handler, CreateUser, CreateAuthulaUser, CreateAuthulaAccount, InsertCreated,
     UpdateUser, VerifyOldPassword, WritePassword, ClearMustChange, CheckRequester,
     SoftDeleteUser, HookAt, At, GetOrCreateSteps
<1>2. CASE \E status : Reply(r, status)
  BY <1>0, <1>2, ReplyEffect, HookIdle
<1>3. ASSUME NEW pc \in HandlerSteps, Goto(r, pc) PROVE Others(r) /\ HookAt(r)'
  <2>1. Others(r) /\ SameRequest(r) /\ req'[r].pc = pc
    BY <1>0, <1>3, GotoEffect
  <2> QED BY <1>1, <2>1, HookElsewhere DEF SameRequest, HandlerSteps
<1>4. CASE CreateUser(r)
  <2>1. Others(r) /\ SameRequest(r) /\ req'[r].pc = "authulaUser"
    BY <1>0, <1>4, HoldEffect DEF CreateUser
  <2> QED BY <1>1, <2>1, HookElsewhere DEF SameRequest
<1> QED BY <1>2, <1>3, <1>4 DEF Handler, CreateAuthulaUser, CreateAuthulaAccount, InsertCreated,
        UpdateUser, VerifyOldPassword, WritePassword, ClearMustChange, CheckRequester,
        SoftDeleteUser, HandlerSteps

LEMMA ElectInvariance == Ground /\ [Next]_vars => ElectInv'
<1> SUFFICES ASSUME Ground, [Next]_vars PROVE \A q \in Requests : HookAt(q)'
  BY ElectRows DEF ElectInv
<1>0. TablesOK /\ ReqOK
  BY GroundFacts
<1>1. ASSUME NEW r \in Requests, SignUp(r) PROVE Others(r) /\ HookAt(r)'
  <2>1. PICK e \in Emails : /\ AuthulaInsert(e)
                            /\ credential' = [credential EXCEPT ![e] = "own"]
                            /\ session' = session \cup {e}
                            /\ req' = [req EXCEPT ![r] = NewRequest("getByEmail", "hook", e, e)]
    BY <1>1 DEF SignUp
  <2>2. Others(r) /\ req'[r].pc = "getByEmail" /\ req'[r].actor = e
    BY <1>0, <2>1 DEF NewRequest, Others, ReqOK
  <2>3. AuthulaSharesTable => users'[e].role = "user"
    BY <1>0, <2>1 DEF AuthulaInsert, NewRow, TablesOK
  <2> QED BY <2>2, <2>3 DEF HookAt, At, Exists, GetOrCreateSteps
<1>2. ASSUME NEW r \in Requests, Receive(r) PROVE Others(r) /\ HookAt(r)'
  <2>1. /\ Others(r) /\ req'[r].op # "hook"
        /\ req'[r].pc \in {"authenticate", "countUsers"}
    BY <1>0, <1>2 DEF Receive, NewRequest, Others, ReqOK
  <2> QED BY <2>1, HookElsewhere
<1>3. ASSUME NEW r \in Requests, Fail(r) PROVE Others(r) /\ HookAt(r)'
  <2>1. CASE Reply(r, "error")
    BY <1>0, <2>1, ReplyEffect, HookIdle
  <2>2. CASE At(r, "countUsers") /\ Goto(r, "authenticate")
    <3>1. req[r].op # "hook"
      BY <2>2 DEF Ground, ElectInv, HookAt, At, GetOrCreateSteps
    <3>2. Others(r) /\ SameRequest(r) /\ req'[r].pc = "authenticate"
      BY <1>0, <2>2, GotoEffect
    <3> QED BY <3>1, <3>2, HookElsewhere DEF SameRequest
  <2> QED BY <1>3, <2>1, <2>2 DEF Fail
<1>4. ASSUME req' = req PROVE \A q \in Requests : HookAt(q)'
  <2> SUFFICES ASSUME NEW q \in Requests PROVE HookAt(q)'
    OBVIOUS
  <2>1. HookAt(q) /\ (SuperExists => SuperExists')
    BY GroundFacts DEF Ground, ElectInv
  <2>2. CASE At(q, "idle")
    BY <1>4, <2>2 DEF HookAt, At
  <2>3. CASE ~At(q, "idle")
    <3>1. PICK e \in Emails : e = req[q].actor
      BY <1>0, <2>3 DEF ReqOK
    <3>2. Exists(e) => Exists(e)'
      BY GroundFacts
    <3> QED BY <1>4, <2>1, <2>3, <3>1, <3>2 DEF HookAt, At, Exists
  <2> QED BY <2>2, <2>3
<1>5. ASSUME NEW e \in Emails, OAuthSignIn(e) \/ PasswordSignIn(e) \/ EndSession(e)
      PROVE  req' = req
  BY <1>5 DEF OAuthSignIn, PasswordSignIn, EndSession
<1>6. CASE UNCHANGED vars
  BY <1>4, <1>6 DEF vars
<1> QED BY <1>1, <1>2, <1>3, <1>4, <1>5, <1>6, HookAdmission, HookHandler, HookOthers
        DEF Next, RequestStep

LEMMA HookEnds ==
    ASSUME Ground, [Next]_vars, NEW r \in Requests, req[r].op = "hook", ~At(r, "idle"),
           RequestStep(r), At(r, "idle")'
    PROVE  SuperExists'
<1> USE DEF tables, unmoved, Reject
<1> DEFINE a == req[r].actor  row == req[r].row
<1>0. /\ TablesOK /\ ReqOK /\ HookAt(r) /\ (SuperExists => SuperExists')
      /\ req[r].pc \in GetOrCreateSteps
  BY GroundFacts DEF Ground, ElectInv, HookAt
<1>1. PICK e \in Emails : e = a
  BY <1>0 DEF ReqOK
<1>2. ASSUME Others(r), req'[r].pc # "idle" PROVE FALSE
  BY <1>2 DEF At
<1>3. SuperAdminTaken(e) => SuperExists
  BY DEF SuperAdminTaken, SuperExists
<1>4. ASSUME NEW new \in Row, users' = [users EXCEPT ![a] = new], new.role = "super_admin"
      PROVE  SuperExists'
  BY <1>0, <1>1, <1>4 DEF TablesOK, SuperExists, SuperAdminRow
<1>5. CASE GetByEmail(r) \/ CreateCheck(r)
  <2>1. \E pc \in {"promoteCheck", "createCheck", "insert"} :
           Goto(r, pc) \/ (\E copy : Hold(r, pc, copy))
    BY <1>5 DEF GetByEmail, CreateCheck
  <2> QED BY <1>0, <2>1, GotoEffect, HoldEffect DEF At
<1>6. CASE PromoteCheck(r)
  <2>1. CASE Goto(r, "promote")
    BY <1>0, <2>1, GotoEffect DEF At
  <2>2. CASE HasSuperAdmin
    BY <1>0, <2>2 DEF HasSuperAdmin, SuperExists
  <2>3. CASE row.role = "super_admin"
    <3>1. Served(r)
      BY <1>6, <2>3 DEF PromoteCheck, Served
    <3> QED BY <1>0, <3>1 DEF Ground, ServiceInv
  <2> QED BY <1>6, <2>1, <2>2, <2>3 DEF PromoteCheck
<1>7. CASE PromoteToSuperAdmin(r)
  <2>1. CASE Active(a) /\ ~SuperAdminTaken(a)
    <3> DEFINE new == [users[a] EXCEPT !.role = "super_admin", !.mustChange = FALSE]
    <3>1. users[a] \in Row
      BY <1>0, <1>1 DEF TablesOK
    <3>2. new \in Row /\ new.role = "super_admin"
      BY <3>1, RowTypes DEF Row
    <3>3. users' = [users EXCEPT ![a] = new]
      BY <1>7, <2>1 DEF PromoteToSuperAdmin
    <3> HIDE DEF new
    <3> QED BY <1>4, <3>2, <3>3
  <2>2. CASE SuperAdminTaken(a)
    BY <1>0, <1>1, <1>3, <2>2
  <2>3. CASE ~Active(a)
    <3>1. Exists(a)
      BY <1>0, <1>7 DEF HookAt, PromoteToSuperAdmin, At
    <3>2. users[a].deleted
      BY <2>3, <3>1 DEF Active
    <3> QED BY <1>0, <1>1, <3>2 DEF Ground, ElectInv
  <2> QED BY <2>1, <2>2, <2>3
<1>8. CASE InsertUser(r)
  <2>1. CASE row.role # "super_admin"
    <3>1. Served(r)
      BY <1>8, <2>1 DEF InsertUser, Served
    <3> QED BY <1>0, <3>1 DEF Ground, ServiceInv
  <2>2. CASE row.role = "super_admin" /\ ~InsertRefused(a, row.role)
    <3>1. row \in Row
      BY <1>0 DEF ReqOK, Request
    <3>2. users' = [users EXCEPT ![a] = row]
      BY <1>8, <2>2 DEF InsertUser
    <3> QED BY <1>4, <2>2, <3>1, <3>2
  <2>3. CASE SuperAdminTaken(a)
    BY <1>0, <1>1, <1>3, <2>3
  <2>4. CASE Exists(a)
    <3>1. CASE AuthulaSharesTable
      BY <1>0, <1>8, <3>1 DEF InsertUser, HookAt, At
    <3>2. CASE ~AuthulaSharesTable
      BY <1>0, <1>1, <2>4, <3>2 DEF Ground, ElectInv
    <3> QED BY <3>1, <3>2
  <2> QED BY <2>1, <2>2, <2>3, <2>4 DEF InsertRefused
<1>9. ~(RequireInitialized(r) \/ Authenticate(r) \/ Dispatch(r))
  BY <1>0 DEF RequireInitialized, Authenticate, Dispatch, At, GetOrCreateSteps
<1>10. ~Handler(r)
  BY <1>0 DEF Handler, CreateUser, CreateAuthulaUser, CreateAuthulaAccount, InsertCreated,
     UpdateUser, VerifyOldPassword, WritePassword, ClearMustChange, CheckRequester,
     SoftDeleteUser, At, GetOrCreateSteps
<1> QED BY <1>5, <1>6, <1>7, <1>8, <1>9, <1>10 DEF RequestStep, Admission

\* What remains of FirstSignUpElects without fairness: a sign-up that ends by a statement of
\* its own, however that statement comes out, leaves somebody with the role.
THEOREM UsersSignUpElects == Spec => SignUpElects
<1> DEFINE Elects == \A r \in Requests :
             /\ req[r].op = "hook" /\ ~At(r, "idle")
             /\ RequestStep(r) /\ At(r, "idle")'
             => \E e \in Emails : SuperAdminRow(e)'
<1>1. Init => ServiceInv /\ ElectInv
  BY DEF Init, ServiceInv, Served, Admitted, ElectInv, HookAt, Exists, NoRow, At, Done, HandlerSteps
<1>2. Ground /\ [Next]_vars => Elects
  BY HookEnds DEF SuperExists
<1>3. Ground /\ [Next]_vars => [Elects]_vars
  BY <1>2
<1> QED BY <1>1, <1>3, TypeInit, TypeInvariance, IdentityInit, IdentityInvariance, RowsInit,
        RowsInvariance, ServiceInvariance, ElectInvariance, PTL DEF Spec, SignUpElects, Ground

=============================================================================
