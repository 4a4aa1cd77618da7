---------------------------- MODULE DeviceAccess ----------------------------
(***************************************************************************)
(* Devices and who may use them: the `devices` and `user_device_access`    *)
(* tables, the per-device role gate and the handlers behind it.  A request *)
(* of an authenticated user passes the gate in one statement and acts in   *)
(* later ones, so grants, revocations, deletions of devices and deletions  *)
(* of users can come in between.                                           *)
(***************************************************************************)
CONSTANTS
    Users,      \* the users of the system
    NoUser,     \* placeholder in an idle request slot
    Devices,    \* devices, each standing for its uuid_firmware, UNIQUE for good
    NoDevice,   \* placeholder in an idle request slot
    Requests,   \* slots for requests in flight
    CanFail     \* TRUE: statements fail, clients leave, the process restarts

ASSUME DeviceAccessAssumption ==
    /\ NoUser \notin Users
    /\ NoDevice \notin Devices
    /\ CanFail \in BOOLEAN

VARIABLES
    alive,      \* users whose row is not deleted
    device,     \* the `devices` table
    grant,      \* the `user_device_access` table
    req         \* the requests in flight

vars == <<alive, device, grant, req>>

-----------------------------------------------------------------------------
(* The tables. *)

Device == [standing : {"absent", "active", "deleted"}, renamed : BOOLEAN]
AccessRoles == {"none", "viewer", "editor", "owner"}      \* "none": there is no row
Grant == [role : AccessRoles, live : BOOLEAN]

\* Mutant: a new device may take the firmware id of a deleted one.
FirmwareTaken_Mutant(d) == device[d].standing = "active"
\* UNIQUE(uuid_firmware) counts deleted rows.
FirmwareTaken(d) == device[d].standing # "absent"

ActiveDevice(d) == device[d].standing = "active"

\* GetDeviceAccess: the live row of the pair; it joins neither users nor devices.
GetRole(u, d) == IF grant[u][d].live THEN grant[u][d].role ELSE "none"

RoleSatisfies(actual, min) ==
    \/ actual = min
    \/ actual = "owner"
    \/ actual = "editor" /\ min = "viewer"

Owns(u, d) == grant[u][d].role = "owner"

-----------------------------------------------------------------------------
(* Requests. *)

Ops == {"create", "update", "delete", "grant", "revoke"}
OwnerSteps == {"softDelete", "checkTarget", "upsertGrant", "checkGrant", "revokeGrant"}
Steps == {"idle", "createDevice", "requireRole", "updateDevice"} \cup OwnerSteps

Request == [pc : Steps, op : Ops, actor : Users \cup {NoUser}, device : Devices \cup {NoDevice},
            target : Users \cup {NoUser},
            late : BOOLEAN]        \* history: the target's row was deleted on arrival

Idle == [pc |-> "idle", op |-> "create", actor |-> NoUser, device |-> NoDevice,
         target |-> NoUser, late |-> FALSE]

\* The least role a route asks for, and the first step of the handler behind it.
MinRole(op) == IF op = "update" THEN "editor" ELSE "owner"
FirstStep == [update |-> "updateDevice", delete |-> "softDelete",
              grant |-> "checkTarget", revoke |-> "checkGrant"]

At(r, pc) == req[r].pc = pc
Goto(r, pc) == req' = [req EXCEPT ![r].pc = pc]
\* Mutant: the slot is cleared but not released.
Reply_Mutant(r) == req' = [req EXCEPT ![r].actor = NoUser]
Reply(r) == req' = [req EXCEPT ![r] = Idle]

Init ==
    /\ alive = Users
    /\ device = [d \in Devices |-> [standing |-> "absent", renamed |-> FALSE]]
    /\ grant = [u \in Users |-> [d \in Devices |-> [role |-> "none", live |-> FALSE]]]
    /\ req = [r \in Requests |-> Idle]

tables == <<alive, device, grant>>

-----------------------------------------------------------------------------
\* An authenticated request of a user who is still there; module Users has the rest.
Arrive(r) ==
    /\ At(r, "idle")
    /\ \E op \in Ops, u \in alive, d \in Devices, t \in Users :
        /\ op \in {"grant", "revoke"} \/ t = u
        /\ req' = [req EXCEPT ![r] =
                     [pc |-> IF op = "create" THEN "createDevice" ELSE "requireRole",
                      op |-> op, actor |-> u, device |-> d, target |-> t,
                      late |-> t \notin alive]]
    /\ UNCHANGED tables

\* Mutant: any access at all is enough.
RequireDeviceRole_Mutant(r) ==
    /\ At(r, "requireRole")
    /\ IF GetRole(req[r].actor, req[r].device) # "none"
       THEN Goto(r, FirstStep[req[r].op])
       ELSE Reply(r)
    /\ UNCHANGED tables

\* 404 without access, 403 below the minimum.
RequireDeviceRole(r) ==
    /\ At(r, "requireRole")
    /\ IF RoleSatisfies(GetRole(req[r].actor, req[r].device), MinRole(req[r].op))
       THEN Goto(r, FirstStep[req[r].op])
       ELSE Reply(r)
    /\ UNCHANGED tables

\* POST /devices: the row and the owner's grant in one transaction, or a conflict.
CreateDevice(r) ==
    LET u == req[r].actor  d == req[r].device IN
    /\ At(r, "createDevice")
    /\ IF FirmwareTaken(d)
       THEN UNCHANGED <<device, grant>>
       ELSE /\ device' = [device EXCEPT ![d].standing = "active"]
            /\ grant' = [grant EXCEPT ![u][d] = [role |-> "owner", live |-> TRUE]]
    /\ Reply(r)
    /\ UNCHANGED alive

\* PUT /devices/:id: name and vehicle type in one transaction, active rows only.
UpdateDevice(r) ==
    LET d == req[r].device IN
    /\ At(r, "updateDevice")
    /\ device' = IF ActiveDevice(d) THEN [device EXCEPT ![d].renamed = TRUE] ELSE device
    /\ Reply(r)
    /\ UNCHANGED <<alive, grant>>

\* DELETE /devices/:id, idempotent; grants stay.
SoftDeleteDevice(r) ==
    LET d == req[r].device IN
    /\ At(r, "softDelete")
    /\ device' = IF ActiveDevice(d) THEN [device EXCEPT ![d].standing = "deleted"] ELSE device
    /\ Reply(r)
    /\ UNCHANGED <<alive, grant>>

\* Mutant: owners may grant themselves, which overwrites their role.
CheckTarget_Mutant(r) ==
    /\ At(r, "checkTarget")
    /\ IF req[r].target \in alive THEN Goto(r, "upsertGrant") ELSE Reply(r)
    /\ UNCHANGED tables

\* Mutant: the target user is not looked up.
CheckTarget_Unread(r) ==
    /\ At(r, "checkTarget")
    /\ IF req[r].target # req[r].actor THEN Goto(r, "upsertGrant") ELSE Reply(r)
    /\ UNCHANGED tables

\* POST /devices/:id/access: not to oneself, and the target has to be there ...
CheckTarget(r) ==
    /\ At(r, "checkTarget")
    /\ IF req[r].target # req[r].actor /\ req[r].target \in alive
       THEN Goto(r, "upsertGrant")
       ELSE Reply(r)
    /\ UNCHANGED tables

\* ... then a row with role viewer is inserted, or overwritten and revived.
UpsertGrant(r) ==
    /\ At(r, "upsertGrant")
    /\ grant' = [grant EXCEPT ![req[r].target][req[r].device] = [role |-> "viewer", live |-> TRUE]]
    /\ Reply(r)
    /\ UNCHANGED <<alive, device>>

\* DELETE /devices/:id/access/:userId: not oneself, a live grant, not another owner ...
CheckGrant(r) ==
    /\ At(r, "checkGrant")
    /\ IF /\ req[r].target # req[r].actor
          /\ GetRole(req[r].target, req[r].device) \notin {"none", "owner"}
       THEN Goto(r, "revokeGrant")
       ELSE Reply(r)
    /\ UNCHANGED tables

\* ... then the row is marked, if it is still live.
RevokeGrant(r) ==
    /\ At(r, "revokeGrant")
    /\ grant' = [grant EXCEPT ![req[r].target][req[r].device].live = FALSE]
    /\ Reply(r)
    /\ UNCHANGED <<alive, device>>

\* A statement fails, the client goes away or the process restarts; a transaction
\* leaves nothing, other statements what they wrote.
Fail(r) ==
    /\ CanFail
    /\ req[r].pc # "idle"
    /\ Reply(r)
    /\ UNCHANGED tables

\* The users service soft-deletes a row; devices and grants stay as they are.
DeleteUser(u) ==
    /\ u \in alive
    /\ alive' = alive \ {u}
    /\ UNCHANGED <<device, grant, req>>

RequestStep(r) ==
    \/ RequireDeviceRole(r)
    \/ CreateDevice(r) \/ UpdateDevice(r) \/ SoftDeleteDevice(r)
    \/ CheckTarget(r) \/ UpsertGrant(r)
    \/ CheckGrant(r) \/ RevokeGrant(r)

Next ==
    \/ \E r \in Requests : Arrive(r) \/ RequestStep(r) \/ Fail(r)
    \/ \E u \in Users : DeleteUser(u)

Spec == Init /\ [][Next]_vars
-----------------------------------------------------------------------------
(* What device sharing promises. *)

TypeOK ==
    /\ alive \subseteq Users
    /\ device \in [Devices -> Device]
    /\ grant \in [Users -> [Devices -> Grant]]
    /\ req \in [Requests -> Request]
    /\ \A r \in Requests :
         ~At(r, "idle") => /\ req[r].actor \in Users
                           /\ req[r].device \in Devices
                           /\ req[r].target \in Users

\* Every device that was ever registered has exactly one owner, whose grant is live, however
\* grants and revocations for it race: no upsert of a viewer row, no revocation and no second
\* registration ever falls on the owner's row.
OneOwner ==
    \A d \in Devices : FirmwareTaken(d) =>
        \E u \in Users : /\ Owns(u, d) /\ grant[u][d].live
                         /\ \A o \in Users \ {u} : ~Owns(o, d)

\* The role is read once, at the gate; what it allowed then is still right when the handler's
\* last statement runs: nobody but the device's owner is ever behind an owner-only gate.
OwnerOnlySteps ==
    \A r \in Requests :
        req[r].pc \in OwnerSteps => Owns(req[r].actor, req[r].device)

\* A deleted device is never renamed, revived or registered again, by whatever request
\* passed the gate while it was active.
DeletedDevicesFrozen ==
    [][\A d \in Devices : device[d].standing = "deleted" => device'[d] = device[d]]_vars

\* Nothing is shared with a user who was gone before the request arrived.
LateTargetsRefused ==
    \A r \in Requests : req[r].late => ~At(r, "upsertGrant")

\* The tables implement the abstract book of owners and viewers.
OwnerOf == [d \in Devices |-> IF \E u \in Users : Owns(u, d)
                              THEN CHOOSE u \in Users : Owns(u, d)
                              ELSE NoUser]
ViewersOf == [d \in Devices |-> {u \in Users : grant[u][d].live /\ ~Owns(u, d)}]
Retired == {d \in Devices : device[d].standing = "deleted"}
Book == INSTANCE AccessBook WITH owner <- OwnerOf, viewers <- ViewersOf, retired <- Retired
ImplementsAccessBook == Book!BookSpec
=============================================================================
