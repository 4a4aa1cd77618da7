------------------------- MODULE DeviceAccessProofs -------------------------
(***************************************************************************)
(* Proofs about DeviceAccess, for every set of users, devices and request  *)
(* slots.                                                                  *)
(***************************************************************************)
EXTENDS DeviceAccess, TLAPS

InFlight(r) == /\ req[r].actor \in Users
               /\ req[r].device \in Devices
               /\ req[r].target \in Users

TablesOK == /\ alive \subseteq Users
            /\ device \in [Devices -> Device]
            /\ grant \in [Users -> [Devices -> Grant]]
ReqOK == /\ req \in [Requests -> Request]
         /\ \A r \in Requests : ~At(r, "idle") => InFlight(r)

LEMMA TypeSplit == TypeOK <=> TablesOK /\ ReqOK
  BY DEF TypeOK, TablesOK, ReqOK, InFlight

\* What a request update does to its own slot, and that it touches no other.
Others(r) == \A q \in Requests : q # r => req'[q] = req[q]
SameRequest(r) == /\ req'[r].op = req[r].op
                  /\ req'[r].actor = req[r].actor
                  /\ req'[r].device = req[r].device
                  /\ req'[r].target = req[r].target
                  /\ req'[r].late = req[r].late

LEMMA GotoEffect ==
    ASSUME ReqOK, NEW r \in Requests, NEW pc \in Steps, Goto(r, pc), ~At(r, "idle")
    PROVE  ReqOK' /\ Others(r) /\ SameRequest(r) /\ req'[r].pc = pc
<1>1. Others(r) /\ SameRequest(r) /\ req'[r].pc = pc /\ req' \in [Requests -> Request]
  BY DEF ReqOK, Goto, Request, Others, SameRequest
<1> QED BY <1>1 DEF ReqOK, At, Others, SameRequest, InFlight

LEMMA ReplyEffect ==
    ASSUME ReqOK, NEW r \in Requests, Reply(r)
    PROVE  ReqOK' /\ Others(r) /\ req'[r].pc = "idle" /\ ~req'[r].late
<1>1. Idle \in Request
  BY DEF Idle, Request, Steps, Ops
<1>2. Others(r) /\ req'[r] = Idle /\ req' \in [Requests -> Request]
  BY <1>1 DEF ReqOK, Reply, Others
<1> QED BY <1>2 DEF ReqOK, At, Others, InFlight, Idle

LEMMA ArriveEffect ==
    ASSUME ReqOK, TablesOK, NEW r \in Requests, Arrive(r)
    PROVE  /\ ReqOK' /\ Others(r)
           /\ req'[r].pc \in {"createDevice", "requireRole"}
           /\ req'[r].pc = "requireRole" => req'[r].op # "create"
<1> PICK op \in Ops, u \in alive, d \in Devices, t \in Users :
      /\ op \in {"grant", "revoke"} \/ t = u
      /\ req' = [req EXCEPT ![r] =
                   [pc |-> IF op = "create" THEN "createDevice" ELSE "requireRole",
                    op |-> op, actor |-> u, device |-> d, target |-> t,
                    late |-> t \notin alive]]
  BY Zenon DEF Arrive
<1> DEFINE new == [pc |-> IF op = "create" THEN "createDevice" ELSE "requireRole",
                   op |-> op, actor |-> u, device |-> d, target |-> t, late |-> t \notin alive]
<1>1. u \in Users
  BY DEF TablesOK
<1>2. new \in Request
  BY <1>1 DEF Request, Steps
<1>3. Others(r) /\ req'[r] = new /\ req' \in [Requests -> Request]
  BY <1>2 DEF ReqOK, Others
<1>4. InFlight(r)'
  BY <1>1, <1>3 DEF InFlight
<1>5. ReqOK'
  BY <1>3, <1>4 DEF ReqOK, At, Others, InFlight
<1>6. /\ new.pc \in {"createDevice", "requireRole"}
      /\ new.pc = "requireRole" => new.op # "create"
  OBVIOUS
<1> QED BY <1>3, <1>5, <1>6

-----------------------------------------------------------------------------
(* The owner's row.  Ownership is given by CreateDevice alone; the rows of *)
(* other users are the only ones the grant and revoke handlers write.      *)

OwnerRows ==
    /\ \A u \in Users, d \in Devices : Owns(u, d) => grant[u][d].live /\ FirmwareTaken(d)
    /\ \A u, o \in Users, d \in Devices : Owns(u, d) /\ Owns(o, d) => u = o
    /\ \A d \in Devices : FirmwareTaken(d) => \E u \in Users : Owns(u, d)

PendingAt(r) ==
    /\ At(r, "requireRole") => req[r].op # "create"
    /\ req[r].pc \in OwnerSteps => Owns(req[r].actor, req[r].device)
    /\ req[r].pc \in {"upsertGrant", "revokeGrant"} => req[r].target # req[r].actor
Pending == \A r \in Requests : PendingAt(r)

AccessInv == TablesOK /\ ReqOK /\ OwnerRows /\ Pending

LEMMA AccessInit == Init => AccessInv
<1> SUFFICES ASSUME Init PROVE AccessInv
  OBVIOUS
<1>1. TablesOK
  BY DEF Init, TablesOK, Device, Grant, AccessRoles
<1>2. Idle \in Request
  BY DEF Idle, Request, Steps, Ops
<1>3. ReqOK
  BY <1>2 DEF Init, ReqOK, At, Idle
<1>4. OwnerRows
  BY DEF Init, OwnerRows, Owns, FirmwareTaken
<1>5. Pending
  BY DEF Init, Pending, PendingAt, At, Idle, OwnerSteps
<1> QED BY <1>1, <1>3, <1>4, <1>5 DEF AccessInv

\* Ownership is never lost, so a step of one request keeps what is pending of the others.
OwnershipKept == \A u \in Users, d \in Devices : Owns(u, d) => Owns(u, d)'

LEMMA PendingKept ==
    ASSUME ReqOK, Pending, NEW r \in Requests, Others(r), OwnershipKept, PendingAt(r)'
    PROVE  Pending'
<1> SUFFICES ASSUME NEW q \in Requests, q # r PROVE PendingAt(q)'
  BY DEF Pending
<1>1. req'[q] = req[q]
  BY DEF Others
<1>2. PendingAt(q)
  BY DEF Pending
<1>3. req[q].pc \in OwnerSteps => req[q].actor \in Users /\ req[q].device \in Devices
  BY DEF ReqOK, At, OwnerSteps, InFlight
<1>4. req[q].pc \in OwnerSteps => grant'[req[q].actor][req[q].device].role = "owner"
  BY <1>2, <1>3 DEF PendingAt, OwnershipKept, Owns
<1> QED BY <1>1, <1>2, <1>4 DEF PendingAt, At, Owns

\* A request that is answered, or still in front of the gate, has nothing pending.
LEMMA NothingPending ==
    ASSUME NEW r \in Requests,
           \/ req'[r].pc \in {"idle", "createDevice", "updateDevice"}
           \/ req'[r].pc = "requireRole" /\ req'[r].op # "create"
    PROVE  PendingAt(r)'
  BY DEF PendingAt, At, OwnerSteps

\* Behind the gate: the sender owns the device, and is not the target of a write.
LEMMA PendingOnward ==
    ASSUME NEW r \in Requests, SameRequest(r), req'[r].pc # "requireRole",
           req[r].actor \in Users, req[r].device \in Devices, OwnershipKept,
           Owns(req[r].actor, req[r].device),
           req'[r].pc \in {"upsertGrant", "revokeGrant"} => req[r].target # req[r].actor
    PROVE  PendingAt(r)'
<1>1. grant'[req[r].actor][req[r].device].role = "owner"
  BY DEF OwnershipKept, Owns
<1> QED BY <1>1 DEF PendingAt, At, Owns, SameRequest

LEMMA FirstSteps ==
    ASSUME NEW op \in Ops, op # "create"
    PROVE  /\ FirstStep[op] \in {"updateDevice", "softDelete", "checkTarget", "checkGrant"}
           /\ FirstStep[op] # "updateDevice" => MinRole(op) = "owner"
<1>1. op \in {"update", "delete", "grant", "revoke"}
  BY DEF Ops
<1> QED BY <1>1 DEF FirstStep, MinRole

\* A reply keeps the invariant whenever the tables do.
LEMMA ReplyKeeps ==
    ASSUME ReqOK, Pending, NEW r \in Requests, Reply(r), TablesOK', OwnerRows', OwnershipKept
    PROVE  AccessInv'
<1>1. ReqOK' /\ Others(r) /\ req'[r].pc = "idle"
  BY ReplyEffect
<1>2. PendingAt(r)'
  BY <1>1, NothingPending
<1>3. Pending'
  BY <1>1, <1>2, PendingKept
<1> QED BY <1>1, <1>3 DEF AccessInv

\* Writing one row keeps the types of the tables.
LEMMA GrantWritten ==
    ASSUME TablesOK, NEW u \in Users, NEW d \in Devices, NEW g \in Grant
    PROVE  [grant EXCEPT ![u][d] = g] \in [Users -> [Devices -> Grant]]
<1>1. [grant[u] EXCEPT ![d] = g] \in [Devices -> Grant]
  BY DEF TablesOK
<1> QED BY <1>1 DEF TablesOK

LEMMA GrantEnded ==
    ASSUME TablesOK, NEW u \in Users, NEW d \in Devices
    PROVE  [grant EXCEPT ![u][d].live = FALSE] \in [Users -> [Devices -> Grant]]
<1>1. grant[u][d] \in Grant
  BY DEF TablesOK
<1>2. [grant[u][d] EXCEPT !.live = FALSE] \in Grant
  BY <1>1 DEF Grant
<1>3. [grant[u] EXCEPT ![d] = [grant[u][d] EXCEPT !.live = FALSE]] \in [Devices -> Grant]
  BY <1>2 DEF TablesOK
<1> QED BY <1>3 DEF TablesOK

LEMMA TablesSame ==
    ASSUME TablesOK, OwnerRows, device' = device, grant' = grant, alive' = alive
    PROVE  TablesOK' /\ OwnerRows' /\ OwnershipKept
  BY DEF TablesOK, OwnerRows, Owns, FirmwareTaken, OwnershipKept

LEMMA AccessInvariance == AccessInv /\ [Next]_vars => AccessInv'
<1> SUFFICES ASSUME AccessInv, [Next]_vars PROVE AccessInv'
  OBVIOUS
<1>I. TablesOK /\ ReqOK /\ OwnerRows /\ Pending
  BY DEF AccessInv
<1>T. UNCHANGED tables => TablesOK' /\ OwnerRows' /\ OwnershipKept
  BY <1>I, TablesSame DEF tables
<1>1. ASSUME NEW r \in Requests, Arrive(r) PROVE AccessInv'
  <2>1. TablesOK' /\ OwnerRows' /\ OwnershipKept
    BY <1>1, <1>T DEF Arrive
  <2>2. /\ ReqOK' /\ Others(r)
        /\ req'[r].pc \in {"createDevice", "requireRole"}
        /\ req'[r].pc = "requireRole" => req'[r].op # "create"
    BY <1>I, <1>1, ArriveEffect
  <2>3. PendingAt(r)'
    BY <2>2, NothingPending
  <2>4. Pending'
    BY <1>I, <2>1, <2>2, <2>3, PendingKept
  <2> QED BY <2>1, <2>2, <2>4 DEF AccessInv
<1>2. ASSUME NEW r \in Requests, Fail(r) PROVE AccessInv'
  <2>1. Reply(r) /\ UNCHANGED tables
    BY <1>2 DEF Fail
  <2> QED BY <1>I, <1>T, <2>1, ReplyKeeps
<1>3. ASSUME NEW r \in Requests, RequestStep(r) PROVE AccessInv'
  <2> DEFINE u == req[r].actor
             d == req[r].device
             t == req[r].target
             op == req[r].op
  <2>0. ~At(r, "idle")
    BY <1>3 DEF RequestStep, RequireDeviceRole, CreateDevice, UpdateDevice, SoftDeleteDevice,
       CheckTarget, UpsertGrant, CheckGrant, RevokeGrant, At
  <2>U. u \in Users /\ d \in Devices /\ t \in Users /\ op \in Ops
    BY <1>I, <2>0 DEF ReqOK, InFlight, Request
  <2>P. PendingAt(r)
    BY <1>I DEF Pending
  <2>1. CASE RequireDeviceRole(r)
    <3>1. TablesOK' /\ OwnerRows' /\ OwnershipKept
      BY <1>T, <2>1 DEF RequireDeviceRole
    <3>2. op # "create"
      BY <2>1, <2>P DEF RequireDeviceRole, PendingAt
    <3>3. /\ FirstStep[op] \in {"updateDevice", "softDelete", "checkTarget", "checkGrant"}
          /\ FirstStep[op] # "updateDevice" => MinRole(op) = "owner"
      BY <2>U, <3>2, FirstSteps
    <3>4. CASE Goto(r, FirstStep[op]) /\ RoleSatisfies(GetRole(u, d), MinRole(op))
      <4>1. FirstStep[op] # "updateDevice" => Owns(u, d)
        BY <3>3, <3>4 DEF RoleSatisfies, GetRole, Owns
      <4>2. FirstStep[op] \in Steps
        BY <3>3 DEF Steps, OwnerSteps
      <4>3. ReqOK' /\ Others(r) /\ SameRequest(r) /\ req'[r].pc = FirstStep[op]
        BY <1>I, <2>0, <3>4, <4>2, GotoEffect
      <4>4. CASE FirstStep[op] = "updateDevice"
        <5>1. PendingAt(r)'
          BY <4>3, <4>4, NothingPending
        <5>2. Pending'
          BY <1>I, <3>1, <4>3, <5>1, PendingKept
        <5> QED BY <3>1, <4>3, <5>2 DEF AccessInv
      <4>5. CASE FirstStep[op] # "updateDevice"
        <5>1. req'[r].pc \notin {"requireRole", "upsertGrant", "revokeGrant"}
          BY <3>3, <4>3
        <5>2. PendingAt(r)'
          BY <2>U, <3>1, <4>1, <4>3, <4>5, <5>1, PendingOnward
        <5>3. Pending'
          BY <1>I, <3>1, <4>3, <5>2, PendingKept
        <5> QED BY <3>1, <4>3, <5>3 DEF AccessInv
      <4> QED BY <4>4, <4>5
    <3>5. CASE Reply(r)
      BY <1>I, <3>1, <3>5, ReplyKeeps
    <3> QED BY <2>1, <3>4, <3>5 DEF RequireDeviceRole
  <2>2. CASE CreateDevice(r)
    <3> DEFINE new == [role |-> "owner", live |-> TRUE]
    <3>0. Reply(r)
      BY <2>2 DEF CreateDevice
    <3>1. [grant EXCEPT ![u][d] = new] \in [Users -> [Devices -> Grant]]
      <4>1. new \in Grant
        BY DEF Grant, AccessRoles
      <4> QED BY <1>I, <2>U, <4>1, GrantWritten
    <3>2. TablesOK'
      <4>1. device' \in [Devices -> Device] /\ alive' = alive
        BY <1>I, <2>U, <2>2 DEF CreateDevice, TablesOK, Device
      <4>2. grant' = grant \/ grant' = [grant EXCEPT ![u][d] = new]
        BY <2>2 DEF CreateDevice
      <4> QED BY <1>I, <3>1, <4>1, <4>2 DEF TablesOK
    <3>3. CASE FirmwareTaken(d)
      <4>1. UNCHANGED tables
        BY <2>2, <3>3 DEF CreateDevice, tables
      <4> QED BY <1>I, <1>T, <3>0, <4>1, ReplyKeeps
    <3>4. CASE ~FirmwareTaken(d)
      <4>1. \A x \in Users, y \in Devices :
              Owns(x, y)' <=> Owns(x, y) \/ (x = u /\ y = d)
        BY <1>I, <2>U, <2>2, <3>4 DEF CreateDevice, Owns, TablesOK
      <4>2. \A y \in Devices : FirmwareTaken(y)' <=> FirmwareTaken(y) \/ y = d
        BY <1>I, <2>U, <2>2, <3>4 DEF CreateDevice, FirmwareTaken, TablesOK, Device
      <4>3. \A x \in Users, y \in Devices :
              grant'[x][y].live <=> grant[x][y].live \/ (x = u /\ y = d)
        BY <1>I, <2>U, <2>2, <3>4 DEF CreateDevice, TablesOK
      <4>4. OwnerRows'
        BY <1>I, <2>U, <3>4, <4>1, <4>2, <4>3 DEF OwnerRows
      <4>5. OwnershipKept
        BY <4>1 DEF OwnershipKept
      <4> QED BY <1>I, <3>0, <3>2, <4>4, <4>5, ReplyKeeps
    <3> QED BY <3>3, <3>4
  <2>3. CASE UpdateDevice(r) \/ SoftDeleteDevice(r)
    <3>0. Reply(r)
      BY <2>3 DEF UpdateDevice, SoftDeleteDevice
    <3>1. grant' = grant /\ TablesOK'
      BY <1>I, <2>U, <2>3 DEF UpdateDevice, SoftDeleteDevice, TablesOK, Device
    <3>2. \A y \in Devices : FirmwareTaken(y)' <=> FirmwareTaken(y)
      BY <1>I, <2>U, <2>3 DEF UpdateDevice, SoftDeleteDevice, TablesOK, Device,
         FirmwareTaken, ActiveDevice
    <3>3. OwnerRows' /\ OwnershipKept
      BY <1>I, <3>1, <3>2 DEF OwnerRows, Owns, OwnershipKept
    <3> QED BY <1>I, <3>0, <3>1, <3>3, ReplyKeeps
  <2>4. CASE CheckTarget(r) \/ CheckGrant(r)
    <3>1. TablesOK' /\ OwnerRows' /\ OwnershipKept
      BY <1>T, <2>4 DEF CheckTarget, CheckGrant
    <3>2. Owns(u, d)
      BY <2>4, <2>P DEF CheckTarget, CheckGrant, PendingAt, OwnerSteps, At
    <3>3. ASSUME NEW pc \in {"upsertGrant", "revokeGrant"}, Goto(r, pc), t # u
          PROVE  AccessInv'
      <4>1. pc \in Steps
        BY DEF Steps, OwnerSteps
      <4>2. ReqOK' /\ Others(r) /\ SameRequest(r) /\ req'[r].pc = pc
        BY <1>I, <2>0, <3>3, <4>1, GotoEffect
      <4>3. PendingAt(r)'
        BY <2>U, <3>1, <3>2, <3>3, <4>2, PendingOnward
      <4>4. Pending'
        BY <1>I, <3>1, <4>2, <4>3, PendingKept
      <4> QED BY <3>1, <4>2, <4>4 DEF AccessInv
    <3>4. CASE Reply(r)
      BY <1>I, <3>1, <3>4, ReplyKeeps
    <3> QED BY <2>4, <3>3, <3>4 DEF CheckTarget, CheckGrant
  <2>5. CASE UpsertGrant(r) \/ RevokeGrant(r)
    <3>0. Reply(r)
      BY <2>5 DEF UpsertGrant, RevokeGrant
    <3>1. Owns(u, d) /\ t # u
      BY <2>5, <2>P DEF UpsertGrant, RevokeGrant, PendingAt, OwnerSteps, At
    <3>2. ~Owns(t, d)
      BY <1>I, <2>U, <3>1 DEF OwnerRows
    <3>3. /\ [grant EXCEPT ![t][d] = [role |-> "viewer", live |-> TRUE]]
               \in [Users -> [Devices -> Grant]]
          /\ [grant EXCEPT ![t][d].live = FALSE] \in [Users -> [Devices -> Grant]]
      <4>1. [role |-> "viewer", live |-> TRUE] \in Grant
        BY DEF Grant, AccessRoles
      <4> QED BY <1>I, <2>U, <4>1, GrantWritten, GrantEnded
    <3>4. TablesOK' /\ device' = device
      BY <1>I, <2>5, <3>3 DEF UpsertGrant, RevokeGrant, TablesOK
    <3>5. \A x \in Users, y \in Devices : x # t \/ y # d => grant'[x][y] = grant[x][y]
      BY <1>I, <2>U, <2>5 DEF UpsertGrant, RevokeGrant, TablesOK
    <3>6. grant'[t][d].role # "owner"
      BY <1>I, <2>U, <2>5, <3>2 DEF UpsertGrant, RevokeGrant, TablesOK, Grant, Owns
    <3>7. \A x \in Users, y \in Devices :
            (Owns(x, y)' <=> Owns(x, y)) /\ (Owns(x, y) => grant'[x][y].live = grant[x][y].live)
      BY <2>U, <3>2, <3>5, <3>6 DEF Owns
    <3>8. OwnerRows' /\ OwnershipKept
      BY <1>I, <3>4, <3>7 DEF OwnerRows, FirmwareTaken, OwnershipKept
    <3> QED BY <1>I, <3>0, <3>4, <3>8, ReplyKeeps
  <2> QED BY <1>3, <2>1, <2>2, <2>3, <2>4, <2>5 DEF RequestStep
<1>4. ASSUME NEW x \in Users, DeleteUser(x) PROVE AccessInv'
  BY <1>I, <1>4 DEF AccessInv, DeleteUser, TablesOK, ReqOK, OwnerRows, Pending, PendingAt, At,
     InFlight, Owns, FirmwareTaken
<1>5. CASE UNCHANGED vars
  BY <1>I, <1>5 DEF AccessInv, vars, TablesOK, ReqOK, OwnerRows, Pending, PendingAt, At,
     InFlight, Owns, FirmwareTaken
<1> QED BY <1>1, <1>2, <1>3, <1>4, <1>5 DEF Next

\* Every variable keeps its type, and a request in flight has a sender, a device and a target.
THEOREM DeviceAccessTypeOK == Spec => []TypeOK
<1>1. AccessInv => TypeOK
  BY TypeSplit DEF AccessInv
<1> QED BY <1>1, AccessInit, AccessInvariance, PTL DEF Spec

\* However creations, grants, revocations and deletions race, every registered device has
\* exactly one owner with a live grant.
THEOREM DeviceAccessOneOwner == Spec => []OneOwner
<1>1. AccessInv => OneOwner
  BY DEF AccessInv, OwnerRows, OneOwner
<1> QED BY <1>1, AccessInit, AccessInvariance, PTL DEF Spec

\* Whoever is behind an owner-only gate still owns the device when his handler writes.
THEOREM DeviceAccessOwnerOnlySteps == Spec => []OwnerOnlySteps
<1>1. AccessInv => OwnerOnlySteps
  BY DEF AccessInv, Pending, PendingAt, OwnerOnlySteps
<1> QED BY <1>1, AccessInit, AccessInvariance, PTL DEF Spec

-----------------------------------------------------------------------------
(* What is gone stays gone: users who were deleted before a request came,  *)
(* and devices.                                                            *)

LateAt(r) == req[r].late => req[r].target \notin alive /\ ~At(r, "upsertGrant")
LateInv == \A r \in Requests : LateAt(r)

LEMMA LateKept ==
    ASSUME LateInv, NEW r \in Requests, Others(r), alive' \subseteq alive, LateAt(r)'
    PROVE  LateInv'
  BY DEF LateInv, LateAt, At, Others

LEMMA LateInvariance == AccessInv /\ LateInv /\ [Next]_vars => LateInv'
<1> SUFFICES ASSUME AccessInv, LateInv, [Next]_vars PROVE LateInv'
  OBVIOUS
<1>I. TablesOK /\ ReqOK
  BY DEF AccessInv
<1>0. ASSUME NEW r \in Requests, Reply(r), alive' = alive PROVE LateInv'
  BY <1>0, <1>I, ReplyEffect, LateKept DEF LateAt
<1>1. ASSUME NEW r \in Requests, NEW pc \in Steps, Goto(r, pc), ~At(r, "idle"), alive' = alive,
             pc = "upsertGrant" => req[r].target \in alive
      PROVE  LateInv'
  <2>1. Others(r) /\ SameRequest(r) /\ req'[r].pc = pc
    BY <1>1, <1>I, GotoEffect
  <2>2. LateAt(r)'
    BY <1>1, <2>1 DEF LateInv, LateAt, At, SameRequest
  <2> QED BY <1>1, <2>1, <2>2, LateKept
<1>2. ASSUME NEW r \in Requests, Arrive(r) PROVE LateInv'
  <2> PICK op \in Ops, u \in alive, d \in Devices, t \in Users :
        /\ op \in {"grant", "revoke"} \/ t = u
        /\ req' = [req EXCEPT ![r] =
                     [pc |-> IF op = "create" THEN "createDevice" ELSE "requireRole",
                      op |-> op, actor |-> u, device |-> d, target |-> t,
                      late |-> t \notin alive]]
    BY <1>2, Zenon DEF Arrive
  <2>0. Others(r)
    BY <1>I DEF ReqOK, Others
  <2>1. req'[r].pc # "upsertGrant" /\ req'[r].target = t /\ (req'[r].late => t \notin alive)
    BY <1>I DEF ReqOK
  <2>2. alive' = alive
    BY <1>2 DEF Arrive, tables
  <2>3. LateAt(r)'
    BY <2>1, <2>2 DEF LateAt, At
  <2> QED BY <2>0, <2>2, <2>3, LateKept
<1>3. ASSUME NEW r \in Requests, RequestStep(r) PROVE LateInv'
  <2> USE DEF tables
  <2>1. CASE RequireDeviceRole(r)
    <3>1. ~At(r, "idle")
      BY <2>1 DEF RequireDeviceRole, At
    <3>2. CASE Reply(r)
      BY <1>0, <2>1, <3>2 DEF RequireDeviceRole
    <3>3. CASE Goto(r, FirstStep[req[r].op]) /\ req[r].op # "create"
      <4>1. req[r].op \in Ops
        BY <1>I DEF ReqOK, Request
      <4>2. FirstStep[req[r].op] \in Steps \ {"upsertGrant"}
        BY <3>3, <4>1 DEF FirstStep, Ops, Steps, OwnerSteps
      <4> QED BY <1>1, <2>1, <3>1, <3>3, <4>2 DEF RequireDeviceRole
    <3>4. req[r].op # "create"
      BY <2>1 DEF AccessInv, Pending, PendingAt, RequireDeviceRole
    <3> QED BY <2>1, <3>2, <3>3, <3>4 DEF RequireDeviceRole
  <2>2. CASE CheckTarget(r)
    <3>1. ~At(r, "idle") /\ "upsertGrant" \in Steps
      BY <2>2 DEF CheckTarget, At, Steps, OwnerSteps
    <3> QED BY <1>0, <1>1, <2>2, <3>1 DEF CheckTarget
  <2>3. CASE CheckGrant(r)
    <3>1. ~At(r, "idle") /\ "revokeGrant" \in Steps
      BY <2>3 DEF CheckGrant, At, Steps, OwnerSteps
    <3> QED BY <1>0, <1>1, <2>3, <3>1 DEF CheckGrant
  <2>4. CASE CreateDevice(r) \/ UpdateDevice(r) \/ SoftDeleteDevice(r) \/ UpsertGrant(r) \/ RevokeGrant(r)
    BY <1>0, <2>4 DEF CreateDevice, UpdateDevice, SoftDeleteDevice, UpsertGrant, RevokeGrant
  <2> QED BY <1>3, <2>1, <2>2, <2>3, <2>4 DEF RequestStep
<1>4. ASSUME NEW r \in Requests, Fail(r) PROVE LateInv'
  BY <1>0, <1>4 DEF Fail, tables
<1>5. ASSUME NEW u \in Users, DeleteUser(u) PROVE LateInv'
  BY <1>5 DEF DeleteUser, LateInv, LateAt, At
<1>6. CASE UNCHANGED vars
  BY <1>6 DEF vars, LateInv, LateAt, At
<1> QED BY <1>2, <1>3, <1>4, <1>5, <1>6 DEF Next

\* Nobody who was gone before a request came gets a grant by it.
THEOREM DeviceAccessLateTargetsRefused == Spec => []LateTargetsRefused
<1>1. Init => LateInv
  BY DEF Init, LateInv, LateAt, Idle
<1>2. LateInv => LateTargetsRefused
  BY DEF LateInv, LateAt, LateTargetsRefused
<1> QED BY <1>1, <1>2, AccessInit, AccessInvariance, LateInvariance, PTL DEF Spec

\* A device's row is written in three places, and only while it is absent or active.
LEMMA DeletedStay ==
    ASSUME AccessInv, [Next]_vars, NEW d \in Devices, device[d].standing = "deleted"
    PROVE  device'[d] = device[d]
<1> USE DEF tables
<1>0. device \in [Devices -> Device]
  BY DEF AccessInv, TablesOK
<1>1. ASSUME NEW r \in Requests, CreateDevice(r) PROVE device'[d] = device[d]
  BY <1>0, <1>1 DEF CreateDevice, FirmwareTaken
<1>2. ASSUME NEW r \in Requests, UpdateDevice(r) \/ SoftDeleteDevice(r)
      PROVE  device'[d] = device[d]
  BY <1>0, <1>2 DEF UpdateDevice, SoftDeleteDevice, ActiveDevice
<1>3. ASSUME NEW r \in Requests, \/ Arrive(r) \/ RequireDeviceRole(r) \/ CheckTarget(r)
                                 \/ UpsertGrant(r) \/ CheckGrant(r) \/ RevokeGrant(r) \/ Fail(r)
      PROVE  device'[d] = device[d]
  BY <1>3 DEF Arrive, RequireDeviceRole, CheckTarget, UpsertGrant, CheckGrant, RevokeGrant, Fail
<1>4. ASSUME NEW u \in Users, DeleteUser(u) PROVE device'[d] = device[d]
  BY <1>4 DEF DeleteUser
<1>5. CASE UNCHANGED vars
  BY <1>5 DEF vars
<1> QED BY <1>1, <1>2, <1>3, <1>4, <1>5 DEF Next, RequestStep

\* A deleted device keeps its row as it is, whatever passed the gate before.
THEOREM DeviceAccessDeletedFrozen == Spec => DeletedDevicesFrozen
<1>1. AccessInv /\ [Next]_vars =>
        [\A d \in Devices : device[d].standing = "deleted" => device'[d] = device[d]]_vars
  BY DeletedStay
<1> QED BY <1>1, AccessInit, AccessInvariance, PTL DEF Spec, DeletedDevicesFrozen

-----------------------------------------------------------------------------
(* The tables implement the abstract book.  Its owner of a device is the   *)
(* one who holds the owner's row, and to register a device changes no      *)
(* viewers because a device that is not there has no live rows.            *)

GrantsTaken == \A u \in Users, d \in Devices : grant[u][d].live => FirmwareTaken(d)

BookInv == AccessInv /\ GrantsTaken

\* g, o: the grants and who owns what; a table in which each device has one owner at most.
OwnerIn(g) == [d \in Devices |-> IF \E u \in Users : g[u][d].role = "owner"
                                 THEN CHOOSE u \in Users : g[u][d].role = "owner"
                                 ELSE NoUser]
ViewersIn(g) == [d \in Devices |-> {u \in Users : g[u][d].live /\ g[u][d].role # "owner"}]
SoleOwners(g) == \A u, o \in Users, d \in Devices :
                    g[u][d].role = "owner" /\ g[o][d].role = "owner" => u = o

LEMMA BookIs ==
    /\ OwnerOf = OwnerIn(grant) /\ OwnerOf' = OwnerIn(grant')
    /\ ViewersOf = ViewersIn(grant) /\ ViewersOf' = ViewersIn(grant')
    /\ OwnerRows => SoleOwners(grant)
    /\ OwnerRows' => SoleOwners(grant')
<1>1. OwnerOf = OwnerIn(grant) /\ OwnerOf' = OwnerIn(grant')
  BY DEF OwnerOf, OwnerIn, Owns
<1>2. ViewersOf = ViewersIn(grant) /\ ViewersOf' = ViewersIn(grant')
  BY DEF ViewersOf, ViewersIn, Owns
<1>3. (OwnerRows => SoleOwners(grant)) /\ (OwnerRows' => SoleOwners(grant'))
  BY DEF OwnerRows, SoleOwners, Owns
<1> QED BY <1>1, <1>2, <1>3

LEMMA OwnerInValue ==
    ASSUME NEW g, SoleOwners(g), NEW d \in Devices
    PROVE  /\ \A u \in Users : g[u][d].role = "owner" => OwnerIn(g)[d] = u
           /\ (\A u \in Users : g[u][d].role # "owner") => OwnerIn(g)[d] = NoUser
<1>1. ASSUME NEW u \in Users, g[u][d].role = "owner" PROVE OwnerIn(g)[d] = u
  <2> DEFINE c == CHOOSE o \in Users : g[o][d].role = "owner"
  <2>1. c \in Users /\ g[c][d].role = "owner"
    BY <1>1
  <2>2. c = u
    BY <1>1, <2>1 DEF SoleOwners
  <2> QED BY <1>1, <2>2 DEF OwnerIn
<1>2. (\A u \in Users : g[u][d].role # "owner") => OwnerIn(g)[d] = NoUser
  BY DEF OwnerIn
<1> QED BY <1>1, <1>2

\* A write to the row of t and d alone.
WrittenAt(g, h, t, d) == \A u \in Users, e \in Devices : u # t \/ e # d => h[u][e] = g[u][e]

\* It leaves the owners as they are unless it writes an owner's row.
LEMMA OwnersSame ==
    ASSUME NEW g, NEW h, SoleOwners(g), SoleOwners(h),
           \A u \in Users, d \in Devices : g[u][d].role = "owner" <=> h[u][d].role = "owner"
    PROVE  OwnerIn(h) = OwnerIn(g)
<1>1. ASSUME NEW d \in Devices PROVE OwnerIn(h)[d] = OwnerIn(g)[d]
  <2>1. CASE \E u \in Users : g[u][d].role = "owner"
    BY <2>1, OwnerInValue
  <2>2. CASE \A u \in Users : g[u][d].role # "owner"
    BY <2>2, OwnerInValue
  <2> QED BY <2>1, <2>2
<1> QED BY <1>1 DEF OwnerIn

LEMMA OwnersDiffer ==
    ASSUME NEW g, NEW h, SoleOwners(g), SoleOwners(h), NEW t \in Users, NEW d \in Devices,
           WrittenAt(g, h, t, d), h[t][d].role = "owner"
    PROVE  OwnerIn(h) = [OwnerIn(g) EXCEPT ![d] = t]
<1>1. OwnerIn(h)[d] = t
  BY OwnerInValue
<1>2. ASSUME NEW e \in Devices \ {d} PROVE OwnerIn(h)[e] = OwnerIn(g)[e]
  <2>1. \A u \in Users : h[u][e] = g[u][e]
    BY DEF WrittenAt
  <2>2. CASE \E u \in Users : g[u][e].role = "owner"
    BY <2>1, <2>2, OwnerInValue
  <2>3. CASE \A u \in Users : g[u][e].role # "owner"
    BY <2>1, <2>3, OwnerInValue
  <2> QED BY <2>2, <2>3
<1> QED BY <1>1, <1>2 DEF OwnerIn

\* And the viewers of other devices.
LEMMA ViewersDiffer ==
    ASSUME NEW g, NEW h, NEW t \in Users, NEW d \in Devices, WrittenAt(g, h, t, d),
           NEW V, ViewersIn(h)[d] = V
    PROVE  ViewersIn(h) = [ViewersIn(g) EXCEPT ![d] = V]
<1>1. ASSUME NEW e \in Devices \ {d} PROVE ViewersIn(h)[e] = ViewersIn(g)[e]
  BY DEF WrittenAt, ViewersIn
<1> QED BY <1>1 DEF ViewersIn

\* The rows after a write, in full.
LEMMA RowWritten ==
    ASSUME TablesOK, NEW t \in Users, NEW d \in Devices, NEW row,
           grant' = [grant EXCEPT ![t][d] = row]
    PROVE  grant'[t][d] = row /\ WrittenAt(grant, grant', t, d)
  BY DEF TablesOK, WrittenAt

LEMMA RegisterStep ==
    ASSUME BookInv, AccessInv', NEW r \in Requests, CreateDevice(r), ~FirmwareTaken(req[r].device)
    PROVE  GrantsTaken' /\ \E u \in Users, d \in Devices : Book!Register(u, d)
<1> DEFINE u == req[r].actor
           d == req[r].device
<1>1. u \in Users /\ d \in Devices /\ TablesOK /\ OwnerRows /\ OwnerRows'
  BY DEF BookInv, AccessInv, ReqOK, InFlight, CreateDevice, At
<1>2. /\ device' = [device EXCEPT ![d].standing = "active"]
      /\ grant' = [grant EXCEPT ![u][d] = [role |-> "owner", live |-> TRUE]]
  BY DEF CreateDevice
<1>3. /\ grant'[u][d].role = "owner" /\ grant'[u][d].live = TRUE
      /\ WrittenAt(grant, grant', u, d)
  <2> HIDE DEF u, d
  <2>1. grant'[u][d] = [role |-> "owner", live |-> TRUE] /\ WrittenAt(grant, grant', u, d)
    BY <1>1, <1>2, RowWritten
  <2> QED BY <2>1
<1>4. /\ device'[d].standing = "active"
      /\ \A e \in Devices \ {d} : device'[e] = device[e]
      /\ device[d].standing = "absent"
  BY <1>1, <1>2 DEF TablesOK, Device, FirmwareTaken
<1>5. \A o \in Users : grant[o][d].live = FALSE /\ grant[o][d].role # "owner"
  <2>1. \A o \in Users : ~grant[o][d].live /\ ~Owns(o, d)
    BY <1>1 DEF BookInv, GrantsTaken, OwnerRows
  <2>2. \A o \in Users : grant[o][d] \in Grant
    BY <1>1 DEF TablesOK
  <2> QED BY <2>1, <2>2 DEF Grant, Owns
<1>6. GrantsTaken'
  <2> SUFFICES ASSUME NEW o \in Users, NEW e \in Devices, grant'[o][e].live
               PROVE  device'[e].standing # "absent"
    BY DEF GrantsTaken, FirmwareTaken
  <2>1. CASE e = d
    BY <1>4, <2>1
  <2>2. CASE e # d
    <3>1. grant'[o][e] = grant[o][e] /\ device'[e] = device[e]
      BY <1>3, <1>4, <2>2 DEF WrittenAt
    <3> QED BY <3>1 DEF BookInv, GrantsTaken, FirmwareTaken
  <2> QED BY <2>1, <2>2
<1>7. SoleOwners(grant) /\ SoleOwners(grant')
  BY <1>1, BookIs
<1>8. OwnerOf' = [OwnerOf EXCEPT ![d] = u] /\ OwnerOf[d] = NoUser
  <2> HIDE DEF u, d
  <2>1. OwnerIn(grant') = [OwnerIn(grant) EXCEPT ![d] = u]
    BY <1>1, <1>3, <1>7, OwnersDiffer
  <2>2. OwnerIn(grant)[d] = NoUser
    BY <1>1, <1>5, <1>7, OwnerInValue
  <2> QED BY <2>1, <2>2, BookIs
<1>9. ViewersOf' = ViewersOf
  <2> HIDE DEF u, d
  <2>1. ASSUME NEW e \in Devices PROVE ViewersIn(grant')[e] = ViewersIn(grant)[e]
    <3>1. CASE e = d
      <4>1. \A o \in Users : ~(grant'[o][d].live /\ grant'[o][d].role # "owner")
        BY <1>1, <1>3, <1>5 DEF WrittenAt
      <4> QED BY <1>5, <3>1, <4>1 DEF ViewersIn
    <3>2. CASE e # d
      BY <1>3, <3>2 DEF WrittenAt, ViewersIn
    <3> QED BY <3>1, <3>2
  <2>2. ViewersIn(grant') = ViewersIn(grant)
    BY <2>1 DEF ViewersIn
  <2> QED BY <2>2, BookIs
<1>10. Retired' = Retired
  BY <1>1, <1>4 DEF Retired
<1> QED BY <1>1, <1>6, <1>8, <1>9, <1>10 DEF Book!Register

LEMMA RetireStep ==
    ASSUME BookInv, NEW r \in Requests, SoftDeleteDevice(r), ActiveDevice(req[r].device)
    PROVE  GrantsTaken' /\ \E d \in Devices : Book!Retire(d)
<1> DEFINE d == req[r].device
<1>1. d \in Devices /\ TablesOK /\ OwnerRows /\ grant' = grant
  BY DEF BookInv, AccessInv, ReqOK, InFlight, SoftDeleteDevice, At
<1>2. /\ device'[d].standing = "deleted"
      /\ \A e \in Devices \ {d} : device'[e] = device[e]
  BY <1>1 DEF SoftDeleteDevice, TablesOK, Device
<1>3. GrantsTaken'
  BY <1>1, <1>2 DEF BookInv, GrantsTaken, FirmwareTaken
<1>4. PICK u \in Users : Owns(u, d)
  BY <1>1 DEF OwnerRows, FirmwareTaken, ActiveDevice
<1>5. OwnerOf[d] # NoUser
  <2> HIDE DEF d
  <2>1. SoleOwners(grant) /\ grant[u][d].role = "owner"
    BY <1>1, <1>4, BookIs DEF Owns
  <2>2. OwnerIn(grant)[d] = u
    BY <1>1, <2>1, OwnerInValue
  <2> QED BY <2>2, BookIs, DeviceAccessAssumption
<1>6. OwnerOf' = OwnerOf /\ ViewersOf' = ViewersOf
  BY <1>1, BookIs
<1>7. Retired' = Retired \cup {d}
  BY <1>1, <1>2 DEF Retired
<1> QED BY <1>1, <1>3, <1>5, <1>6, <1>7 DEF Book!Retire

\* A viewer's row is written by its device's owner, for somebody else.
LEMMA ShareStep ==
    ASSUME BookInv, AccessInv', NEW r \in Requests, UpsertGrant(r) \/ RevokeGrant(r)
    PROVE  GrantsTaken' /\ \E t \in Users, d \in Devices : Book!Share(t, d) \/ Book!Unshare(t, d)
<1> DEFINE a == req[r].actor
           t == req[r].target
           d == req[r].device
<1>1. /\ a \in Users /\ t \in Users /\ d \in Devices /\ TablesOK /\ OwnerRows /\ OwnerRows'
      /\ device' = device
  BY DEF BookInv, AccessInv, ReqOK, InFlight, UpsertGrant, RevokeGrant, At
<1>2. Owns(a, d) /\ t # a
  BY DEF BookInv, AccessInv, Pending, PendingAt, UpsertGrant, RevokeGrant, At, OwnerSteps
<1>3. ~Owns(t, d) /\ FirmwareTaken(d)
  BY <1>1, <1>2 DEF OwnerRows
<1>4. /\ WrittenAt(grant, grant', t, d)
      /\ grant'[t][d].role # "owner"
      /\ UpsertGrant(r) => grant'[t][d].live = TRUE
      /\ RevokeGrant(r) => grant'[t][d].live = FALSE
  BY <1>1, <1>3 DEF UpsertGrant, RevokeGrant, TablesOK, Grant, Owns, WrittenAt
<1>5. GrantsTaken'
  BY <1>1, <1>3, <1>4 DEF BookInv, GrantsTaken, FirmwareTaken, WrittenAt
<1>6. SoleOwners(grant) /\ SoleOwners(grant')
  BY <1>1, BookIs
<1>7. OwnerOf' = OwnerOf /\ OwnerOf[d] = a
  <2> HIDE DEF a, t, d
  <2>1. \A u \in Users, e \in Devices : grant[u][e].role = "owner" <=> grant'[u][e].role = "owner"
    BY <1>1, <1>3, <1>4 DEF WrittenAt, Owns
  <2>2. OwnerIn(grant') = OwnerIn(grant)
    BY <1>6, <2>1, OwnersSame
  <2>3. OwnerIn(grant)[d] = a
    BY <1>1, <1>2, <1>6, OwnerInValue DEF Owns
  <2> QED BY <2>2, <2>3, BookIs
<1>8. Retired' = Retired
  BY <1>1 DEF Retired
<1>9. CASE UpsertGrant(r)
  <2>1. ViewersOf' = [ViewersOf EXCEPT ![d] = ViewersOf[d] \cup {t}]
    <3> HIDE DEF a, t, d
    <3>1. ViewersIn(grant')[d] = ViewersIn(grant)[d] \cup {t}
      BY <1>1, <1>4, <1>9 DEF WrittenAt, ViewersIn
    <3>2. ViewersIn(grant') = [ViewersIn(grant) EXCEPT ![d] = ViewersIn(grant)[d] \cup {t}]
      BY <1>1, <1>4, <3>1, ViewersDiffer
    <3> QED BY <3>2, BookIs
  <2>2. OwnerOf[d] \notin {NoUser, t}
    BY <1>1, <1>2, <1>7, DeviceAccessAssumption
  <2> QED BY <1>1, <1>5, <1>7, <1>8, <2>1, <2>2 DEF Book!Share
<1>10. CASE RevokeGrant(r)
  <2>1. ViewersOf' = [ViewersOf EXCEPT ![d] = ViewersOf[d] \ {t}]
    <3> HIDE DEF a, t, d
    <3>1. ViewersIn(grant')[d] = ViewersIn(grant)[d] \ {t}
      BY <1>1, <1>4, <1>10 DEF WrittenAt, ViewersIn
    <3>2. ViewersIn(grant') = [ViewersIn(grant) EXCEPT ![d] = ViewersIn(grant)[d] \ {t}]
      BY <1>1, <1>4, <3>1, ViewersDiffer
    <3> QED BY <3>2, BookIs
  <2> QED BY <1>1, <1>5, <1>7, <1>8, <2>1 DEF Book!Unshare
<1> QED BY <1>9, <1>10

\* No other step touches an owner, a viewer or a device's standing.
LEMMA OtherStepsKeepBook ==
    ASSUME BookInv, [Next]_vars,
           \A r \in Requests : /\ ~(CreateDevice(r) /\ ~FirmwareTaken(req[r].device))
                               /\ ~(SoftDeleteDevice(r) /\ ActiveDevice(req[r].device))
                               /\ ~(UpsertGrant(r) \/ RevokeGrant(r))
    PROVE  grant' = grant /\ \A d \in Devices : device'[d].standing = device[d].standing
<1> USE DEF tables
<1>1. ASSUME NEW r \in Requests, CreateDevice(r) PROVE grant' = grant /\ device' = device
  BY <1>1 DEF CreateDevice
<1>2. ASSUME NEW r \in Requests, SoftDeleteDevice(r) PROVE grant' = grant /\ device' = device
  BY <1>2 DEF SoftDeleteDevice
<1>3. ASSUME NEW r \in Requests, UpdateDevice(r)
      PROVE  grant' = grant /\ \A d \in Devices : device'[d].standing = device[d].standing
  BY <1>3 DEF UpdateDevice, BookInv, AccessInv, TablesOK, Device
<1>4. ASSUME NEW r \in Requests, \/ Arrive(r) \/ RequireDeviceRole(r) \/ CheckTarget(r)
                                 \/ CheckGrant(r) \/ Fail(r)
      PROVE  grant' = grant /\ device' = device
  BY <1>4 DEF Arrive, RequireDeviceRole, CheckTarget, CheckGrant, Fail
<1>5. ASSUME NEW u \in Users, DeleteUser(u) PROVE grant' = grant /\ device' = device
  BY <1>5 DEF DeleteUser
<1>6. CASE UNCHANGED vars
  BY <1>6 DEF vars
<1> QED BY <1>1, <1>2, <1>3, <1>4, <1>5, <1>6 DEF Next, RequestStep

LEMMA BookStep ==
    ASSUME BookInv, AccessInv', [Next]_vars
    PROVE  GrantsTaken' /\ [Book!BookNext]_(Book!bookVars)
<1>1. CASE \E r \in Requests : CreateDevice(r) /\ ~FirmwareTaken(req[r].device)
  BY <1>1, RegisterStep DEF Book!BookNext
<1>2. CASE \E r \in Requests : SoftDeleteDevice(r) /\ ActiveDevice(req[r].device)
  BY <1>2, RetireStep DEF Book!BookNext
<1>3. CASE \E r \in Requests : UpsertGrant(r) \/ RevokeGrant(r)
  BY <1>3, ShareStep DEF Book!BookNext
<1>4. CASE grant' = grant /\ \A d \in Devices : device'[d].standing = device[d].standing
  <2>1. OwnerOf' = OwnerOf /\ ViewersOf' = ViewersOf
    BY <1>4, BookIs
  <2>2. Retired' = Retired
    BY <1>4 DEF Retired
  <2>3. GrantsTaken'
    BY <1>4 DEF BookInv, GrantsTaken, FirmwareTaken
  <2> QED BY <2>1, <2>2, <2>3 DEF Book!bookVars
<1> QED BY <1>1, <1>2, <1>3, <1>4, OtherStepsKeepBook

\* Devices, grants and the requests racing on them implement the book of owners and viewers:
\* an owner stays, and only rows of others are ever shared or taken back.
THEOREM DeviceAccessImplementsBook == Spec => ImplementsAccessBook
<1>1. Init => Book!BookInit /\ GrantsTaken
  <2> SUFFICES ASSUME Init PROVE Book!BookInit /\ GrantsTaken
    OBVIOUS
  <2>1. \A u \in Users, d \in Devices : grant[u][d].role = "none" /\ grant[u][d].live = FALSE
    BY DEF Init
  <2>2. OwnerOf = [d \in Devices |-> NoUser] /\ ViewersOf = [d \in Devices |-> {}]
    BY <2>1 DEF OwnerOf, ViewersOf, Owns
  <2>3. Retired = {}
    BY DEF Init, Retired
  <2> QED BY <2>1, <2>2, <2>3 DEF Book!BookInit, GrantsTaken
<1>2. BookInv /\ AccessInv' /\ [Next]_vars => GrantsTaken' /\ [Book!BookNext]_(Book!bookVars)
  BY BookStep
<1>3. BookInv <=> AccessInv /\ GrantsTaken
  BY DEF BookInv
<1> QED BY <1>1, <1>2, <1>3, AccessInit, AccessInvariance, PTL
        DEF Spec, ImplementsAccessBook, Book!BookSpec
=============================================================================
