---------------------------- MODULE ApiKeysProofs ----------------------------
(***************************************************************************)
(* Proofs about ApiKeys, for every set of devices, tokens and requests.    *)
(***************************************************************************)
EXTENDS ApiKeys, TLAPS

ReqOK == /\ req \in [Requests -> Request]
         /\ \A r \in Requests : ~At(r, "idle") => req[r].device \in Devices /\ req[r].key \in Keys
TablesOK == /\ deleted \subseteq Devices /\ key \in [Keys -> Key]
            /\ \A k \in Keys : ~Unused(k) => key[k].device \in Devices

\* A token in the hands of a Create is in no row and in nobody else's hands.
Fresh == \A r \in Requests : req[r].pc \in CreateSteps =>
            /\ Unused(req[r].key)
            /\ \A q \in Requests \ {r} : req[q].pc \in CreateSteps => req[q].key # req[r].key

\* A request that was dead on arrival stays so, and its key was issued before it came.
StaysDead(r) == /\ ~Unused(req[r].key)
                /\ \/ At(r, "resolveDevice") /\ ~Usable(req[r].device, req[r].key)
                   \/ /\ At(r, "lookUpKey")
                      /\ ~(Active(req[r].key) /\ key[req[r].key].device = req[r].device)
Dead == \A r \in Requests : req[r].dead => StaysDead(r)

KeyInv == TablesOK /\ ReqOK /\ OneActiveKey /\ Fresh /\ Dead

\* Issued keys only ever move from active to revoked, and deletions are for good.
KeysMove == /\ \A k \in Keys : ~Unused(k) => /\ ~Unused(k)'
                                             /\ key'[k].device = key[k].device
                                             /\ Active(k)' => Active(k)
            /\ deleted \subseteq deleted'

Others(r) == \A q \in Requests : q # r => req'[q] = req[q]
SameRequest(r) == /\ req'[r].op = req[r].op
                  /\ req'[r].device = req[r].device
                  /\ req'[r].key = req[r].key
                  /\ req'[r].dead = req[r].dead

LEMMA GotoEffect ==
    ASSUME ReqOK, NEW r \in Requests, NEW pc \in Steps, Goto(r, pc), ~At(r, "idle")
    PROVE  ReqOK' /\ Others(r) /\ SameRequest(r) /\ req'[r].pc = pc
<1>1. Others(r) /\ SameRequest(r) /\ req'[r].pc = pc /\ req' \in [Requests -> Request]
  BY DEF ReqOK, Goto, Request, Others, SameRequest
<1> QED BY <1>1 DEF ReqOK, At, Others, SameRequest

LEMMA ReplyEffect ==
    ASSUME ReqOK, NEW r \in Requests, NEW status \in Statuses, Reply(r, status)
    PROVE  ReqOK' /\ Others(r) /\ req'[r].pc = "idle" /\ ~req'[r].dead
<1>1. Done(status) \in Request
  BY DEF Done, Request, Steps, Ops
<1>2. Others(r) /\ req'[r] = Done(status) /\ req' \in [Requests -> Request]
  BY <1>1 DEF ReqOK, Reply, Others
<1> QED BY <1>2 DEF ReqOK, At, Others, Done

LEMMA BeginEffect ==
    ASSUME ReqOK, NEW r \in Requests, NEW pc \in Steps, NEW op \in Ops,
           NEW d \in Devices, NEW k \in Keys, NEW dead \in BOOLEAN, Begin(r, pc, op, d, k, dead)
    PROVE  /\ ReqOK' /\ Others(r)
           /\ req'[r].pc = pc /\ req'[r].device = d /\ req'[r].key = k /\ req'[r].dead = dead
<1> DEFINE new == [pc |-> pc, op |-> op, device |-> d, key |-> k,
                   status |-> "none", dead |-> dead]
<1>1. new \in Request
  BY DEF Request, Statuses
<1>2. Others(r) /\ req'[r] = new /\ req' \in [Requests -> Request]
  BY <1>1 DEF ReqOK, Begin, Others
<1> QED BY <1>2 DEF ReqOK, At, Others

-----------------------------------------------------------------------------
(* What a step of one request leaves of the others, and what is asked of   *)
(* its own.                                                                *)

LEMMA FreshKept ==
    ASSUME Fresh, NEW r \in Requests, Others(r),
           \A q \in Requests \ {r} :
              req[q].pc \in CreateSteps => key'[req[q].key].standing = "unused",
           req'[r].pc \in CreateSteps =>
              /\ key'[req'[r].key].standing = "unused"
              /\ \A q \in Requests \ {r} : req[q].pc \in CreateSteps => req[q].key # req'[r].key
    PROVE  Fresh'
<1>1. \A q \in Requests \ {r} : req'[q] = req[q]
  BY DEF Others
<1> QED BY <1>1 DEF Fresh, Unused

LEMMA DeadKept ==
    ASSUME ReqOK, Dead, KeysMove, NEW r \in Requests, Others(r),
           req'[r].dead => StaysDead(r)'
    PROVE  Dead'
<1> SUFFICES ASSUME NEW q \in Requests, q # r, req'[q].dead PROVE StaysDead(q)'
  BY DEF Dead
<1>1. req'[q] = req[q]
  BY DEF Others
<1>2. StaysDead(q)
  BY <1>1 DEF Dead
<1> DEFINE k == req[q].key
           d == req[q].device
<1>3. k \in Keys /\ ~Unused(k)
  BY <1>2 DEF ReqOK, StaysDead, At
<1>4. /\ key'[k].standing # "unused" /\ key'[k].device = key[k].device
      /\ key'[k].standing = "active" => key[k].standing = "active"
      /\ d \in deleted => d \in deleted'
  BY <1>3 DEF KeysMove, Active, Unused
<1>5. \/ req[q].pc = "resolveDevice" /\ ~(d \notin deleted' /\ key'[k].standing = "active"
                                          /\ key'[k].device = d)
      \/ req[q].pc = "lookUpKey" /\ ~(key'[k].standing = "active" /\ key'[k].device = d)
  BY <1>2, <1>4 DEF StaysDead, At, Usable, Active
<1> QED BY <1>1, <1>4, <1>5 DEF StaysDead, At, Usable, Active, Unused

\* Steps that leave the tables alone.
LEMMA SameTables ==
    ASSUME TablesOK, OneActiveKey, UNCHANGED tables
    PROVE  TablesOK' /\ OneActiveKey' /\ KeysMove
  BY DEF TablesOK, OneActiveKey, KeysMove, tables, Active, Unused

\* A reply keeps the invariant if the tables do and it spares the tokens of other Creates.
LEMMA ReplyKeeps ==
    ASSUME KeyInv, NEW r \in Requests, NEW status \in Statuses, Reply(r, status),
           TablesOK', OneActiveKey', KeysMove,
           \A q \in Requests \ {r} :
              req[q].pc \in CreateSteps => key'[req[q].key].standing = "unused"
    PROVE  KeyInv'
<1>1. ReqOK' /\ Others(r) /\ req'[r].pc = "idle" /\ ~req'[r].dead
  BY ReplyEffect DEF KeyInv
<1>2. Fresh'
  BY <1>1, FreshKept DEF KeyInv, CreateSteps
<1>3. Dead'
  BY <1>1, DeadKept DEF KeyInv
<1> QED BY <1>1, <1>2, <1>3 DEF KeyInv

\* So does a step of r that leaves the tables alone and is itself in order afterwards.
LEMMA ReadKeeps ==
    ASSUME KeyInv, NEW r \in Requests, UNCHANGED tables, ReqOK', Others(r),
           req'[r].pc \in CreateSteps =>
              /\ key[req'[r].key].standing = "unused"
              /\ \A q \in Requests \ {r} : req[q].pc \in CreateSteps => req[q].key # req'[r].key,
           req'[r].dead => StaysDead(r)'
    PROVE  KeyInv'
<1>1. TablesOK' /\ OneActiveKey' /\ KeysMove /\ key' = key
  BY SameTables DEF KeyInv, tables
<1>2. \A q \in Requests : req[q].pc \in CreateSteps => key'[req[q].key].standing = "unused"
  BY <1>1 DEF KeyInv, Fresh, Unused
<1>3. Fresh'
  BY <1>1, <1>2, FreshKept DEF KeyInv
<1>4. Dead'
  BY <1>1, DeadKept DEF KeyInv
<1> QED BY <1>1, <1>3, <1>4 DEF KeyInv

-----------------------------------------------------------------------------
LEMMA KeyInit == Init => KeyInv
<1> SUFFICES ASSUME Init PROVE KeyInv
  OBVIOUS
<1>1. Done("none") \in Request
  BY DEF Done, Request, Steps, Ops, Statuses
<1>2. TablesOK /\ ReqOK
  BY <1>1 DEF Init, TablesOK, Key, Unused, ReqOK, At, Done
<1>3. OneActiveKey
  BY DEF Init, OneActiveKey, Active
<1>4. Fresh /\ Dead
  BY DEF Init, Fresh, Dead, CreateSteps, Done
<1> QED BY <1>2, <1>3, <1>4 DEF KeyInv

\* Reads of a request that answer or go on within the same request.
LEMMA GoOn ==
    ASSUME KeyInv, NEW r \in Requests, NEW pc \in Steps, Goto(r, pc), UNCHANGED tables,
           ~At(r, "idle"),
           pc \in CreateSteps => req[r].pc \in CreateSteps,
           req[r].dead => pc = "lookUpKey" /\ req[r].device \notin deleted
    PROVE  KeyInv'
<1>1. ReqOK' /\ Others(r) /\ SameRequest(r) /\ req'[r].pc = pc
  BY GotoEffect DEF KeyInv
<1>2. req'[r].pc \in CreateSteps =>
        /\ key[req'[r].key].standing = "unused"
        /\ \A q \in Requests \ {r} : req[q].pc \in CreateSteps => req[q].key # req'[r].key
  BY <1>1 DEF KeyInv, Fresh, Unused, SameRequest
<1>3. ASSUME req'[r].dead PROVE StaysDead(r)'
  <2>1. req[r].dead /\ StaysDead(r)
    BY <1>1, <1>3 DEF KeyInv, Dead, SameRequest
  <2>2. key' = key /\ deleted' = deleted
    BY DEF tables
  <2> QED BY <1>1, <2>1, <2>2 DEF StaysDead, At, Usable, Active, Unused, SameRequest
<1> QED BY <1>1, <1>2, <1>3, ReadKeeps

LEMMA AnswerReads ==
    ASSUME KeyInv, NEW r \in Requests, NEW status \in Statuses, Reply(r, status), UNCHANGED tables
    PROVE  KeyInv'
<1>1. TablesOK' /\ OneActiveKey' /\ KeysMove /\ key' = key
  BY SameTables DEF KeyInv, tables
<1>2. \A q \in Requests : req[q].pc \in CreateSteps => key'[req[q].key].standing = "unused"
  BY <1>1 DEF KeyInv, Fresh, Unused
<1> QED BY <1>1, <1>2, ReplyKeeps

-----------------------------------------------------------------------------
(* The actions that are not covered by GoOn and AnswerReads alone.         *)

LEMMA ArrivalKeeps ==
    ASSUME KeyInv, NEW r \in Requests, At(r, "idle"),
           ArriveCreate(r) \/ ArriveRevoke(r) \/ ArriveIngest(r)
    PROVE  KeyInv'
<1>1. CASE ArriveCreate(r)
  <2>1. PICK d \in Devices, k \in Keys :
            /\ Unused(k)
            /\ \A q \in Requests : req[q].key # k
            /\ Begin(r, "preCheck", "create", d, k, FALSE)
    BY <1>1 DEF ArriveCreate
  <2>2. "preCheck" \in Steps /\ "create" \in Ops /\ FALSE \in BOOLEAN
    BY DEF Steps, CreateSteps, Ops
  <2>3. ReqOK' /\ Others(r) /\ req'[r].key = k /\ req'[r].dead = FALSE
    BY <2>1, <2>2, BeginEffect DEF KeyInv
  <2> QED BY <1>1, <2>1, <2>3, ReadKeeps DEF ArriveCreate, Unused
<1>2. CASE ArriveRevoke(r)
  <2>1. PICK k \in Keys : ~Unused(k) /\ Begin(r, "revokeKey", "revoke", key[k].device, k, FALSE)
    BY <1>2 DEF ArriveRevoke
  <2>2. "revokeKey" \in Steps /\ "revoke" \in Ops /\ FALSE \in BOOLEAN
    BY DEF Steps, CreateSteps, Ops
  <2>3. key[k].device \in Devices
    BY <2>1 DEF KeyInv, TablesOK
  <2>4. ReqOK' /\ Others(r) /\ req'[r].pc = "revokeKey" /\ req'[r].dead = FALSE
    BY <2>1, <2>2, <2>3, BeginEffect DEF KeyInv
  <2> QED BY <1>2, <2>4, ReadKeeps DEF ArriveRevoke, CreateSteps
<1>3. CASE ArriveIngest(r)
  <2>1. PICK d \in Devices, k \in Keys :
            ~Unused(k) /\ Begin(r, "resolveDevice", "ingest", d, k, ~Usable(d, k))
    BY <1>3 DEF ArriveIngest
  <2>2. "resolveDevice" \in Steps /\ "ingest" \in Ops
    BY DEF Steps, CreateSteps, Ops
  <2>0. (~Usable(d, k)) \in BOOLEAN
    BY DEF Usable
  <2>3. /\ ReqOK' /\ Others(r) /\ req'[r].pc = "resolveDevice"
        /\ req'[r].device = d /\ req'[r].key = k /\ req'[r].dead = ~Usable(d, k)
    BY <2>0, <2>1, <2>2, BeginEffect DEF KeyInv
  <2>4. key' = key /\ deleted' = deleted
    BY <1>3 DEF ArriveIngest, tables
  <2>5. req'[r].dead => StaysDead(r)'
    BY <2>1, <2>3, <2>4 DEF StaysDead, At, Usable, Active, Unused
  <2> QED BY <1>3, <2>3, <2>5, ReadKeeps DEF ArriveIngest, CreateSteps
<1> QED BY <1>1, <1>2, <1>3

LEMMA InsertKeyKeeps ==
    ASSUME KeyInv, NEW r \in Requests, InsertKey(r)
    PROVE  KeyInv' /\ KeysMove
<1> DEFINE d == req[r].device
           k == req[r].key
<1>0. "ok" \in Statuses /\ "conflict" \in Statuses
  BY DEF Statuses
<1>1. d \in Devices /\ k \in Keys /\ req[r].pc \in CreateSteps /\ deleted' = deleted
  BY DEF KeyInv, ReqOK, InsertKey, At, CreateSteps
<1>2. CASE InsertRefused(d)
  <2>1. Reply(r, "conflict") /\ UNCHANGED tables
    BY <1>2 DEF InsertKey, tables
  <2> QED BY <1>0, <2>1, AnswerReads, SameTables DEF KeyInv
<1>3. CASE ~InsertRefused(d)
  <2>1. key' = [key EXCEPT ![k] = [standing |-> "active", device |-> d]] /\ Reply(r, "ok")
    BY <1>3 DEF InsertKey
  <2>2. /\ key'[k].standing = "active" /\ key'[k].device = d
        /\ \A o \in Keys \ {k} : key'[o] = key[o]
    BY <1>1, <2>1 DEF KeyInv, TablesOK
  <2>3. TablesOK'
    BY <1>1, <2>1, <2>2 DEF KeyInv, TablesOK, Key, Unused
  <2>4. OneActiveKey'
    BY <1>1, <1>3, <2>2 DEF KeyInv, OneActiveKey, InsertRefused, Active
  <2>5. key[k].standing = "unused"
    BY <1>1 DEF KeyInv, Fresh, Unused
  <2>6. KeysMove
    BY <1>1, <2>2, <2>5 DEF KeysMove, Active, Unused
  <2>7. \A q \in Requests \ {r} :
           req[q].pc \in CreateSteps => key'[req[q].key].standing = "unused"
    <3> SUFFICES ASSUME NEW q \in Requests \ {r}, req[q].pc \in CreateSteps
                 PROVE  key'[req[q].key].standing = "unused"
      OBVIOUS
    <3>1. req[q].key \in Keys \ {k} /\ key[req[q].key].standing = "unused"
      BY <1>1 DEF KeyInv, ReqOK, At, CreateSteps, Fresh, Unused
    <3> QED BY <2>2, <3>1
  <2> QED BY <1>0, <2>1, <2>3, <2>4, <2>6, <2>7, ReplyKeeps
<1> QED BY <1>2, <1>3

LEMMA RevokeKeyKeeps ==
    ASSUME KeyInv, NEW r \in Requests, RevokeKey(r)
    PROVE  KeyInv' /\ KeysMove
<1> DEFINE k == req[r].key
<1>0. "ok" \in Statuses /\ Reply(r, "ok") /\ deleted' = deleted
  BY DEF Statuses, RevokeKey
<1>1. k \in Keys
  BY DEF KeyInv, ReqOK, RevokeKey, At
<1>2. CASE ~Active(k)
  BY <1>0, <1>2, AnswerReads, SameTables DEF RevokeKey, tables, KeyInv
<1>3. CASE Active(k)
  <2>1. key' = [key EXCEPT ![k].standing = "revoked"]
    BY <1>3 DEF RevokeKey
  <2>2. /\ key'[k].standing = "revoked" /\ key'[k].device = key[k].device
        /\ \A o \in Keys \ {k} : key'[o] = key[o]
    BY <1>1, <2>1 DEF KeyInv, TablesOK, Key
  <2>3. TablesOK'
    BY <1>0, <1>1, <1>3, <2>1, <2>2 DEF KeyInv, TablesOK, Key, Unused, Active
  <2>4. OneActiveKey' /\ KeysMove
    BY <1>0, <1>1, <1>3, <2>2 DEF KeyInv, OneActiveKey, KeysMove, Active, Unused
  <2>5. \A q \in Requests : req[q].pc \in CreateSteps => key'[req[q].key].standing = "unused"
    <3> SUFFICES ASSUME NEW q \in Requests, req[q].pc \in CreateSteps
                 PROVE  key'[req[q].key].standing = "unused"
      OBVIOUS
    <3>1. req[q].key \in Keys /\ key[req[q].key].standing = "unused"
      BY DEF KeyInv, ReqOK, At, CreateSteps, Fresh, Unused
    <3> QED BY <1>3, <2>2, <3>1 DEF Active
  <2> QED BY <1>0, <2>3, <2>4, <2>5, ReplyKeeps
<1> QED BY <1>2, <1>3

LEMMA DeletionKeeps ==
    ASSUME KeyInv, NEW d \in Devices, DeleteDevice(d)
    PROVE  KeyInv' /\ KeysMove
<1>1. key' = key /\ req' = req /\ deleted' = deleted \cup {d}
  BY DEF DeleteDevice
<1>2. KeysMove /\ TablesOK' /\ ReqOK' /\ OneActiveKey' /\ Fresh'
  BY <1>1 DEF KeyInv, KeysMove, TablesOK, ReqOK, OneActiveKey, Fresh, Active, Unused, At
<1>3. Dead'
  BY <1>1 DEF KeyInv, Dead, StaysDead, Usable, Active, Unused, At
<1> QED BY <1>2, <1>3 DEF KeyInv

-----------------------------------------------------------------------------
(* Every step.                                                             *)

LEMMA KeyStep == KeyInv /\ [Next]_vars => KeyInv' /\ KeysMove
<1> SUFFICES ASSUME KeyInv, [Next]_vars PROVE KeyInv' /\ KeysMove
  OBVIOUS
<1> USE DEF Statuses, Steps, CreateSteps
<1>1. ASSUME UNCHANGED tables, KeyInv' PROVE KeyInv' /\ KeysMove
  BY <1>1, SameTables DEF KeyInv
<1>2. ASSUME NEW r \in Requests, ArriveCreate(r) \/ ArriveRevoke(r) \/ ArriveIngest(r)
      PROVE  KeyInv' /\ KeysMove
  <2>1. At(r, "idle") /\ UNCHANGED tables
    BY <1>2 DEF ArriveCreate, ArriveRevoke, ArriveIngest
  <2> QED BY <1>1, <1>2, <2>1, ArrivalKeeps
<1>3. ASSUME NEW r \in Requests, PreCheck(r) PROVE KeyInv' /\ KeysMove
  <2>1. UNCHANGED tables /\ req[r].pc = "preCheck" /\ (Reply(r, "conflict") \/ Goto(r, "insertKey"))
    BY <1>3 DEF PreCheck, At
  <2>2. ~req[r].dead
    BY <2>1 DEF KeyInv, Dead, StaysDead, At
  <2>3. KeyInv'
    BY <2>1, <2>2, AnswerReads, GoOn DEF At
  <2> QED BY <1>1, <2>1, <2>3
<1>4. ASSUME NEW r \in Requests, ResolveDevice(r) PROVE KeyInv' /\ KeysMove
  <2>1. /\ UNCHANGED tables /\ req[r].pc = "resolveDevice"
        /\ Reply(r, "refused") \/ (req[r].device \notin deleted /\ Goto(r, "lookUpKey"))
    BY <1>4 DEF ResolveDevice, At
  <2>2. KeyInv'
    BY <2>1, AnswerReads, GoOn DEF At
  <2> QED BY <1>1, <2>1, <2>2
<1>5. ASSUME NEW r \in Requests, LookUpKey(r) PROVE KeyInv' /\ KeysMove
  <2>1. /\ UNCHANGED tables /\ req[r].pc = "lookUpKey"
        /\ \/ Reply(r, "refused")
           \/ /\ Active(req[r].key) /\ key[req[r].key].device = req[r].device
              /\ Goto(r, "admitted")
    BY <1>5 DEF LookUpKey, At
  <2>2. CASE Reply(r, "refused")
    BY <1>1, <2>1, <2>2, AnswerReads
  <2>3. CASE Goto(r, "admitted") /\ Active(req[r].key) /\ key[req[r].key].device = req[r].device
    <3>1. ~req[r].dead
      BY <2>1, <2>3 DEF KeyInv, Dead, StaysDead, At
    <3>2. KeyInv'
      BY <2>1, <2>3, <3>1, GoOn DEF At
    <3> QED BY <1>1, <2>1, <3>2
  <2> QED BY <2>1, <2>2, <2>3
<1>6. ASSUME NEW r \in Requests, HandOver(r) \/ Fail(r) PROVE KeyInv' /\ KeysMove
  <2>1. UNCHANGED tables /\ (Reply(r, "ok") \/ Reply(r, "error"))
    BY <1>6 DEF HandOver, Fail
  <2> QED BY <1>1, <2>1, AnswerReads
<1>7. ASSUME NEW r \in Requests, InsertKey(r) \/ RevokeKey(r) PROVE KeyInv' /\ KeysMove
  BY <1>7, InsertKeyKeeps, RevokeKeyKeeps
<1>8. ASSUME NEW d \in Devices, DeleteDevice(d) PROVE KeyInv' /\ KeysMove
  BY <1>8, DeletionKeeps
<1>9. CASE UNCHANGED vars
  <2>1. key' = key /\ req' = req /\ deleted' = deleted
    BY <1>9 DEF vars
  <2>2. KeyInv'
    BY <2>1 DEF KeyInv, TablesOK, ReqOK, OneActiveKey, Fresh, Dead, StaysDead, Usable,
                Active, Unused, At
  <2> QED BY <1>1, <2>1, <2>2 DEF tables
<1> QED BY <1>2, <1>3, <1>4, <1>5, <1>6, <1>7, <1>8, <1>9 DEF Next, RequestStep

LEMMA KeyAlways == Spec => []KeyInv
<1>1. Init => KeyInv
  BY KeyInit
<1>2. KeyInv /\ [Next]_vars => KeyInv'
  BY KeyStep
<1> QED BY <1>1, <1>2, PTL DEF Spec

-----------------------------------------------------------------------------
(* The theorems.                                                           *)

\* Every request in flight that reached a statement carries a device and a token, and rows
\* stay well-formed.
THEOREM ApiKeysTypeOK == Spec => []TypeOK
<1>1. KeyInv => TypeOK
  BY DEF KeyInv, TablesOK, ReqOK, TypeOK
<1> QED BY <1>1, KeyAlways, PTL

\* However Creates race between their check and their insert, a device never has two
\* active keys (Adapter.Create and migration 000017).
THEOREM ApiKeysOneActiveKey == Spec => []OneActiveKey
<1>1. KeyInv => OneActiveKey
  BY DEF KeyInv
<1> QED BY <1>1, KeyAlways, PTL

\* RequireDeviceAPIKey never lets in a board whose key or device was dead when its request
\* arrived, whatever is issued and deleted between its two lookups.
THEOREM ApiKeysDeadKeysRefused == Spec => []DeadKeysRefused
<1>1. KeyInv => DeadKeysRefused
  BY DEF KeyInv, Dead, StaysDead, At, DeadKeysRefused
<1> QED BY <1>1, KeyAlways, PTL

\* No statement of a late request revives a revoked key or moves an issued one.
THEOREM ApiKeysIssuedKeysFrozen == Spec => IssuedKeysFrozen
<1> DEFINE Frozen == \A k \in Keys : /\ key[k].standing = "revoked" => key'[k] = key[k]
                                     /\ Active(k) => key'[k].device = key[k].device
<1>1. KeyInv /\ KeyInv' /\ KeysMove => Frozen
  <2> SUFFICES ASSUME KeyInv, KeyInv', KeysMove, NEW k \in Keys
               PROVE  /\ key[k].standing = "revoked" => key'[k] = key[k]
                      /\ Active(k) => key'[k].device = key[k].device
    OBVIOUS
  <2>1. key[k] \in Key /\ key'[k] \in Key
    BY DEF KeyInv, TablesOK
  <2>2. Active(k) => key'[k].device = key[k].device
    BY DEF KeysMove, Active, Unused
  <2>3. key[k].standing = "revoked" => key'[k].standing = "revoked" /\ key'[k].device = key[k].device
    BY <2>1 DEF KeysMove, Key, Active, Unused
  <2> QED BY <2>1, <2>2, <2>3 DEF Key
<1>2. KeyInv /\ [Next]_vars => [Frozen]_vars
  BY <1>1, KeyStep
<1> QED BY <1>2, KeyAlways, PTL DEF Spec, IssuedKeysFrozen

-----------------------------------------------------------------------------
(* What a Create can come to.  With the weak fairness of a request's steps *)
(* this is why CreateMeetsAKey holds.                                      *)

ActiveIn(t, d) == \E k \in Keys : t[k].standing = "active" /\ t[k].device = d

\* It waits, goes on to its insert, or ends.
CreateMoves(r) ==
    \/ req'[r] = req[r]
    \/ At(r, "preCheck") /\ req'[r] = [req[r] EXCEPT !.pc = "insertKey"]
    \/ ActiveIn(key', req[r].device) /\ req'[r].pc = "idle"
    \/ req'[r] = Done("error")

LEMMA CreatesMove ==
    ASSUME KeyInv, [Next]_vars, NEW r \in Requests, req[r].pc \in CreateSteps
    PROVE  CreateMoves(r)
<1>1. req \in [Requests -> Request] /\ req[r].device \in Devices /\ req[r].key \in Keys
  BY DEF KeyInv, ReqOK, At, CreateSteps
<1>2. CASE PreCheck(r)
  <2>1. CASE HasActiveKey(req[r].device)
    BY <1>1, <1>2, <2>1
    DEF PreCheck, Reply, Done, tables, HasActiveKey, Active, ActiveIn, CreateMoves
  <2>2. CASE ~HasActiveKey(req[r].device)
    BY <1>1, <1>2, <2>2 DEF PreCheck, Goto, At, CreateMoves
  <2> QED BY <2>1, <2>2
<1>3. CASE InsertKey(r)
  <2>1. req'[r].pc = "idle"
    BY <1>1, <1>3 DEF InsertKey, Reply, Done
  <2>2. CASE InsertRefused(req[r].device)
    <3>1. key' = key
      BY <1>3, <2>2 DEF InsertKey
    <3>2. ActiveIn(key', req[r].device)
      BY <2>2, <3>1 DEF InsertRefused, Active, ActiveIn
    <3> QED BY <2>1, <3>2 DEF CreateMoves
  <2>3. CASE ~InsertRefused(req[r].device)
    <3>1. key' = [key EXCEPT ![req[r].key] = [standing |-> "active", device |-> req[r].device]]
      BY <1>3, <2>3 DEF InsertKey
    <3>2. ActiveIn(key', req[r].device)
      BY <1>1, <3>1 DEF KeyInv, TablesOK, ActiveIn
    <3> QED BY <2>1, <3>2 DEF CreateMoves
  <2> QED BY <2>2, <2>3
<1>4. CASE Fail(r)
  BY <1>1, <1>4 DEF Fail, Reply, CreateMoves
<1>5. CASE \/ ArriveCreate(r) \/ ArriveRevoke(r) \/ ArriveIngest(r)
           \/ RevokeKey(r) \/ ResolveDevice(r) \/ LookUpKey(r) \/ HandOver(r)
  BY <1>5 DEF ArriveCreate, ArriveRevoke, ArriveIngest, RevokeKey, ResolveDevice, LookUpKey,
              HandOver, At, CreateSteps
<1>6. ASSUME NEW q \in Requests, q # r,
             \/ ArriveCreate(q) \/ ArriveRevoke(q) \/ ArriveIngest(q)
             \/ RequestStep(q) \/ Fail(q)
      PROVE  CreateMoves(r)
  <2>1. req'[r] = req[r]
    BY <1>1, <1>6 DEF ArriveCreate, ArriveRevoke, ArriveIngest, RequestStep, PreCheck, InsertKey,
                      RevokeKey, ResolveDevice, LookUpKey, HandOver, Fail, Begin, Goto, Reply
  <2> QED BY <2>1 DEF CreateMoves
<1>7. CASE (\E d \in Devices : DeleteDevice(d)) \/ UNCHANGED vars
  BY <1>7 DEF DeleteDevice, vars, CreateMoves
<1> QED BY <1>2, <1>3, <1>4, <1>5, <1>6, <1>7 DEF Next, RequestStep

\* A Create waits, goes on from its check to its insert, or ends: by a statement that
\* failed, or at a moment when its device has an active key, whoever issued that one.
THEOREM ApiKeysCreatesMeetAKey ==
    Spec => [][\A r \in Requests : req[r].pc \in CreateSteps => CreateMoves(r)]_vars
<1> DEFINE Moves == \A r \in Requests : req[r].pc \in CreateSteps => CreateMoves(r)
<1>1. KeyInv /\ [Next]_vars => [Moves]_vars
  BY CreatesMove
<1> QED BY <1>1, KeyAlways, PTL DEF Spec

-----------------------------------------------------------------------------
(* The table as slots.                                                     *)

\* SlotOf, of any table.
SlotIn(t) == [d \in Devices |->
    IF \E k \in Keys : t[k].standing = "active" /\ t[k].device = d
    THEN CHOOSE k \in Keys : t[k].standing = "active" /\ t[k].device = d
    ELSE NoKey]
SoleKeys(t) == \A k, o \in Keys :
    t[k].standing = "active" /\ t[o].standing = "active" /\ t[k].device = t[o].device => k = o

LEMMA SlotInValue ==
    ASSUME NEW t, SoleKeys(t), NEW d \in Devices
    PROVE  /\ \A k \in Keys : t[k].standing = "active" /\ t[k].device = d => SlotIn(t)[d] = k
           /\ (\A k \in Keys : ~(t[k].standing = "active" /\ t[k].device = d))
                => SlotIn(t)[d] = NoKey
<1>1. ASSUME NEW k \in Keys, t[k].standing = "active", t[k].device = d
      PROVE  SlotIn(t)[d] = k
  <2> DEFINE c == CHOOSE o \in Keys : t[o].standing = "active" /\ t[o].device = d
  <2>1. c \in Keys /\ t[c].standing = "active" /\ t[c].device = d
    BY <1>1
  <2>2. c = k
    BY <1>1, <2>1 DEF SoleKeys
  <2> QED BY <1>1, <2>2 DEF SlotIn
<1>2. (\A k \in Keys : ~(t[k].standing = "active" /\ t[k].device = d)) => SlotIn(t)[d] = NoKey
  BY DEF SlotIn
<1> QED BY <1>1, <1>2

LEMMA SlotsAre == /\ SlotOf = SlotIn(key) /\ SlotOf' = SlotIn(key')
                  /\ OneActiveKey = SoleKeys(key) /\ OneActiveKey' = SoleKeys(key')
<1>1. SlotOf = SlotIn(key) /\ SlotOf' = SlotIn(key')
  BY DEF SlotOf, SlotIn, HasActiveKey, Active
<1>2. OneActiveKey = SoleKeys(key) /\ OneActiveKey' = SoleKeys(key')
  BY DEF OneActiveKey, SoleKeys, Active
<1> QED BY <1>1, <1>2

\* Two slot maps that agree on one device's change.
LEMMA SlotsDiffer ==
    ASSUME NEW t, NEW u, NEW d \in Devices, NEW x,
           SlotIn(u)[d] = x, \A e \in Devices \ {d} : SlotIn(u)[e] = SlotIn(t)[e]
    PROVE  SlotIn(u) = [SlotIn(t) EXCEPT ![d] = x]
<1>1. SlotIn(t) = [e \in Devices |-> SlotIn(t)[e]] /\ SlotIn(u) = [e \in Devices |-> SlotIn(u)[e]]
  BY DEF SlotIn
<1> QED BY <1>1

\* Issuing fills an empty slot with a token that was never spent.
LEMMA InsertIssues ==
    ASSUME KeyInv, KeyInv', NEW r \in Requests, InsertKey(r), key' # key
    PROVE  \E d \in Devices, k \in Keys : Slots!Issue(d, k)
<1> DEFINE d == req[r].device
           k == req[r].key
<1>1. d \in Devices /\ k \in Keys /\ key[k].standing = "unused"
  BY DEF KeyInv, ReqOK, InsertKey, At, Fresh, Unused, CreateSteps
<1>2. ~InsertRefused(d) /\ key' = [key EXCEPT ![k] = [standing |-> "active", device |-> d]]
  BY DEF InsertKey
<1>3. /\ key'[k].standing = "active" /\ key'[k].device = d
      /\ \A o \in Keys \ {k} : key'[o] = key[o]
  BY <1>1, <1>2 DEF KeyInv, TablesOK
<1>4. SoleKeys(key) /\ SoleKeys(key')
  BY SlotsAre DEF KeyInv
<1>5. SlotIn(key)[d] = NoKey
  BY <1>1, <1>2, <1>4, SlotInValue DEF InsertRefused, Active
<1>6. SlotIn(key')[d] = k
  BY <1>1, <1>3, <1>4, SlotInValue
<1>7. ASSUME NEW e \in Devices \ {d} PROVE SlotIn(key')[e] = SlotIn(key)[e]
  <2>1. \A o \in Keys : (key'[o].standing = "active" /\ key'[o].device = e)
                          <=> (key[o].standing = "active" /\ key[o].device = e)
    BY <1>1, <1>3
  <2> QED BY <1>4, <2>1, SlotInValue
<1>8. SlotOf' = [SlotOf EXCEPT ![d] = k]
  <2> HIDE DEF d, k
  <2>1. SlotIn(key') = [SlotIn(key) EXCEPT ![d] = k]
    BY <1>1, <1>6, <1>7, SlotsDiffer
  <2> QED BY <2>1, SlotsAre
<1>9. {o \in Keys : ~Unused(o)}' = {o \in Keys : ~Unused(o)} \cup {k}
  BY <1>1, <1>3 DEF Unused
<1> QED BY <1>1, <1>5, <1>8, <1>9, SlotsAre DEF Slots!Issue, Unused

\* Revoking an active key empties the slot that held it.
LEMMA RevokeGivesUp ==
    ASSUME KeyInv, KeyInv', NEW r \in Requests, RevokeKey(r), key' # key
    PROVE  \E d \in Devices : Slots!GiveUp(d)
<1> DEFINE k == req[r].key
           d == key[k].device
<1>1. k \in Keys /\ key[k].standing = "active"
  BY DEF KeyInv, ReqOK, RevokeKey, At, Active
<1>0. d \in Devices
  BY <1>1 DEF KeyInv, TablesOK, Unused
<1>2. key' = [key EXCEPT ![k].standing = "revoked"]
  BY <1>1 DEF RevokeKey, Active
<1>3. /\ key'[k].standing = "revoked" /\ key'[k].device = d
      /\ \A o \in Keys \ {k} : key'[o] = key[o]
  BY <1>1, <1>2 DEF KeyInv, TablesOK, Key
<1>4. SoleKeys(key) /\ SoleKeys(key')
  BY SlotsAre DEF KeyInv
<1>5. SlotIn(key')[d] = NoKey
  <2>1. \A o \in Keys : ~(key'[o].standing = "active" /\ key'[o].device = d)
    BY <1>1, <1>3, <1>4 DEF SoleKeys
  <2> QED BY <1>0, <1>4, <2>1, SlotInValue
<1>6. ASSUME NEW e \in Devices \ {d} PROVE SlotIn(key')[e] = SlotIn(key)[e]
  <2>1. \A o \in Keys : (key'[o].standing = "active" /\ key'[o].device = e)
                          <=> (key[o].standing = "active" /\ key[o].device = e)
    BY <1>1, <1>3
  <2> QED BY <1>4, <2>1, SlotInValue
<1>7. SlotOf' = [SlotOf EXCEPT ![d] = NoKey]
  <2> HIDE DEF d, k
  <2>1. SlotIn(key') = [SlotIn(key) EXCEPT ![d] = NoKey]
    BY <1>0, <1>5, <1>6, SlotsDiffer
  <2> QED BY <2>1, SlotsAre
<1>8. {o \in Keys : ~Unused(o)}' = {o \in Keys : ~Unused(o)}
  BY <1>1, <1>3 DEF Unused
<1> QED BY <1>0, <1>7, <1>8 DEF Slots!GiveUp

LEMMA OtherStepsKeepKeys ==
    ASSUME [Next]_vars, key' # key
    PROVE  \E r \in Requests : InsertKey(r) \/ RevokeKey(r)
  BY DEF Next, RequestStep, vars, tables, ArriveCreate, ArriveRevoke, ArriveIngest, PreCheck,
         ResolveDevice, LookUpKey, HandOver, DeleteDevice, Fail

\* The table of keys, with the requests racing on it, implements one slot per device: a
\* slot is filled only when empty, and a token that was given up never comes back.
THEOREM ApiKeysImplementKeySlot == Spec => ImplementsKeySlot
<1>1. Init => Slots!SlotInit
  <2> SUFFICES ASSUME Init PROVE Slots!SlotInit
    OBVIOUS
  <2>1. \A k \in Keys : key[k].standing = "unused"
    BY DEF Init
  <2>2. SlotOf = [d \in Devices |-> NoKey]
    BY <2>1 DEF SlotOf, HasActiveKey, Active
  <2> QED BY <2>1, <2>2 DEF Slots!SlotInit, Unused
<1>2. KeyInv /\ KeyInv' /\ [Next]_vars => [Slots!SlotNext]_(Slots!slotVars)
  <2> SUFFICES ASSUME KeyInv, KeyInv', [Next]_vars
               PROVE  [Slots!SlotNext]_(Slots!slotVars)
    OBVIOUS
  <2>1. CASE key' = key
    <3>1. SlotOf' = SlotOf /\ {k \in Keys : ~Unused(k)}' = {k \in Keys : ~Unused(k)}
      BY <2>1 DEF SlotOf, HasActiveKey, Active, Unused
    <3> QED BY <3>1 DEF Slots!slotVars
  <2>2. CASE key' # key
    <3>1. PICK r \in Requests : InsertKey(r) \/ RevokeKey(r)
      BY <2>2, OtherStepsKeepKeys
    <3>2. Slots!SlotNext
      BY <2>2, <3>1, InsertIssues, RevokeGivesUp DEF Slots!SlotNext
    <3> QED BY <3>2
  <2> QED BY <2>1, <2>2
<1> QED BY <1>1, <1>2, KeyAlways, PTL DEF Spec, ImplementsKeySlot, Slots!SlotSpec
=============================================================================
