------------------------------ MODULE ApiKeys ------------------------------
(***************************************************************************)
(* API keys of devices: the `device_api_keys` table, the owner's requests  *)
(* that issue and revoke keys, and the middleware that lets a board in by  *)
(* its key.  Each action is one database statement of one request.  The    *)
(* owner-only gate in front of the owner's routes is in DeviceAccess; what *)
(* follows RequireDeviceAPIKey is the ingest handler.                      *)
(***************************************************************************)
CONSTANTS
    Devices,    \* registered devices
    NoDevice,   \* placeholder in an idle request slot, and of an unissued key
    Keys,       \* tokens, each standing for the row that may come to hold it
    NoKey,      \* placeholder in an idle request slot
    Requests,   \* slots for requests in flight
    CanFail     \* TRUE: statements fail, clients leave, the process restarts

ASSUME ApiKeysAssumption ==
    /\ NoDevice \notin Devices
    /\ NoKey \notin Keys
    /\ CanFail \in BOOLEAN

VARIABLES
    deleted,    \* devices whose row is soft-deleted
    key,        \* the `device_api_keys` table
    req         \* the requests in flight

vars == <<deleted, key, req>>

-----------------------------------------------------------------------------
(* The table. *)

\* "unused": no row holds the token; "revoked": its row has deleted_at set.
Key == [standing : {"unused", "active", "revoked"}, device : Devices \cup {NoDevice}]

Active(k) == key[k].standing = "active"
Unused(k) == key[k].standing = "unused"

\* GetActiveKeyByDeviceID, the pre-check of Create.
HasActiveKey(d) == \E k \in Keys : Active(k) /\ key[k].device = d

\* Mutant: migration 000017 was never applied.
InsertRefused_Mutant(d) == FALSE
\* Mutant: the unique index counts revoked keys as well.
InsertRefused_Unfiltered(d) == \E k \in Keys : key[k].device = d
\* The partial unique index on device_id; a fresh token never meets the one on key_hash.
InsertRefused(d) == \E k \in Keys : Active(k) /\ key[k].device = d

-----------------------------------------------------------------------------
(* Requests. *)

Ops == {"create", "revoke", "ingest"}
CreateSteps == {"preCheck", "insertKey"}
Steps == {"idle", "revokeKey", "resolveDevice", "lookUpKey", "admitted"} \cup CreateSteps
Statuses == {"none", "ok", "conflict", "refused", "error"}

Request == [pc : Steps, op : Ops, device : Devices \cup {NoDevice}, key : Keys \cup {NoKey},
            status : Statuses,
            dead : BOOLEAN]        \* history: the key, or the device, was dead on arrival

Done(status) == [pc |-> "idle", op |-> "create", device |-> NoDevice, key |-> NoKey,
                 status |-> status, dead |-> FALSE]

At(r, pc) == req[r].pc = pc
Goto(r, pc) == req' = [req EXCEPT ![r].pc = pc]
\* Mutant: the slot is not released.
Reply_Mutant(r, status) == req' = [req EXCEPT ![r].device = NoDevice, ![r].status = status]
Reply(r, status) == req' = [req EXCEPT ![r] = Done(status)]
Begin(r, pc, op, d, k, dead) ==
    req' = [req EXCEPT ![r] = [pc |-> pc, op |-> op, device |-> d, key |-> k,
                               status |-> "none", dead |-> dead]]

Init ==
    /\ deleted = {}
    /\ key = [k \in Keys |-> [standing |-> "unused", device |-> NoDevice]]
    /\ req = [r \in Requests |-> Done("none")]

tables == <<deleted, key>>

-----------------------------------------------------------------------------
(* POST /devices/:id/api-keys.  The role gate passes the owner of a        *)
(* deleted device, too.                                                    *)

\* The token is generated first; no other row or request has it.
ArriveCreate(r) ==
    /\ At(r, "idle")
    /\ \E d \in Devices, k \in Keys :
        /\ Unused(k)
        /\ \A q \in Requests : req[q].key # k
        /\ Begin(r, "preCheck", "create", d, k, FALSE)
    /\ UNCHANGED tables

PreCheck(r) ==
    /\ At(r, "preCheck")
    /\ IF HasActiveKey(req[r].device) THEN Reply(r, "conflict") ELSE Goto(r, "insertKey")
    /\ UNCHANGED tables

\* Mutant: an upsert that revives the device's last key.
InsertKey_Mutant(r) ==
    LET d == req[r].device IN
    /\ At(r, "insertKey")
    /\ IF InsertRefused(d)
       THEN Reply(r, "conflict") /\ UNCHANGED key
       ELSE /\ \E k \in {req[r].key} \cup {o \in Keys : key[o].device = d} :
                 key' = [key EXCEPT ![k] = [standing |-> "active", device |-> d]]
            /\ Reply(r, "ok")
    /\ UNCHANGED deleted

InsertKey(r) ==
    LET d == req[r].device IN
    /\ At(r, "insertKey")
    /\ IF InsertRefused(d)
       THEN Reply(r, "conflict") /\ UNCHANGED key
       ELSE /\ key' = [key EXCEPT ![req[r].key] = [standing |-> "active", device |-> d]]
            /\ Reply(r, "ok")
    /\ UNCHANGED deleted

-----------------------------------------------------------------------------
(* DELETE /devices/:id/api-keys/:keyId: by the key's id alone, idempotent. *)

ArriveRevoke(r) ==
    /\ At(r, "idle")
    /\ \E k \in Keys : ~Unused(k) /\ Begin(r, "revokeKey", "revoke", key[k].device, k, FALSE)
    /\ UNCHANGED tables

RevokeKey(r) ==
    LET k == req[r].key IN
    /\ At(r, "revokeKey")
    /\ key' = IF Active(k) THEN [key EXCEPT ![k].standing = "revoked"] ELSE key
    /\ Reply(r, "ok")
    /\ UNCHANGED deleted

-----------------------------------------------------------------------------
(* RequireDeviceAPIKey: a board sends its firmware id and its key.         *)

Usable(d, k) == d \notin deleted /\ Active(k) /\ key[k].device = d

ArriveIngest(r) ==
    /\ At(r, "idle")
    /\ \E d \in Devices, k \in Keys :
        ~Unused(k) /\ Begin(r, "resolveDevice", "ingest", d, k, ~Usable(d, k))
    /\ UNCHANGED tables

\* GetDeviceIDByUuidFirmware sees devices that are not deleted.
ResolveDevice(r) ==
    /\ At(r, "resolveDevice")
    /\ IF req[r].device \in deleted THEN Reply(r, "refused") ELSE Goto(r, "lookUpKey")
    /\ UNCHANGED tables

\* Mutant: deleted_at IS NULL forgotten.
LookUpKey_Mutant(r) ==
    /\ At(r, "lookUpKey")
    /\ IF key[req[r].key].device = req[r].device
       THEN Goto(r, "admitted")
       ELSE Reply(r, "refused")
    /\ UNCHANGED tables

\* GetActiveKeyByHash, and the comparison of the two device ids.
LookUpKey(r) ==
    LET k == req[r].key IN
    /\ At(r, "lookUpKey")
    /\ IF Active(k) /\ key[k].device = req[r].device
       THEN Goto(r, "admitted")
       ELSE Reply(r, "refused")
    /\ UNCHANGED tables

\* c.Next(): the ingest handler answers.
HandOver(r) ==
    /\ At(r, "admitted")
    /\ Reply(r, "ok")
    /\ UNCHANGED tables

-----------------------------------------------------------------------------
\* The owner soft-deletes a device; its keys stay as they are.
DeleteDevice(d) ==
    /\ d \notin deleted
    /\ deleted' = deleted \cup {d}
    /\ UNCHANGED <<key, req>>

\* A statement fails, the client goes away or the process restarts.
Fail(r) ==
    /\ CanFail
    /\ req[r].pc # "idle"
    /\ Reply(r, "error")
    /\ UNCHANGED tables

RequestStep(r) ==
    \/ PreCheck(r) \/ InsertKey(r) \/ RevokeKey(r)
    \/ ResolveDevice(r) \/ LookUpKey(r) \/ HandOver(r)

Next ==
    \/ \E r \in Requests : \/ ArriveCreate(r) \/ ArriveRevoke(r) \/ ArriveIngest(r)
                           \/ RequestStep(r) \/ Fail(r)
    \/ \E d \in Devices : DeleteDevice(d)

Spec == Init /\ [][Next]_vars

\* A goroutine that was started keeps running; clients are not fair.
FairSpec == Spec /\ \A r \in Requests : WF_vars(RequestStep(r))
-----------------------------------------------------------------------------
(* What the keys promise. *)

TypeOK ==
    /\ deleted \subseteq Devices
    /\ key \in [Keys -> Key]
    /\ req \in [Requests -> Request]
    /\ \A r \in Requests : ~At(r, "idle") => req[r].device \in Devices /\ req[r].key \in Keys

\* At most one active key per device, although every Create looks for one in a statement
\* of its own before it inserts.
OneActiveKey ==
    \A k, o \in Keys : Active(k) /\ Active(o) /\ key[k].device = key[o].device => k = o

\* A board whose key was revoked, belongs elsewhere or whose device was deleted before its
\* request arrived is never admitted, whatever is issued meanwhile.
DeadKeysRefused ==
    \A r \in Requests : req[r].dead => ~At(r, "admitted")

\* A revoked key stays revoked and an issued key stays with its device: no request that
\* read the table earlier brings one back.
IssuedKeysFrozen ==
    [][\A k \in Keys : /\ key[k].standing = "revoked" => key'[k] = key[k]
                       /\ Active(k) => key'[k].device = key[k].device]_vars

\* A Create never leaves its device without a key, unless one of its statements failed: it
\* issues one, or some other key was active when it was refused.
CreateMeetsAKey ==
    \A r \in Requests, d \in Devices :
        (req[r].pc \in CreateSteps /\ req[r].device = d)
            ~> (HasActiveKey(d) \/ req[r].status = "error")

\* The table implements the abstract slot of one key per device.
SlotOf == [d \in Devices |-> IF HasActiveKey(d)
                             THEN CHOOSE k \in Keys : Active(k) /\ key[k].device = d
                             ELSE NoKey]
Slots == INSTANCE KeySlot WITH slot <- SlotOf, spent <- {k \in Keys : ~Unused(k)}
ImplementsKeySlot == Slots!SlotSpec
=============================================================================
