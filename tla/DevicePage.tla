----------------------------- MODULE DevicePage ------------------------------
(***************************************************************************)
(* The page of one device: DeviceDetail, which loads the device and its    *)
(* latest location, and AdminDeviceDetail, which grants and revokes other  *)
(* users' access and reloads the device after each.  The requests carry    *)
(* the one id of the page's address.  The device's fields and the map's    *)
(* drawing are left out.                                                   *)
(***************************************************************************)
EXTENDS Browser

\* The server: the visitor's role, the viewers, whether a fix is stored.
Roles == {"owner", "viewer", "none"}
DeviceServer == [role : Roles, viewers : SUBSET Ids, located : BOOLEAN]

Device == [owner : BOOLEAN, users : SUBSET Ids]

DevicePageView ==
    [loading : BOOLEAN,                     \* isLoading of useDeviceService
     device : Device \cup {None},
     latest : BOOLEAN,                      \* useLocationService's latest # null
     grantOpen : BOOLEAN,
     target : Ids \cup {None},              \* revokeTarget
     typed : BOOLEAN,                       \* the confirmation phrase stands in the input
     vetted : BOOLEAN,   \* history: it was typed into this dialog
     said : {"none", "failed", "granted", "revoked"}]        \* last toast

(***************************************************************************)
(* What is rendered                                                        *)
(***************************************************************************)
\* While the hook loads, a loading text replaces everything; without a
\* device there is only the not-found page.
AdminSectionShown(v) == ~v.loading /\ v.device # None /\ v.device.owner

AdminShown == page = "device" /\ AdminSectionShown(view)

GrantAccessForm(saving) == Button("submit", saving) \cup Button("cancel", saving)

GrantModal ==
    IF AdminShown /\ view.grantOpen THEN Modal(TRUE) \cup GrantAccessForm(view.loading) ELSE {}

RevokeModal ==
    IF AdminShown /\ view.target # None
    THEN Modal(TRUE) \cup Input(view.loading) \cup Button("cancel", view.loading)
         \cup Button("confirm", ~view.typed \/ view.loading)
    ELSE {}

AdminClickable == AdminShown /\ ~view.grantOpen /\ view.target = None

DeviceUserAccessTable == Button("remove", view.loading)
AccessMobileCard == Button("remove", view.loading)

AccessRow(u) ==
    IF AdminClickable /\ u \in view.device.users
    THEN DeviceUserAccessTable \cup AccessMobileCard ELSE {}

NoRevocation(v) == [v EXCEPT !.target = None, !.typed = FALSE, !.vetted = FALSE]

\* AdminDeviceDetail's state goes when it is no longer rendered.
DeviceRender(v) ==
    IF AdminSectionShown(v) THEN v ELSE NoRevocation([v EXCEPT !.grantOpen = FALSE])

(***************************************************************************)
(* Handlers up to their first await                                        *)
(***************************************************************************)
\* The mount effect: the device and its latest location.
LoadDevice == Message("get", None, None, 1)
LoadLatest == Message("latest", None, None, 1)

OpenGrant ==
    /\ AdminClickable
    /\ Touch([view EXCEPT !.grantOpen = TRUE])

CloseGrant ==
    /\ GrantModal \cap {"close", "cancel"} # {}
    /\ Touch([view EXCEPT !.grantOpen = FALSE])

SubmitGrant(u) ==
    /\ "submit" \in GrantModal
    /\ Send(Request("grant", u, None), DeviceRender([view EXCEPT !.loading = TRUE]))

AskRevoke(u) ==
    /\ "remove" \in AccessRow(u)
    /\ Touch([NoRevocation(view) EXCEPT !.target = u])

\* The cross, the button, or Escape.
CancelRevoke ==
    /\ RevokeModal \cap {"close", "cancel"} # {}
    /\ Touch(NoRevocation(view))

TypePhrase(right) ==
    /\ "type" \in RevokeModal
    /\ Touch([view EXCEPT !.typed = right, !.vetted = right])

ConfirmRevoke ==
    /\ "confirm" \in RevokeModal
    /\ Send([Request("revoke", view.target, None) EXCEPT !.vetted = view.vetted],
            DeviceRender([view EXCEPT !.loading = TRUE]))

(***************************************************************************)
(* Their continuations                                                     *)
(***************************************************************************)
DeviceAnswer(c, v, D) == Finish(c, DeviceRender(v), D)

DeviceFailed(c, D) ==
    DeviceAnswer(c, [view EXCEPT !.loading = FALSE, !.said = "failed"], D)

DeviceLoaded(c, toast) ==
    \/ /\ c.reply = "ok"
       /\ DeviceAnswer(c, [view EXCEPT !.loading = FALSE, !.device = c.data, !.said = toast], {})
    \/ c.reply # "ok" /\ DeviceFailed(c, {})

\* grantAccess, revokeAccess: unless the answer was lost, whatever it said,
\* getDeviceById drops the device and asks for it again.
Reload(c, op) ==
    \/ /\ c.reply # "lost"
       /\ calls' = (calls \ {c}) \cup {Request(op, None, None)}
       /\ view' = DeviceRender([view EXCEPT !.loading = TRUE, !.device = None])
       /\ UNCHANGED <<page, table, doubt, faults>>
    \/ c.reply = "lost" /\ DeviceFailed(c, {c.id})

AccessGranted(c) == Reload(c, "getGranted")
AccessRevoked(c) == Reload(c, "getRevoked")

\* A refusal, the 404 of a device that never reported included, has no data:
\* it sets an error no component shows.
LatestLoaded(c) ==
    \/ c.reply = "ok" /\ DeviceAnswer(c, [view EXCEPT !.latest = TRUE], {})
    \/ c.reply = "refused" /\ DeviceAnswer(c, view, {})
    \/ c.reply = "lost" /\ DeviceAnswer(c, [view EXCEPT !.said = "failed"], {})

(***************************************************************************)
(* The server's side                                                       *)
(***************************************************************************)
ServeDevice(c) ==
    /\ table.role # "none"
    /\ Respond(c, "ok", [owner |-> table.role = "owner", users |-> table.viewers], table)
    /\ doubt' = {}

ServeLatest(c) == table.located /\ Respond(c, "ok", None, table) /\ UNCHANGED doubt

ServeGrant(c) ==
    /\ table.role = "owner" /\ c.id \notin table.viewers
    /\ Respond(c, "ok", None, [table EXCEPT !.viewers = @ \cup {c.id}])
    /\ UNCHANGED doubt

ServeRevokeAccess(c) ==
    /\ table.role = "owner"
    /\ Respond(c, "ok", None, [table EXCEPT !.viewers = @ \ {c.id}])
    /\ UNCHANGED doubt

\* Another session grants or revokes access; the board stores its first fix.
ElsewhereOnDevice ==
    /\ faults < MaxFaults
    /\ faults' = faults + 1
    /\ \/ \E u \in Ids :
            /\ table' = [table EXCEPT !.viewers = IF u \in @ THEN @ \ {u} ELSE @ \cup {u}]
            /\ doubt' = doubt \cup {u}
       \/ table' = [table EXCEPT !.role = "none"] /\ UNCHANGED doubt
       \/ table' = [table EXCEPT !.located = TRUE] /\ UNCHANGED doubt
    /\ UNCHANGED <<page, view, calls>>

(***************************************************************************)
(* The screen                                                              *)
(***************************************************************************)
DevicePageInit ==
    /\ table \in DeviceServer
    /\ view = [loading |-> TRUE, device |-> None, latest |-> FALSE, grantOpen |-> FALSE,
               target |-> None, typed |-> FALSE, vetted |-> FALSE, said |-> "none"]
    /\ calls = {LoadDevice, LoadLatest}

DevicePageServer ==
    \E c \in calls : Unserved(c) /\
        \/ c.op \in {"get", "getGranted", "getRevoked"} /\ ServeDevice(c)
        \/ c.op = "latest" /\ ServeLatest(c)
        \/ c.op = "grant" /\ ServeGrant(c)
        \/ c.op = "revoke" /\ ServeRevokeAccess(c)
        \/ Refuse(c)

DevicePageAnswers ==
    \E c \in calls : Answered(c) /\
        \/ c.op = "get" /\ DeviceLoaded(c, view.said)
        \/ c.op = "getGranted" /\ DeviceLoaded(c, "granted")
        \/ c.op = "getRevoked" /\ DeviceLoaded(c, "revoked")
        \/ c.op = "latest" /\ LatestLoaded(c)
        \/ c.op = "grant" /\ AccessGranted(c)
        \/ c.op = "revoke" /\ AccessRevoked(c)

DevicePageVisitor ==
    \/ OpenGrant \/ CloseGrant \/ CancelRevoke \/ ConfirmRevoke
    \/ \E u \in Ids : SubmitGrant(u) \/ AskRevoke(u)
    \/ \E right \in BOOLEAN : TypePhrase(right)
=============================================================================
