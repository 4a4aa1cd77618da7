----------------------------- MODULE PagesProofs -----------------------------
(***************************************************************************)
(* Proofs about the screens of the app, for every set of devices, users,   *)
(* names and keys and every bound on faults.  The two list screens are in  *)
(* ScreensProofs and the API-keys page in KeyTableProofs; here are the     *)
(* device page, the profile page and the theorems.                         *)
(***************************************************************************)
EXTENDS KeyTableProofs

-----------------------------------------------------------------------------
(* The page of one device.                                                 *)

Gets == {"get", "getGranted", "getRevoked"}

DeviceCallOK(c) ==
    /\ IsMessage(c)
    /\ c.reply \in {"none", "ok", "refused", "lost"}
    /\ c.op \in Gets \cup {"grant", "revoke", "latest"}
    /\ c.op \in Gets => (c.reply = "ok" => c.data \in Device)
    /\ c.op \in {"grant", "revoke"} => c.id \in Ids
    /\ c.op = "revoke" => c.vetted

Agree(dev, viewers, sure) == \A u \in sure : u \in dev.users <=> u \in viewers

\* What stands between the device shown and the server's, while c is in flight.
Traced(c, dev, viewers, sure) ==
    /\ c.op \in Gets => dev = None /\ (c.reply = "ok" => Agree(c.data, viewers, sure))
    /\ c.op \in {"grant", "revoke"} /\ dev # None => Agree(dev, viewers, sure \ {c.id})

\* cs: the requests of useDeviceService, at most one.
HookOK(cs, dev, viewers, sure) ==
    /\ \A c, d \in cs : c = d
    /\ \A c \in cs : Traced(c, dev, viewers, sure)
    /\ cs = {} /\ dev # None => Agree(dev, viewers, sure)

DeviceScreenInv ==
    /\ view \in DevicePageView /\ table \in DeviceServer /\ doubt \subseteq Ids
    /\ \A c \in calls : DeviceCallOK(c)
    /\ HookOK(HookCalls, view.device, table.viewers, Ids \ doubt)
    /\ view.loading <=> HookCalls # {}
    /\ view.typed => view.vetted

LEMMA DeviceScreenInit ==
    ASSUME DevicePageInit, doubt = {}
    PROVE  DeviceScreenInv
<1>1. /\ view \in DevicePageView /\ view.loading = TRUE /\ view.device = None
      /\ view.typed = FALSE /\ table \in DeviceServer
  BY DEF DevicePageInit, DevicePageView
<1>2. /\ IsMessage(LoadDevice) /\ LoadDevice.op = "get" /\ LoadDevice.reply = "none"
      /\ IsMessage(LoadLatest) /\ LoadLatest.op = "latest" /\ LoadLatest.reply = "none"
      /\ calls = {LoadDevice, LoadLatest}
  BY DEF DevicePageInit, LoadDevice, LoadLatest, Message, IsMessage
<1>3. \A c \in calls : DeviceCallOK(c)
  BY <1>2 DEF DeviceCallOK, Gets
<1>4. HookCalls = {LoadDevice}
  BY <1>2 DEF HookCalls
<1>5. HookOK(HookCalls, view.device, table.viewers, Ids \ doubt)
  BY <1>1, <1>2, <1>4 DEF HookOK, Traced, Gets
<1> QED BY <1>1, <1>3, <1>4, <1>5 DEF DeviceScreenInv

\* Server and network: the view stays, the call c becomes d.
LEMMA DeviceNoted ==
    ASSUME DeviceScreenInv, NEW c \in calls, NEW d, DeviceCallOK(d), d.op = c.op,
           calls' = (calls \ {c}) \cup {d}, view' = view, table' \in DeviceServer,
           doubt' \subseteq Ids,
           c.op = "latest" => table'.viewers = table.viewers /\ doubt' = doubt,
           c.op # "latest" => Traced(d, view.device, table'.viewers, Ids \ doubt')
    PROVE  DeviceScreenInv'
<1>1. HookCalls' = IF c \in HookCalls THEN (HookCalls \ {c}) \cup {d} ELSE HookCalls
  BY HookNoted
<1>2. c \in HookCalls <=> c.op # "latest"
  BY DEF HookCalls, DeviceScreenInv, DeviceCallOK, Gets
<1>3. CASE c.op = "latest"
  BY <1>1, <1>2, <1>3 DEF DeviceScreenInv
<1>4. CASE c.op # "latest"
  <2>1. HookCalls = {c}
    BY <1>2, <1>4 DEF DeviceScreenInv, HookOK
  <2>2. HookCalls' = {d}
    BY <1>1, <2>1
  <2>3. HookOK(HookCalls', view'.device, table'.viewers, Ids \ doubt')
    BY <1>4, <2>2 DEF HookOK
  <2> QED BY <2>1, <2>2, <2>3 DEF DeviceScreenInv
<1> QED BY <1>3, <1>4

\* An answered call is as well formed as the call was.
LEMMA DeviceReply ==
    ASSUME NEW c, DeviceCallOK(c), NEW d, IsMessage(d), d.op = c.op, d.id = c.id,
           d.vetted = c.vetted, d.reply \in {"ok", "refused", "lost"},
           c.op \in Gets => (d.reply = "ok" => d.data \in Device)
    PROVE  DeviceCallOK(d)
  BY DEF DeviceCallOK

LEMMA ServeDeviceStep ==
    ASSUME DeviceScreenInv, NEW c \in calls, c.op \in Gets, ServeDevice(c)
    PROVE  DeviceScreenInv'
<1> PICK x : x = [owner |-> table.role = "owner", users |-> table.viewers]
  OBVIOUS
<1> PICK d : d = [c EXCEPT !.reply = "ok", !.data = x]
  OBVIOUS
<1>1. DeviceCallOK(c) /\ table \in DeviceServer /\ Traced(c, view.device, table.viewers, Ids \ doubt)
  BY DEF DeviceScreenInv, HookOK, HookCalls, Gets
<1>2. x \in Device /\ x.users = table.viewers
  BY <1>1 DEF Device, DeviceServer
<1>7. /\ IsMessage(d) /\ d.op = c.op /\ d.id = c.id /\ d.vetted = c.vetted
      /\ d.reply = "ok" /\ d.data = x
  BY <1>1 DEF DeviceCallOK, IsMessage
<1>3. DeviceCallOK(d)
  BY <1>1, <1>2, <1>7, DeviceReply
<1>4. calls' = (calls \ {c}) \cup {d} /\ table' = table /\ view' = view /\ doubt' = {}
  BY DEF ServeDevice, Respond
<1>5. Traced(d, view.device, table'.viewers, Ids \ doubt')
  BY <1>1, <1>2, <1>4, <1>7 DEF Traced, Agree, Gets
<1>6. c.op # "latest"
  BY DEF Gets
<1>8. table' \in DeviceServer /\ doubt' \subseteq Ids
  BY <1>1, <1>4
<1> QED BY <1>3, <1>4, <1>5, <1>6, <1>7, <1>8, DeviceNoted

LEMMA ServeLatestStep ==
    ASSUME DeviceScreenInv, NEW c \in calls, c.op = "latest", ServeLatest(c)
    PROVE  DeviceScreenInv'
<1> PICK d : d = [c EXCEPT !.reply = "ok", !.data = None]
  OBVIOUS
<1>1. DeviceCallOK(c) /\ table \in DeviceServer /\ doubt \subseteq Ids
  BY DEF DeviceScreenInv
<1>4. /\ IsMessage(d) /\ d.op = c.op /\ d.id = c.id /\ d.vetted = c.vetted /\ d.reply = "ok"
  BY <1>1 DEF DeviceCallOK, IsMessage
<1>2. DeviceCallOK(d)
  BY <1>1, <1>4, DeviceReply DEF Gets
<1>3. calls' = (calls \ {c}) \cup {d} /\ table' = table /\ view' = view /\ doubt' = doubt
  BY DEF ServeLatest, Respond
<1>5. table' \in DeviceServer /\ doubt' \subseteq Ids
  BY <1>1, <1>3
<1> QED BY <1>2, <1>3, <1>4, <1>5, DeviceNoted

\* A grant or a revocation changes one viewer, the one it names.
LEMMA ServeAccessStep ==
    ASSUME DeviceScreenInv, NEW c \in calls, c.op \in {"grant", "revoke"},
           NEW V \in SUBSET Ids, \A u \in Ids \ {c.id} : u \in V <=> u \in table.viewers,
           Respond(c, "ok", None, [table EXCEPT !.viewers = V]), doubt' = doubt
    PROVE  DeviceScreenInv'
<1> PICK d : d = [c EXCEPT !.reply = "ok", !.data = None]
  OBVIOUS
<1>1. /\ DeviceCallOK(c) /\ table \in DeviceServer /\ doubt \subseteq Ids
      /\ Traced(c, view.device, table.viewers, Ids \ doubt)
  BY DEF DeviceScreenInv, HookOK, HookCalls
<1>6. /\ IsMessage(d) /\ d.op = c.op /\ d.id = c.id /\ d.vetted = c.vetted /\ d.reply = "ok"
  BY <1>1 DEF DeviceCallOK, IsMessage
<1>2. DeviceCallOK(d)
  BY <1>1, <1>6, DeviceReply DEF Gets
<1>3. calls' = (calls \ {c}) \cup {d} /\ view' = view
      /\ table' = [table EXCEPT !.viewers = V]
  BY DEF Respond
<1>4. table' \in DeviceServer /\ table'.viewers = V
  BY <1>1, <1>3 DEF DeviceServer
<1>5. Traced(d, view.device, table'.viewers, Ids \ doubt')
  BY <1>1, <1>4, <1>6 DEF Traced, Agree, Gets
<1>7. doubt' \subseteq Ids /\ c.op # "latest"
  BY <1>1
<1> QED BY <1>2, <1>3, <1>4, <1>5, <1>6, <1>7, DeviceNoted

LEMMA RefuseOnDeviceStep ==
    ASSUME DeviceScreenInv, NEW c \in calls, NEW d, IsMessage(d), d.op = c.op, d.id = c.id,
           d.vetted = c.vetted, d.reply \in {"refused", "lost"},
           calls' = (calls \ {c}) \cup {d}, table' = table, view' = view, doubt' = doubt
    PROVE  DeviceScreenInv'
<1>1. /\ DeviceCallOK(c) /\ table \in DeviceServer /\ doubt \subseteq Ids
      /\ c.op # "latest" => Traced(c, view.device, table.viewers, Ids \ doubt)
  BY DEF DeviceScreenInv, DeviceCallOK, HookOK, HookCalls, Gets
<1>2. DeviceCallOK(d)
  BY <1>1, DeviceReply
<1>3. c.op # "latest" => Traced(d, view.device, table'.viewers, Ids \ doubt')
  BY <1>1 DEF Traced
<1>4. table' \in DeviceServer /\ doubt' \subseteq Ids
  BY <1>1
<1> QED BY <1>2, <1>3, <1>4, DeviceNoted

LEMMA LoseOnDeviceStep ==
    ASSUME DeviceScreenInv, Lose
    PROVE  DeviceScreenInv'
<1>1. PICK c \in calls : calls' = (calls \ {c}) \cup {[c EXCEPT !.reply = "lost"]}
  BY DEF Lose
<1> PICK d : d = [c EXCEPT !.reply = "lost"]
  OBVIOUS
<1>2. DeviceCallOK(c)
  BY DEF DeviceScreenInv
<1>3. IsMessage(d) /\ d.op = c.op /\ d.id = c.id /\ d.vetted = c.vetted /\ d.reply = "lost"
  BY <1>2 DEF DeviceCallOK, IsMessage
<1>4. calls' = (calls \ {c}) \cup {d} /\ table' = table /\ view' = view /\ doubt' = doubt
  BY <1>1 DEF Lose
<1> QED BY <1>3, <1>4, RefuseOnDeviceStep

LEMMA DeviceServerStep ==
    ASSUME DeviceScreenInv, DevicePageServer
    PROVE  DeviceScreenInv'
<1>1. PICK c \in calls :
        \/ c.op \in Gets /\ ServeDevice(c)
        \/ c.op = "latest" /\ ServeLatest(c)
        \/ c.op = "grant" /\ ServeGrant(c)
        \/ c.op = "revoke" /\ ServeRevokeAccess(c)
        \/ Refuse(c)
  BY DEF DevicePageServer, Gets
<1>2. DeviceCallOK(c) /\ table \in DeviceServer
  BY DEF DeviceScreenInv
<1>3. CASE c.op \in Gets /\ ServeDevice(c)
  BY <1>3, ServeDeviceStep
<1>4. CASE c.op = "latest" /\ ServeLatest(c)
  BY <1>4, ServeLatestStep
<1>5. CASE c.op = "grant" /\ ServeGrant(c)
  <2> PICK V : V = table.viewers \cup {c.id}
    OBVIOUS
  <2>1. V \in SUBSET Ids /\ \A u \in Ids \ {c.id} : u \in V <=> u \in table.viewers
    BY <1>2, <1>5 DEF DeviceCallOK, DeviceServer
  <2>2. Respond(c, "ok", None, [table EXCEPT !.viewers = V]) /\ doubt' = doubt
    BY <1>5 DEF ServeGrant
  <2> QED BY <1>5, <2>1, <2>2, ServeAccessStep
<1>6. CASE c.op = "revoke" /\ ServeRevokeAccess(c)
  <2> PICK V : V = table.viewers \ {c.id}
    OBVIOUS
  <2>1. V \in SUBSET Ids /\ \A u \in Ids \ {c.id} : u \in V <=> u \in table.viewers
    BY <1>2, <1>6 DEF DeviceCallOK, DeviceServer
  <2>2. Respond(c, "ok", None, [table EXCEPT !.viewers = V]) /\ doubt' = doubt
    BY <1>6 DEF ServeRevokeAccess
  <2> QED BY <1>6, <2>1, <2>2, ServeAccessStep
<1>7. CASE Refuse(c)
  <2> PICK d : d = [c EXCEPT !.reply = "refused", !.data = None]
    OBVIOUS
  <2>1. IsMessage(d) /\ d.op = c.op /\ d.id = c.id /\ d.vetted = c.vetted /\ d.reply = "refused"
    BY <1>2 DEF DeviceCallOK, IsMessage
  <2>2. calls' = (calls \ {c}) \cup {d} /\ table' = table /\ view' = view /\ doubt' = doubt
    BY <1>7 DEF Refuse, Respond
  <2> QED BY <2>1, <2>2, RefuseOnDeviceStep
<1> QED BY <1>1, <1>3, <1>4, <1>5, <1>6, <1>7

LEMMA ElsewhereOnDeviceStep ==
    ASSUME DeviceScreenInv, ElsewhereOnDevice
    PROVE  DeviceScreenInv'
<1> DEFINE Sure == Ids \ doubt
<1>1. /\ view' = view /\ calls' = calls /\ table \in DeviceServer
      /\ HookCalls' = HookCalls
  BY DEF ElsewhereOnDevice, HookCalls, DeviceScreenInv
<1>2. table' \in DeviceServer /\ doubt' \subseteq Ids /\ Ids \ doubt' \subseteq Sure
      /\ \A u \in Ids \ doubt' : u \in table'.viewers <=> u \in table.viewers
  <2>1. CASE \E u \in Ids :
            /\ table' = [table EXCEPT !.viewers = IF u \in @ THEN @ \ {u} ELSE @ \cup {u}]
            /\ doubt' = doubt \cup {u}
    <3> PICK u \in Ids :
            /\ table' = [table EXCEPT !.viewers = IF u \in @ THEN @ \ {u} ELSE @ \cup {u}]
            /\ doubt' = doubt \cup {u}
      BY <2>1
    <3>1. table'.viewers = IF u \in table.viewers THEN table.viewers \ {u}
                                                  ELSE table.viewers \cup {u}
      BY <1>1 DEF DeviceServer
    <3>2. table' \in DeviceServer
      BY <1>1 DEF DeviceServer
    <3> QED BY <3>1, <3>2 DEF DeviceScreenInv
  <2>2. CASE table' = [table EXCEPT !.role = "none"] /\ UNCHANGED doubt
    BY <1>1, <2>2 DEF DeviceServer, Roles, DeviceScreenInv
  <2>3. CASE table' = [table EXCEPT !.located = TRUE] /\ UNCHANGED doubt
    BY <1>1, <2>3 DEF DeviceServer, DeviceScreenInv
  <2> QED BY <2>1, <2>2, <2>3 DEF ElsewhereOnDevice
<1>3. HookOK(HookCalls, view.device, table.viewers, Sure)
  BY DEF DeviceScreenInv
<1>4. HookOK(HookCalls, view.device, table'.viewers, Ids \ doubt')
  BY <1>2, <1>3 DEF HookOK, Traced, Agree
<1> QED BY <1>1, <1>2, <1>4 DEF DeviceScreenInv

-----------------------------------------------------------------------------
(* The visitor of the device page, and the answers.                        *)

DeviceFresh(v) == v \in DevicePageView /\ (v.typed => v.vetted)

LEMMA DeviceRendered ==
    ASSUME NEW v, DeviceFresh(v)
    PROVE  /\ DeviceFresh(DeviceRender(v))
           /\ DeviceRender(v).loading = v.loading
           /\ DeviceRender(v).device = v.device
  BY DEF DeviceFresh, DevicePageView, DeviceRender, NoRevocation

\* A handler that sends nothing.
LEMMA DeviceTouched ==
    ASSUME DeviceScreenInv, NEW v, Touch(v), DeviceFresh(v),
           v.loading = view.loading, v.device = view.device
    PROVE  DeviceScreenInv'
<1>1. view' = v /\ table' = table /\ calls' = calls /\ doubt' = doubt /\ HookCalls' = HookCalls
  BY DEF Touch, HookCalls
<1> QED BY <1>1 DEF DeviceScreenInv, DeviceFresh

\* The hook's next request.
LEMMA DeviceSent ==
    ASSUME DeviceScreenInv, NEW c, DeviceCallOK(c), c.op # "latest", HookCalls = {},
           calls' = calls \cup {c}, table' = table, doubt' = doubt,
           DeviceFresh(view'), view'.loading, view'.device = view.device,
           c.op \notin Gets
    PROVE  DeviceScreenInv'
<1>1. HookCalls' = {c}
  BY DEF HookCalls, DeviceCallOK, Gets
<1>2. Traced(c, view'.device, table'.viewers, Ids \ doubt')
  BY DEF DeviceScreenInv, HookOK, Traced, Agree
<1>3. HookOK(HookCalls', view'.device, table'.viewers, Ids \ doubt')
  BY <1>1, <1>2 DEF HookOK
<1> QED BY <1>1, <1>3 DEF DeviceScreenInv, DeviceFresh

LEMMA DeviceVisitorStep ==
    ASSUME DeviceScreenInv, DevicePageVisitor
    PROVE  DeviceScreenInv'
<1>1. DeviceFresh(view) /\ view \in DevicePageView
  BY DEF DeviceScreenInv, DeviceFresh
<1>2. CASE OpenGrant
  <2> PICK v : v = [view EXCEPT !.grantOpen = TRUE]
    OBVIOUS
  <2>1. DeviceFresh(v) /\ v.loading = view.loading /\ v.device = view.device
    BY <1>1 DEF DeviceFresh, DevicePageView
  <2> QED BY <1>2, <2>1, DeviceTouched DEF OpenGrant
<1>3. CASE CloseGrant
  <2> PICK v : v = [view EXCEPT !.grantOpen = FALSE]
    OBVIOUS
  <2>1. DeviceFresh(v) /\ v.loading = view.loading /\ v.device = view.device
    BY <1>1 DEF DeviceFresh, DevicePageView
  <2> QED BY <1>3, <2>1, DeviceTouched DEF CloseGrant
<1>4. CASE CancelRevoke
  <2> PICK v : v = NoRevocation(view)
    OBVIOUS
  <2>1. DeviceFresh(v) /\ v.loading = view.loading /\ v.device = view.device
    BY <1>1 DEF DeviceFresh, DevicePageView, NoRevocation
  <2> QED BY <1>4, <2>1, DeviceTouched DEF CancelRevoke
<1>5. ASSUME NEW u \in Ids, AskRevoke(u) PROVE DeviceScreenInv'
  <2> PICK v : v = [NoRevocation(view) EXCEPT !.target = u]
    OBVIOUS
  <2>1. DeviceFresh(v) /\ v.loading = view.loading /\ v.device = view.device
    BY <1>1 DEF DeviceFresh, DevicePageView, NoRevocation
  <2> QED BY <1>5, <2>1, DeviceTouched DEF AskRevoke
<1>6. ASSUME NEW right \in BOOLEAN, TypePhrase(right) PROVE DeviceScreenInv'
  <2> PICK v : v = [view EXCEPT !.typed = right, !.vetted = right]
    OBVIOUS
  <2>1. DeviceFresh(v) /\ v.loading = view.loading /\ v.device = view.device
    BY <1>1 DEF DeviceFresh, DevicePageView
  <2> QED BY <1>6, <2>1, DeviceTouched DEF TypePhrase
<1> PICK w : w = [view EXCEPT !.loading = TRUE]
  OBVIOUS
<1>7. DeviceFresh(w) /\ w.loading /\ w.device = view.device
  BY <1>1 DEF DeviceFresh, DevicePageView
<1>8. DeviceFresh(DeviceRender(w)) /\ DeviceRender(w).loading
      /\ DeviceRender(w).device = view.device
  BY <1>7, DeviceRendered
<1>9. ASSUME NEW u \in Ids, SubmitGrant(u) PROVE DeviceScreenInv'
  <2> PICK c : c = Request("grant", u, None)
    OBVIOUS
  <2>1. IsMessage(c) /\ c.op = "grant" /\ c.id = u /\ c.reply = "none"
    BY DEF Request, Message, IsMessage
  <2>2. DeviceCallOK(c) /\ c.op \notin Gets /\ c.op # "latest"
    BY <2>1 DEF DeviceCallOK, Gets
  <2>3. /\ calls' = calls \cup {c} /\ view' = DeviceRender(w) /\ table' = table /\ doubt' = doubt
        /\ ~view.loading
    BY <1>9 DEF SubmitGrant, Send, GrantModal, Modal, GrantAccessForm, Button, AdminShown,
                AdminSectionShown
  <2>4. HookCalls = {}
    BY <2>3 DEF DeviceScreenInv
  <2> QED BY <1>8, <2>2, <2>3, <2>4, DeviceSent
<1>10. CASE ConfirmRevoke
  <2> PICK r : r = Request("revoke", view.target, None)
    OBVIOUS
  <2> PICK c : c = [r EXCEPT !.vetted = view.vetted]
    OBVIOUS
  <2>1. /\ calls' = calls \cup {c} /\ view' = DeviceRender(w) /\ table' = table /\ doubt' = doubt
        /\ "confirm" \in RevokeModal
    BY <1>10 DEF ConfirmRevoke, Send
  <2>2. ~view.loading /\ view.target \in Ids /\ view.typed
    BY <1>1, <2>1 DEF RevokeModal, Modal, Input, Button, AdminShown, AdminSectionShown,
                      DevicePageView
  <2>3. view.vetted = TRUE
    BY <1>1, <2>2 DEF DeviceFresh, DevicePageView
  <2>4. IsMessage(r) /\ r.op = "revoke" /\ r.id = view.target /\ r.reply = "none"
    BY DEF Request, Message, IsMessage
  <2>5. IsMessage(c) /\ c.op = "revoke" /\ c.id = view.target /\ c.reply = "none" /\ c.vetted
    BY <2>3, <2>4 DEF IsMessage
  <2>6. DeviceCallOK(c) /\ c.op \notin Gets /\ c.op # "latest"
    BY <2>2, <2>5 DEF DeviceCallOK, Gets
  <2>7. HookCalls = {}
    BY <2>2 DEF DeviceScreenInv
  <2> QED BY <1>8, <2>1, <2>6, <2>7, DeviceSent
<1> QED BY <1>2, <1>3, <1>4, <1>5, <1>6, <1>9, <1>10 DEF DevicePageVisitor

\* The hook is idle again: what it shows agrees with the server.
LEMMA DeviceIdle ==
    ASSUME DeviceScreenInv, NEW c \in calls, c.op # "latest", NEW v, DeviceFresh(v), ~v.loading,
           calls' = calls \ {c}, view' = DeviceRender(v), table' = table, doubt' \subseteq Ids,
           v.device # None => Agree(v.device, table.viewers, Ids \ doubt')
    PROVE  DeviceScreenInv'
<1>1. c \in HookCalls
  BY DEF HookCalls, DeviceScreenInv, DeviceCallOK, Gets
<1>2. HookCalls' = {}
  BY <1>1, HookTaken DEF DeviceScreenInv, HookOK
<1>3. DeviceFresh(view') /\ view'.loading = v.loading /\ view'.device = v.device
  BY DeviceRendered
<1>4. HookOK(HookCalls', view'.device, table'.viewers, Ids \ doubt')
  BY <1>2, <1>3 DEF HookOK
<1> QED BY <1>2, <1>3, <1>4 DEF DeviceScreenInv, DeviceFresh

LEMMA DeviceFailedStep ==
    ASSUME DeviceScreenInv, NEW c \in calls, c.op # "latest", NEW D, D \subseteq Ids,
           c.op \in {"grant", "revoke"} => D = {c.id}, DeviceFailed(c, D)
    PROVE  DeviceScreenInv'
<1> PICK v : v = [view EXCEPT !.loading = FALSE, !.said = "failed"]
  OBVIOUS
<1>1. DeviceFresh(v) /\ ~v.loading /\ v.device = view.device
  BY DEF DeviceScreenInv, DeviceFresh, DevicePageView
<1>2. calls' = calls \ {c} /\ view' = DeviceRender(v) /\ table' = table /\ doubt' = doubt \cup D
  BY DEF DeviceFailed, DeviceAnswer, Finish
<1>3. DeviceCallOK(c) /\ Traced(c, view.device, table.viewers, Ids \ doubt)
  BY DEF HookCalls, DeviceScreenInv, DeviceCallOK, Gets, HookOK
<1>4. v.device # None => Agree(v.device, table.viewers, Ids \ doubt')
  BY <1>1, <1>2, <1>3 DEF Traced, Agree, DeviceCallOK
<1>5. doubt' \subseteq Ids
  BY <1>2 DEF DeviceScreenInv
<1> QED BY <1>1, <1>2, <1>4, <1>5, DeviceIdle

LEMMA DeviceLoadedStep ==
    ASSUME DeviceScreenInv, NEW c \in calls, c.op \in Gets,
           NEW toast \in {"none", "failed", "granted", "revoked"}, DeviceLoaded(c, toast)
    PROVE  DeviceScreenInv'
<1>1. c.op # "latest" /\ c.op \notin {"grant", "revoke"}
  BY DEF Gets
<1>2. CASE c.reply # "ok"
  BY <1>1, <1>2, DeviceFailedStep DEF DeviceLoaded
<1>3. CASE c.reply = "ok"
  <2> PICK v : v = [view EXCEPT !.loading = FALSE, !.device = c.data, !.said = toast]
    OBVIOUS
  <2>1. DeviceCallOK(c) /\ Traced(c, view.device, table.viewers, Ids \ doubt)
    BY DEF HookCalls, DeviceScreenInv, DeviceCallOK, Gets, HookOK
  <2>2. DeviceFresh(v) /\ ~v.loading /\ v.device = c.data
    BY <1>3, <2>1 DEF DeviceScreenInv, DeviceFresh, DevicePageView, DeviceCallOK
  <2>3. calls' = calls \ {c} /\ view' = DeviceRender(v) /\ table' = table /\ doubt' = doubt
    BY <1>3 DEF DeviceLoaded, DeviceAnswer, Finish
  <2>4. Agree(v.device, table.viewers, Ids \ doubt') /\ doubt' \subseteq Ids
    BY <1>3, <2>1, <2>2, <2>3 DEF Traced, DeviceScreenInv
  <2> QED BY <1>1, <2>2, <2>3, <2>4, DeviceIdle
<1> QED BY <1>2, <1>3

LEMMA ReloadStep ==
    ASSUME DeviceScreenInv, NEW c \in calls, c.op \in {"grant", "revoke"}, NEW op \in Gets,
           Reload(c, op)
    PROVE  DeviceScreenInv'
<1>1. DeviceCallOK(c) /\ HookCalls = {c} /\ c.id \in Ids
  BY DEF HookCalls, DeviceScreenInv, DeviceCallOK, Gets, HookOK
<1>2. CASE c.reply = "lost"
  BY <1>1, <1>2, DeviceFailedStep DEF Reload
<1>3. CASE c.reply # "lost"
  <2> PICK v : v = [view EXCEPT !.loading = TRUE, !.device = None]
    OBVIOUS
  <2> PICK d : d = Request(op, None, None)
    OBVIOUS
  <2>1. IsMessage(d) /\ d.op = op /\ d.reply = "none"
    BY DEF Request, Message, IsMessage
  <2>2. DeviceCallOK(d) /\ Traced(d, None, table'.viewers, Ids \ doubt')
    BY <2>1 DEF DeviceCallOK, Traced, Gets
  <2>3. /\ calls' = (calls \ {c}) \cup {d} /\ view' = DeviceRender(v)
        /\ table' = table /\ doubt' = doubt
    BY <1>3 DEF Reload
  <2>4. DeviceFresh(v) /\ v.loading /\ v.device = None
    BY DEF DeviceScreenInv, DeviceFresh, DevicePageView
  <2>5. DeviceFresh(view') /\ view'.loading /\ view'.device = None
    BY <2>3, <2>4, DeviceRendered
  <2>6. HookCalls' = {d}
    BY <1>1, <2>1, <2>3 DEF HookCalls, Gets
  <2>7. HookOK(HookCalls', view'.device, table'.viewers, Ids \ doubt')
    BY <2>2, <2>5, <2>6 DEF HookOK
  <2> QED BY <2>2, <2>3, <2>5, <2>6, <2>7 DEF DeviceScreenInv, DeviceFresh
<1> QED BY <1>2, <1>3 DEF Reload

\* The latest location never touches what the hook shows.
LEMMA LatestLoadedStep ==
    ASSUME DeviceScreenInv, NEW c \in calls, c.op = "latest", LatestLoaded(c)
    PROVE  DeviceScreenInv'
<1>1. HookCalls' = HookCalls
  BY DEF LatestLoaded, DeviceAnswer, Finish, HookCalls
<1>2. PICK v \in {view, [view EXCEPT !.latest = TRUE], [view EXCEPT !.said = "failed"]} :
        calls' = calls \ {c} /\ view' = DeviceRender(v) /\ table' = table /\ doubt' = doubt
  BY DEF LatestLoaded, DeviceAnswer, Finish, DeviceScreenInv
<1>3. DeviceFresh(v) /\ v.loading = view.loading /\ v.device = view.device
  BY DEF DeviceScreenInv, DeviceFresh, DevicePageView
<1>4. DeviceFresh(view') /\ view'.loading = view.loading /\ view'.device = view.device
  BY <1>2, <1>3, DeviceRendered
<1> QED BY <1>1, <1>2, <1>4 DEF DeviceScreenInv, DeviceFresh

LEMMA DeviceAnswersStep ==
    ASSUME DeviceScreenInv, DevicePageAnswers
    PROVE  DeviceScreenInv'
<1>1. view.said \in {"none", "failed", "granted", "revoked"}
  BY DEF DeviceScreenInv, DevicePageView
<1> QED BY <1>1, DeviceLoadedStep, LatestLoadedStep, ReloadStep
        DEF DevicePageAnswers, AccessGranted, AccessRevoked, Gets

LEMMA DeviceStep ==
    ASSUME DeviceScreenInv,
           \/ DevicePageServer \/ DevicePageAnswers \/ DevicePageVisitor
           \/ Lose \/ ElsewhereOnDevice
    PROVE  DeviceScreenInv'
  BY DeviceServerStep, DeviceAnswersStep, DeviceVisitorStep, LoseOnDeviceStep,
     ElsewhereOnDeviceStep

-----------------------------------------------------------------------------
(* The profile page.                                                       *)

ProfileInv ==
    /\ view \in ProfilePageView /\ doubt = {}
    /\ \A c \in calls : IsMessage(c) /\ c.op \in {"me", "count"}
    /\ \A i \in Islands : view[i].loading <=> Pending(i) # {}

LEMMA AskOK ==
    ASSUME NEW i, NEW c \in Ask(i)
    PROVE  IsMessage(c) /\ c.op \in {"me", "count"} /\ c.put = i
  BY DEF Ask, Message, IsMessage

LEMMA AskAsks ==
    ASSUME NEW i
    PROVE  Ask(i) # {}
  BY DEF Ask

LEMMA ProfileScreenInit ==
    ASSUME ProfileInit, doubt = {}
    PROVE  ProfileInv
<1>1. view \in ProfilePageView /\ \A i \in Islands : view[i].loading = TRUE
  BY DEF ProfileInit, ProfilePageView, Card
<1>2. calls = UNION {Ask(i) : i \in Islands}
  BY DEF ProfileInit
<1>3. ASSUME NEW i \in Islands PROVE Pending(i) # {}
  <2>1. PICK c \in Ask(i) : c \in calls
    BY <1>2, AskAsks
  <2> QED BY <2>1, AskOK DEF Pending
<1> QED BY <1>1, <1>2, <1>3, AskOK DEF ProfileInv

\* Server and network leave a call's kind as it is.
LEMMA ProfileNoted ==
    ASSUME ProfileInv, NEW c \in calls, NEW d, IsMessage(d), d.op = c.op, d.put = c.put,
           calls' = (calls \ {c}) \cup {d}, view' = view, doubt' = doubt
    PROVE  ProfileInv'
<1>1. ASSUME NEW i PROVE Pending(i)' # {} <=> Pending(i) # {}
  BY DEF Pending
<1> QED BY <1>1 DEF ProfileInv

LEMMA ProfileServerStep ==
    ASSUME ProfileInv, ProfileServer
    PROVE  ProfileInv'
<1>1. PICK c \in calls : \/ Respond(c, "ok", None, table) /\ UNCHANGED doubt
                         \/ Respond(c, "refused", None, table) /\ UNCHANGED doubt
  BY DEF ProfileServer, Refuse
<1>2. PICK r \in {"ok", "refused"} : Respond(c, r, None, table) /\ doubt' = doubt
  BY <1>1
<1> PICK d : d = [c EXCEPT !.reply = r, !.data = None]
  OBVIOUS
<1>5. IsMessage(c)
  BY <1>1 DEF ProfileInv
<1>3. IsMessage(d) /\ d.op = c.op /\ d.put = c.put
  BY <1>5 DEF IsMessage
<1>4. calls' = (calls \ {c}) \cup {d} /\ view' = view
  BY <1>2 DEF Respond
<1> QED BY <1>2, <1>3, <1>4, ProfileNoted

LEMMA LoseProfileStep ==
    ASSUME ProfileInv, Lose
    PROVE  ProfileInv'
<1>1. PICK c \in calls : calls' = (calls \ {c}) \cup {[c EXCEPT !.reply = "lost"]}
  BY DEF Lose
<1> PICK d : d = [c EXCEPT !.reply = "lost"]
  OBVIOUS
<1>2. IsMessage(d) /\ d.op = c.op /\ d.put = c.put
  BY DEF ProfileInv, IsMessage
<1>3. calls' = (calls \ {c}) \cup {d} /\ view' = view /\ doubt' = doubt
  BY <1>1 DEF Lose
<1> QED BY <1>2, <1>3, ProfileNoted

LEMMA ResolveStep ==
    ASSUME ProfileInv, NEW i \in Islands, NEW v \in Card, ~v.loading, Resolve(i, v)
    PROVE  ProfileInv'
<1>1. calls' = calls \ Pending(i) /\ view' = [view EXCEPT ![i] = v] /\ doubt' = doubt
  BY DEF Resolve
<1>2. Pending(i)' = {} /\ \A j \in Islands \ {i} : Pending(j)' = Pending(j)
  BY <1>1 DEF Pending
<1>3. view' \in ProfilePageView /\ \A j \in Islands : view'[j] = IF j = i THEN v ELSE view[j]
  BY <1>1 DEF ProfileInv, ProfilePageView
<1> QED BY <1>1, <1>2, <1>3 DEF ProfileInv

LEMMA ProfileAnswersStep ==
    ASSUME ProfileInv, ProfileAnswers
    PROVE  ProfileInv'
<1>1. PICK i \in Islands : Refreshed(i) \/ RefreshFailed(i)
  BY DEF ProfileAnswers
<1>2. view[i] \in Card
  BY DEF ProfileInv, ProfilePageView
<1>3. CASE Refreshed(i)
  <2>1. PICK p \in BOOLEAN, n \in BOOLEAN :
          Resolve(i, [loading |-> FALSE, error |-> FALSE, profile |-> p, count |-> n])
    <3> DEFINE got(op) == \E c \in Pending(i) : c.op = op /\ c.reply = "ok"
               p == view[i].profile \/ got("me")
               n == view[i].count \/ got("count")
    <3>1. p \in BOOLEAN /\ n \in BOOLEAN
      OBVIOUS
    <3>2. Resolve(i, [loading |-> FALSE, error |-> FALSE, profile |-> p, count |-> n])
      BY <1>3 DEF Refreshed
    <3> HIDE DEF p, n
    <3> QED BY <3>1, <3>2
  <2>2. [loading |-> FALSE, error |-> FALSE, profile |-> p, count |-> n] \in Card
    BY DEF Card
  <2> PICK card : card = [loading |-> FALSE, error |-> FALSE, profile |-> p, count |-> n]
    OBVIOUS
  <2>3. ~card.loading
    OBVIOUS
  <2> QED BY <2>1, <2>2, <2>3, ResolveStep
<1>4. CASE RefreshFailed(i)
  <2> PICK card : card = [view[i] EXCEPT !.loading = FALSE, !.error = TRUE]
    OBVIOUS
  <2>1. card \in Card /\ ~card.loading
    BY <1>2 DEF Card
  <2> QED BY <1>4, <2>1, ResolveStep DEF RefreshFailed
<1> QED BY <1>1, <1>3, <1>4

LEMMA RetryProfileStep ==
    ASSUME ProfileInv, RetryProfile
    PROVE  ProfileInv'
<1>1. calls' = calls \cup Ask("main") /\ doubt' = doubt
      /\ view' = [view EXCEPT !["main"].loading = TRUE, !["main"].error = FALSE]
  BY DEF RetryProfile
<1>2. view' \in ProfilePageView
  BY <1>1 DEF ProfileInv, ProfilePageView, Islands, Card
<1>3. view'["main"].loading /\ view'["side"] = view["side"]
  BY <1>1 DEF ProfileInv, ProfilePageView, Islands, Card
<1>4. Pending("main")' # {} /\ Pending("side")' = Pending("side")
  BY <1>1, AskOK, AskAsks DEF Pending
<1> QED BY <1>1, <1>2, <1>3, <1>4, AskOK DEF ProfileInv, Islands

LEMMA ProfileStep ==
    ASSUME ProfileInv, ProfileServer \/ ProfileAnswers \/ ProfileVisitor \/ Lose
    PROVE  ProfileInv'
  BY ProfileServerStep, ProfileAnswersStep, RetryProfileStep, LoseProfileStep
  DEF ProfileVisitor

-----------------------------------------------------------------------------
(* All screens.                                                            *)

PagesInv ==
    /\ page \in Screens /\ faults \in 0..MaxFaults
    /\ page = "devices" => DevicesInv
    /\ page = "users" => UsersScreenInv
    /\ page = "keys" => KeysInv
    /\ page = "device" => DeviceScreenInv
    /\ page = "profile" => ProfileInv

LEMMA PagesInit == Init => PagesInv
<1> SUFFICES ASSUME Init PROVE PagesInv
  OBVIOUS
<1>1. page \in Screens /\ faults \in 0..MaxFaults /\ doubt = {}
  BY BrowserAssumption DEF Init
<1> QED BY <1>1, DevicesInit, UsersScreenInit, KeysInit, DeviceScreenInit, ProfileScreenInit
        DEF Init, PagesInv

\* No step leaves the page.
LEMMA AnswersStay ==
    ASSUME Progress
    PROVE  page' = page /\ faults' = faults
<1>1. CASE page = "devices"
  BY <1>1 DEF Progress, DeviceTableServer, DeviceTableAnswers, ServePage, ServeRows, ServeCreate,
     ServeUpdate, ServeDelete, Refuse, Respond, DevicesLoaded, DeviceCreated, DeviceUpdated,
     DeviceDeleted, Finish
<1>2. CASE page = "users"
  BY <1>2 DEF Progress, UserTableServer, UserTableAnswers, ServeList, ServeRows, ServeCreate,
     ServeDelete, Refuse, Respond, UsersLoaded, UserCreated, UserDeleted, Finish
<1>3. CASE page = "keys"
  BY <1>3 DEF Progress, KeyTableServer, KeyTableAnswers, ServeKeyList, ServeKeyDevices,
     ServeIssue, ServeRevoke, Refuse, Respond, KeysLoaded, KeysRefreshed, KeyDevicesLoaded,
     KeyIssued, KeyRevoked, KeysFailed, KeyAnswer, Finish
<1>4. CASE page = "device"
  BY <1>4 DEF Progress, DevicePageServer, DevicePageAnswers, ServeDevice, ServeLatest,
     ServeGrant, ServeRevokeAccess, Refuse, Respond, DeviceLoaded, LatestLoaded,
     AccessGranted, AccessRevoked, Reload, DeviceFailed, DeviceAnswer, Finish
<1>5. CASE page = "profile"
  BY <1>5 DEF Progress, ProfileServer, ProfileAnswers, Refuse, Respond, Refreshed,
     RefreshFailed, Resolve
<1> QED BY <1>1, <1>2, <1>3, <1>4, <1>5 DEF Progress

LEMMA VisitorStays ==
    ASSUME Visitor
    PROVE  page' = page /\ faults' = faults
<1>1. CASE page = "devices"
  BY <1>1 DEF Visitor, DeviceTableVisitor, OpenCreateDevice, CloseCreateDevice, CancelEdit,
     CloseDeleteDevice, ConfirmDeleteDevice, DeviceEscape, CreateDevice, TypeEditName,
     TypeDeviceName, StartEdit, SaveEdit, StartDeleteDevice, Send, Touch
<1>2. CASE page = "users"
  BY <1>2 DEF Visitor, UserTableVisitor, OpenCreateUser, CloseCreateUser, CloseDeleteUser,
     ConfirmDeleteUser, CreateUser, TypeUserName, StartDeleteUser, Send, Touch
<1>3. CASE page = "keys"
  BY <1>3 DEF Visitor, KeyTableVisitor, OpenCreateKey, CloseCreateKey, ToggleMenu, IssueKey,
     CopyKey, SavedKey, CloseRevoke, RevokeKey, PickDevice, OpenRevoke, Send, Touch
<1>4. CASE page = "device"
  BY <1>4 DEF Visitor, DevicePageVisitor, OpenGrant, CloseGrant, CancelRevoke, ConfirmRevoke,
     SubmitGrant, AskRevoke, TypePhrase, Send, Touch
<1>5. CASE page = "profile"
  BY <1>5 DEF Visitor, ProfileVisitor, RetryProfile
<1> QED BY <1>1, <1>2, <1>3, <1>4, <1>5 DEF Visitor

LEMMA PagesNext == PagesInv /\ [Next]_vars => PagesInv'
<1> SUFFICES ASSUME PagesInv, [Next]_vars PROVE PagesInv'
  OBVIOUS
<1>1. CASE Progress
  <2>1. page' = page /\ faults' = faults
    BY <1>1, AnswersStay
  <2> QED BY <1>1, <2>1, DevicesStep, UsersScreenStep, KeysStep, DeviceStep, ProfileStep
          DEF PagesInv, Progress
<1>2. CASE Visitor
  <2>1. page' = page /\ faults' = faults
    BY <1>2, VisitorStays
  <2> QED BY <1>2, <2>1, DevicesStep, UsersScreenStep, KeysStep, DeviceStep, ProfileStep
          DEF PagesInv, Visitor
<1>3. CASE Lose
  <2>1. page' = page /\ faults' \in 0..MaxFaults
    BY <1>3, BrowserAssumption DEF Lose, PagesInv
  <2> QED BY <1>3, <2>1, DevicesStep, UsersScreenStep, KeysStep, DeviceStep, ProfileStep
          DEF PagesInv
<1>4. CASE Elsewhere
  <2>1. page' = page /\ faults' \in 0..MaxFaults
    BY <1>4, BrowserAssumption
    DEF Elsewhere, ElsewhereInList, ElsewhereInKeys, ElsewhereOnDevice, PagesInv
  <2> QED BY <1>4, <2>1, DevicesStep, UsersScreenStep, KeysStep, DeviceStep
          DEF PagesInv, Elsewhere
<1>5. CASE UNCHANGED vars
  <2>1. /\ page' = page /\ table' = table /\ view' = view /\ calls' = calls
        /\ doubt' = doubt /\ faults' = faults
    BY <1>5 DEF vars
  <2> QED BY <2>1 DEF PagesInv, DevicesInv, UsersScreenInv, KeysInv, DeviceScreenInv,
          ProfileInv, ListScreen, Vetting, Listing, KeysTyped, Live, HookCalls, Pending
<1> QED BY <1>1, <1>2, <1>3, <1>4, <1>5 DEF Next

LEMMA PagesAlways == Spec => []PagesInv
  BY PagesInit, PagesNext, PTL DEF Spec

\* The requests of a list screen all raise its flag.
LEMMA AllRaise ==
    ASSUME ListScreen
    PROVE  HookCalls = calls /\ \A c, d \in calls : c = d
  BY DEF HookCalls, ListScreen, CallsOK, ListCallOK

\* Flags, rows and dialogs of every screen keep their type.
THEOREM PagesTypeOK == Spec => []TypeOK
<1>1. PagesInv => TypeOK
  BY DEF PagesInv, TypeOK, Screens, DevicesInv, UsersScreenInv, KeysInv, KeysTyped,
     DeviceScreenInv, ProfileInv, ListScreen
<1> QED BY <1>1, PagesAlways, PTL

\* A list hook never has two requests in flight, and its flag tells of the one; no screen
\* shows itself loading without a request that will lower the flag.
THEOREM PagesFlagsTellOfRequests == Spec => []FlagsTellOfRequests
<1>1. ASSUME PagesInv PROVE FlagsTellOfRequests
  <2>1. ASSUME ListScreen
        PROVE  HookCalls = calls /\ \A c, d \in HookCalls : c = d
    BY <2>1, AllRaise
  <2>2. page \in {"devices", "users"} => ListScreen /\ (view.loading <=> calls # {})
    BY <1>1 DEF PagesInv, DevicesInv, UsersScreenInv
  <2>3. page = "device" =>
          (view.loading <=> HookCalls # {}) /\ \A c, d \in HookCalls : c = d
    BY <1>1 DEF PagesInv, DeviceScreenInv, HookOK
  <2>4. page = "keys" => (view.loading => HookCalls # {})
    BY <1>1 DEF PagesInv, KeysInv, Flagged
  <2>5. page = "profile" => \A i \in Islands : view[i].loading <=> Pending(i) # {}
    BY <1>1 DEF PagesInv, ProfileInv
  <2>6. page \in {"devices", "users", "device"} =>
          (view.loading <=> HookCalls # {}) /\ \A c, d \in HookCalls : c = d
    BY <2>1, <2>2, <2>3
  <2> QED BY <2>4, <2>5, <2>6 DEF FlagsTellOfRequests
<1> QED BY <1>1, PagesAlways, PTL

\* With nothing in flight, what a page shows of the rows it can know is true: for every
\* page size, of the devices only those the first page of the listing held or this page
\* has created since.
THEOREM PagesListFaithful == Spec => []ListFaithful
<1>1. ASSUME PagesInv PROVE ListFaithful
  <2>1. ASSUME HookCalls = {}, page \in {"devices", "users"}
        PROVE  \A i \in Ids \ doubt : view.rows[i] = Listing[i]
    <3>1. ListScreen
      BY <1>1, <2>1 DEF PagesInv, DevicesInv, UsersScreenInv
    <3>2. calls = {}
      BY <2>1, <3>1, AllRaise
    <3> QED BY <3>1, <3>2 DEF ListScreen, Faithful
  <2>2. ASSUME HookCalls = {}, page = "device", view.device # None
        PROVE  \A u \in Ids \ doubt : u \in view.device.users <=> u \in table.viewers
    BY <1>1, <2>2 DEF PagesInv, DeviceScreenInv, HookOK, Agree
  <2>3. ASSUME HookCalls = {}, page = "keys", ~view.tangled, NEW d \in Ids
        PROVE  view.rows[d] \in {None, table.active[d]} \cup doubt \cup view.strayed
    <3>1. Clean(HookCalls, view.rows, table.active, doubt \cup view.strayed)
      BY <1>1, <2>3 DEF PagesInv, KeysInv
    <3>2. ~Revoking(HookCalls, d, view.rows[d])
      BY <2>3 DEF Revoking
    <3> QED BY <3>1, <3>2 DEF Clean, Truthful
  <2> QED BY <2>1, <2>2, <2>3 DEF ListFaithful
<1> QED BY <1>1, PagesAlways, PTL

\* Every delete and every revocation had its own dialog's confirmation.
THEOREM PagesDeletionsVetted == Spec => []DeletionsVetted
<1>1. ASSUME PagesInv PROVE DeletionsVetted
  <2>1. ASSUME ListScreen, NEW c \in calls, c.op \in {"delete", "revoke"}
        PROVE  c.vetted
    BY <2>1 DEF ListScreen, CallsOK, ListCallOK
  <2>2. ASSUME DeviceScreenInv, NEW c \in calls, c.op \in {"delete", "revoke"}
        PROVE  c.vetted
    BY <2>2 DEF DeviceScreenInv, DeviceCallOK, Gets
  <2>3. ASSUME ProfileInv, NEW c \in calls
        PROVE  c.op \notin {"delete", "revoke"}
    BY <2>3 DEF ProfileInv
  <2> QED BY <1>1, <2>1, <2>2, <2>3
          DEF PagesInv, Screens, DevicesInv, UsersScreenInv, DeletionsVetted
<1> QED BY <1>1, PagesAlways, PTL

\* The key on display is one this page has not revoked.
THEOREM PagesRevealedKeyLive == Spec => []RevealedKeyLive
<1>1. ASSUME PagesInv PROVE RevealedKeyLive
  <2>1. ASSUME page = "keys", view.issued # None, ~view.tangled
        PROVE  view.issued \in Live
    BY <1>1, <2>1 DEF PagesInv, KeysInv, Guarded, Secret
  <2> QED BY <2>1 DEF RevealedKeyLive, Live
<1> QED BY <1>1, PagesAlways, PTL
=============================================================================
