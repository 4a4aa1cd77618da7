---------------------------- MODULE KeyTableProofs ----------------------------
(***************************************************************************)
(* Proofs about the API-keys page.  Its types are invariant.  Until a Done *)
(* overlaps another request, a key whose secret is or will be on display   *)
(* is none the page could revoke: it is fresh, so no row, no dialog and no *)
(* request names it, and the two ways rows can come to name it, the first  *)
(* load and the refresh after Done, leave no secret on display.            *)
(***************************************************************************)
EXTENDS Pages, ScreensProofs

KeyCallOK(c) ==
    /\ IsMessage(c)
    /\ c.op \in {"list", "refresh", "devices", "issue", "revoke"}
    /\ c.op \in {"list", "refresh"} /\ c.reply = "ok" => c.data \in KeyRows
    /\ c.op = "devices" /\ c.reply = "ok" => c.data \in SUBSET Ids
    /\ c.op \in {"issue", "revoke"} => c.id \in Ids
    /\ c.op = "issue" /\ c.reply = "ok" => c.data \in Keys
    /\ c.op = "revoke" => c.put \in Keys \cup {None}

\* The keys the page can name have been issued: U is the set of those, and None.
AllIn(rows, U) == \A i \in Ids : rows[i] \in U

Loaded(c) == c.op \in {"list", "refresh"} /\ c.reply = "ok"

KeysKnown(cs, v, active, U) ==
    /\ AllIn(active, U) /\ AllIn(v.rows, U) /\ v.targetKey \in U
    /\ \A c \in cs : Loaded(c) => AllIn(c.data, U)

KeysTyped ==
    /\ view \in KeyView /\ table \in KeyServer /\ doubt \subseteq Keys
    /\ \A c \in calls : KeyCallOK(c)
    /\ KeysKnown(calls, view, table.active, table.used \cup {None})

Live == {table.active[d] : d \in Ids} \cup doubt

\* Nothing on the page names k.
Unnamed(k, v) == k # v.targetKey /\ \A i \in Ids : k # v.rows[i]

Secret(k, live, v) == k \in live /\ Unnamed(k, v)

Guarded(cs, v, live) ==
    /\ \A c, d \in cs : c = d
    /\ v.loading <=> cs # {}
    /\ v.issued # None => /\ Secret(v.issued, live, v)
                          /\ \A c \in cs : /\ c.op # "list"
                                           /\ c.op = "revoke" => c.put # v.issued
    /\ \A c \in cs : c.op = "issue" /\ c.reply = "ok" => Secret(c.data, live, v)

\* Also when two of the hook's requests have overlapped.
Flagged(cs, v) == v.loading => cs # {}

\* The keys a listing may show: `gone` are those nobody told the page about.
Truthful(rows, active, gone) == \A d \in Ids : rows[d] \in {None, active[d]} \cup gone

Revoking(cs, d, k) == \E c \in cs : c.op = "revoke" /\ c.id = d /\ c.put = k

\* A row shown is of a live key, or its revocation is in flight; so is one on its way.
Clean(cs, rows, active, gone) ==
    /\ \A d \in Ids : rows[d] \in {None, active[d]} \cup gone \/ Revoking(cs, d, rows[d])
    /\ \A c \in cs : Loaded(c) => Truthful(c.data, active, gone)

KeysInv ==
    /\ KeysTyped /\ Flagged(HookCalls, view)
    /\ ~view.tangled => /\ Guarded(HookCalls, view, Live)
                        /\ Clean(HookCalls, view.rows, table.active, doubt \cup view.strayed)

\* Noting an answer changes no call's kind.
LEMMA HookNoted ==
    ASSUME NEW c \in calls, NEW d, d.op = c.op, calls' = (calls \ {c}) \cup {d}
    PROVE  HookCalls' = IF c \in HookCalls THEN (HookCalls \ {c}) \cup {d} ELSE HookCalls
  BY DEF HookCalls

LEMMA HookTaken ==
    ASSUME NEW c \in calls, calls' = calls \ {c}
    PROVE  HookCalls' = HookCalls \ {c}
  BY DEF HookCalls

LEMMA NoneNoKey == None \notin Keys
  BY BrowserAssumption

LEMMA KeysInit ==
    ASSUME KeyTableInit, doubt = {}
    PROVE  KeysInv
<1>1. /\ view \in KeyView /\ view.rows = NoRows /\ view.loading = TRUE /\ view.issued = None
      /\ view.targetKey = None
  BY DEF KeyTableInit, KeyView, KeyRows, NoRows
<1>2. table \in KeyServer /\ AllIn(table.active, table.used \cup {None})
  BY DEF KeyTableInit, AllIn
<1>3. /\ IsMessage(LoadKeys) /\ LoadKeys.op = "list" /\ LoadKeys.reply = "none"
      /\ IsMessage(LoadKeyDevices) /\ LoadKeyDevices.op = "devices"
      /\ LoadKeyDevices.reply = "none"
      /\ calls = {LoadKeys, LoadKeyDevices}
  BY DEF KeyTableInit, LoadKeys, LoadKeyDevices, Message, IsMessage
<1>4. \A c \in calls : KeyCallOK(c) /\ ~Loaded(c)
  BY <1>3 DEF KeyCallOK, Loaded
<1>5. HookCalls = {LoadKeys}
  BY <1>3 DEF HookCalls
<1>6. KeysKnown(calls, view, table.active, table.used \cup {None})
  BY <1>1, <1>2, <1>4 DEF KeysKnown, AllIn, NoRows
<1>7. Guarded(HookCalls, view, Live)
  BY <1>1, <1>3, <1>5 DEF Guarded
<1>8. Clean(HookCalls, view.rows, table.active, doubt \cup view.strayed)
  BY <1>1, <1>3, <1>5 DEF Clean, Loaded, NoRows
<1> QED BY <1>1, <1>2, <1>4, <1>5, <1>6, <1>7, <1>8 DEF KeysInv, KeysTyped, Flagged

-----------------------------------------------------------------------------
(* The server and the network.                                             *)

\* Keys that stay live whatever request c does.
Spared(c) == {k \in Keys : c.op = "revoke" => k # c.put}

\* A device loses its key to request c only if c asks for that.
KeyKept(c, active, after) ==
    \A d \in Ids : active[d] \in {None, after[d]} \/ (c.op = "revoke" /\ c.id = d /\ c.put = active[d])

LEMMA KeysNoted ==
    ASSUME KeysInv, NEW c \in calls, NEW d, KeyCallOK(d), d.op = c.op, d.put = c.put,
           d.id = c.id, calls' = (calls \ {c}) \cup {d}, view' = view,
           table' \in KeyServer, doubt' \subseteq Keys, doubt \subseteq doubt', table.used \subseteq table'.used,
           AllIn(table'.active, table'.used \cup {None}),
           Loaded(d) => AllIn(d.data, table'.used \cup {None}),
           Live \cap Spared(c) \subseteq Live', KeyKept(c, table.active, table'.active),
           Loaded(d) => Truthful(d.data, table'.active, doubt \cup view.strayed),
           d.op = "issue" /\ d.reply = "ok" => Secret(d.data, Live', view)
    PROVE  KeysInv'
<1>1. HookCalls' = IF c \in HookCalls THEN (HookCalls \ {c}) \cup {d} ELSE HookCalls
  BY HookNoted
<1>2. KeysKnown(calls', view', table'.active, table'.used \cup {None})
  BY DEF KeysInv, KeysTyped, KeysKnown, AllIn
<1>3. KeysTyped'
  BY <1>2 DEF KeysInv, KeysTyped
<1>4. ASSUME ~view.tangled
      PROVE  Guarded(HookCalls', view, Live')
  <2>1. Guarded(HookCalls, view, Live) /\ HookCalls \subseteq calls
    BY <1>4 DEF KeysInv, HookCalls
  <2>2. view.issued # None => view.issued \in Keys
    BY DEF KeysInv, KeysTyped, KeyView
  <2>3. CASE c \in HookCalls
    <3>1. HookCalls = {c} /\ HookCalls' = {d}
      BY <1>1, <2>1, <2>3 DEF Guarded
    <3>2. view.issued # None => Secret(view.issued, Live', view)
      BY <2>1, <2>2, <3>1 DEF Guarded, Secret, Spared
    <3> QED BY <2>1, <3>1, <3>2 DEF Guarded
  <2>4. CASE c \notin HookCalls
    <3>1. HookCalls' = HookCalls /\ c.op # "revoke"
      BY <1>1, <2>4 DEF HookCalls
    <3>2. \A h \in HookCalls : h.op = "issue" /\ h.reply = "ok" => h.data \in Keys
      BY <2>1 DEF KeysInv, KeysTyped, KeyCallOK
    <3> QED BY <2>1, <2>2, <3>1, <3>2 DEF Guarded, Secret, Spared
  <2> QED BY <2>3, <2>4
<1>5. Flagged(HookCalls', view')
  BY <1>1 DEF KeysInv, Flagged
<1>6. ASSUME ~view.tangled
      PROVE  Clean(HookCalls', view.rows, table'.active, doubt' \cup view.strayed)
  <2> DEFINE gone == doubt \cup view.strayed
  <2>1. /\ Clean(HookCalls, view.rows, table.active, gone) /\ HookCalls \subseteq calls
        /\ \A h, g \in HookCalls : h = g
    BY <1>6 DEF KeysInv, HookCalls, Guarded
  <2>2. c.op = "revoke" => c \in HookCalls
    BY DEF HookCalls
  <2>3. ASSUME NEW e \in Ids, NEW k, Revoking(HookCalls, e, k)
        PROVE  Revoking(HookCalls', e, k)
    BY <1>1, <2>3 DEF Revoking
  <2>4. ASSUME NEW e \in Ids
        PROVE  view.rows[e] \in {None, table'.active[e]} \cup gone
               \/ Revoking(HookCalls', e, view.rows[e])
    <3>1. CASE view.rows[e] \in {None} \cup gone \/ Revoking(HookCalls, e, view.rows[e])
      BY <2>3, <3>1
    <3>2. CASE view.rows[e] = table.active[e] /\ table.active[e] \in {None, table'.active[e]}
      BY <3>2
    <3>3. CASE /\ view.rows[e] = table.active[e]
               /\ c.op = "revoke" /\ c.id = e /\ c.put = table.active[e]
      <4>1. d \in HookCalls'
        BY <1>1, <2>2, <3>3
      <4> QED BY <3>3, <4>1 DEF Revoking
    <3> QED BY <2>1, <3>1, <3>2, <3>3 DEF Clean, KeyKept
  <2>5. ASSUME NEW h \in HookCalls', Loaded(h)
        PROVE  Truthful(h.data, table'.active, gone)
    <3>1. CASE c \in HookCalls
      BY <1>1, <2>1, <2>5, <3>1
    <3>2. CASE c \notin HookCalls
      <4>1. h \in HookCalls /\ c.op # "revoke"
        BY <1>1, <2>2, <3>2
      <4>2. Truthful(h.data, table.active, gone)
        BY <2>1, <2>5, <4>1 DEF Clean
      <4> QED BY <4>1, <4>2 DEF Truthful, KeyKept
    <3> QED BY <3>1, <3>2
  <2>6. gone \subseteq doubt' \cup view.strayed
    OBVIOUS
  <2> QED BY <2>4, <2>5, <2>6 DEF Clean, Truthful
<1> QED BY <1>3, <1>4, <1>5, <1>6 DEF KeysInv

\* The server's table is not touched.
LEMMA KeysToldStep ==
    ASSUME KeysInv, NEW c \in calls, NEW d, KeyCallOK(d), d.op = c.op, d.put = c.put,
           d.id = c.id, calls' = (calls \ {c}) \cup {d}, view' = view, table' = table,
           doubt' = doubt, Loaded(d) => AllIn(d.data, table.used \cup {None}),
           Loaded(d) => Truthful(d.data, table.active, doubt \cup view.strayed),
           d.op = "issue" => d.reply # "ok"
    PROVE  KeysInv'
<1>1. Live' = Live
  BY DEF Live
<1>2. /\ table' \in KeyServer /\ doubt' \subseteq Keys
      /\ AllIn(table'.active, table'.used \cup {None})
  BY DEF KeysInv, KeysTyped, KeysKnown
<1>3. Loaded(d) => AllIn(d.data, table'.used \cup {None})
  OBVIOUS
<1>4. Live \cap Spared(c) \subseteq Live' /\ table.used \subseteq table'.used
  BY <1>1
<1>5. /\ KeyKept(c, table.active, table'.active) /\ doubt \subseteq doubt'
      /\ Loaded(d) => Truthful(d.data, table'.active, doubt \cup view.strayed)
  BY DEF KeyKept
<1> QED BY <1>2, <1>3, <1>4, <1>5, KeysNoted

LEMMA IssueTable ==
    ASSUME table \in KeyServer, NEW d \in Ids, NEW k \in Keys
    PROVE  /\ Issue(d, k) \in KeyServer
           /\ Issue(d, k).active = [table.active EXCEPT ![d] = k]
           /\ Issue(d, k).used = table.used \cup {k}
<1> PICK A : A = [table.active EXCEPT ![d] = k]
  OBVIOUS
<1>1. A \in KeyRows
  BY DEF KeyServer, KeyRows
<1> PICK U : U = table.used \cup {k}
  OBVIOUS
<1>2. Issue(d, k) = [table EXCEPT !.active = A, !.used = U]
  BY DEF Issue, KeyServer
<1>3. Issue(d, k) = [active |-> A, used |-> U, devices |-> table.devices]
  BY <1>2 DEF KeyServer
<1> QED BY <1>1, <1>3 DEF KeyServer

\* A device without a key gets a fresh one.
LEMMA IssueLive ==
    ASSUME KeysTyped, NEW d \in Ids, NEW k \in Keys, table.active[d] = None,
           table' = Issue(d, k), doubt \subseteq doubt'
    PROVE  /\ table' \in KeyServer /\ table'.used = table.used \cup {k}
           /\ AllIn(table'.active, table'.used \cup {None})
           /\ k \in Live' /\ Live \cap Keys \subseteq Live'
           /\ \A e \in Ids : table.active[e] \in {None, table'.active[e]}
<1>1. /\ table' \in KeyServer /\ table'.active = [table.active EXCEPT ![d] = k]
      /\ table'.used = table.used \cup {k}
  BY IssueTable DEF KeysTyped
<1>2. \A e \in Ids : table'.active[e] = IF e = d THEN k ELSE table.active[e]
  BY <1>1 DEF KeysTyped, KeyServer, KeyRows
<1>3. AllIn(table'.active, table'.used \cup {None})
  BY <1>1, <1>2 DEF KeysTyped, KeysKnown, AllIn
<1>4. k \in Live'
  BY <1>2 DEF Live
<1>5. ASSUME NEW x \in Live \cap Keys PROVE x \in Live'
  BY <1>2, NoneNoKey DEF Live
<1> QED BY <1>1, <1>2, <1>3, <1>4, <1>5

LEMMA ServeIssueStep ==
    ASSUME KeysInv, NEW c \in calls, c.op = "issue", ServeIssue(c), doubt' = doubt
    PROVE  KeysInv'
<1>1. KeyCallOK(c) /\ c.id \in Ids /\ KeysTyped
  BY DEF KeysInv, KeysTyped, KeyCallOK
<1> PICK k \in Keys \ table.used : Respond(c, "ok", k, Issue(c.id, k))
  BY DEF ServeIssue
<1> PICK d : d = [c EXCEPT !.reply = "ok", !.data = k]
  OBVIOUS
<1>2. /\ IsMessage(d) /\ d.op = c.op /\ d.id = c.id /\ d.put = c.put /\ d.reply = "ok"
      /\ d.data = k
  BY <1>1 DEF KeyCallOK, IsMessage
<1>3. KeyCallOK(d) /\ ~Loaded(d)
  BY <1>1, <1>2 DEF KeyCallOK, Loaded
<1>4. calls' = (calls \ {c}) \cup {d} /\ view' = view /\ table' = Issue(c.id, k)
  BY DEF Respond
<1>5. table.active[c.id] = None
  BY DEF ServeIssue
<1>6. /\ table' \in KeyServer /\ table'.used = table.used \cup {k}
      /\ AllIn(table'.active, table'.used \cup {None})
      /\ k \in Live' /\ Live \cap Keys \subseteq Live'
      /\ KeyKept(c, table.active, table'.active)
  BY <1>1, <1>4, <1>5, IssueLive DEF KeyKept
<1>7. Unnamed(k, view)
  BY NoneNoKey DEF Unnamed, KeysInv, KeysTyped, KeysKnown, AllIn
<1>8. Secret(d.data, Live', view)
  BY <1>2, <1>6, <1>7 DEF Secret
<1>9. /\ Live \cap Spared(c) \subseteq Live' /\ table.used \subseteq table'.used
      /\ doubt' \subseteq Keys /\ doubt \subseteq doubt'
  BY <1>1, <1>6 DEF Spared, KeysTyped
<1> QED BY <1>2, <1>3, <1>4, <1>6, <1>8, <1>9, KeysNoted

\* A key removed from a device's slot.
LEMMA RevokedTable ==
    ASSUME KeysTyped, NEW d \in Ids, table' = [table EXCEPT !.active[d] = None]
    PROVE  /\ table' \in KeyServer /\ table'.used = table.used
           /\ AllIn(table'.active, table'.used \cup {None})
           /\ \A e \in Ids : e # d => table'.active[e] = table.active[e]
<1> PICK A : A = [table.active EXCEPT ![d] = None]
  OBVIOUS
<1>1. A \in KeyRows /\ \A e \in Ids : A[e] = IF e = d THEN None ELSE table.active[e]
  BY DEF KeysTyped, KeyServer, KeyRows
<1>2. table' = [active |-> A, used |-> table.used, devices |-> table.devices]
  BY DEF KeysTyped, KeyServer
<1> QED BY <1>1, <1>2 DEF KeysTyped, KeysKnown, AllIn, KeyServer

LEMMA ServeRevokeStep ==
    ASSUME KeysInv, NEW c \in calls, c.op = "revoke", ServeRevoke(c), doubt' = doubt
    PROVE  KeysInv'
<1> PICK d : d = [c EXCEPT !.reply = "ok", !.data = None]
  OBVIOUS
<1>1. KeyCallOK(c) /\ c.id \in Ids /\ KeysTyped
  BY DEF KeysInv, KeysTyped, KeyCallOK
<1>2. IsMessage(d) /\ d.op = c.op /\ d.id = c.id /\ d.put = c.put
  BY <1>1 DEF KeyCallOK, IsMessage
<1>3. KeyCallOK(d) /\ ~Loaded(d) /\ d.op # "issue"
  BY <1>1, <1>2 DEF KeyCallOK, Loaded
<1>4. calls' = (calls \ {c}) \cup {d} /\ view' = view
  BY DEF ServeRevoke, Respond
<1>5. CASE table.active[c.id] = c.put
  <2>1. table' = [table EXCEPT !.active[c.id] = None]
    BY <1>5 DEF ServeRevoke, Respond
  <2>2. /\ table' \in KeyServer /\ table'.used = table.used
        /\ AllIn(table'.active, table'.used \cup {None})
        /\ \A e \in Ids : e # c.id => table'.active[e] = table.active[e]
    BY <1>1, <2>1, RevokedTable
  <2>3. ASSUME NEW x \in Live \cap Spared(c) PROVE x \in Live'
    BY <1>5, <2>2 DEF Live, Spared
  <2>4. doubt' \subseteq Keys /\ doubt \subseteq doubt'
    BY <1>1 DEF KeysTyped
  <2>5. KeyKept(c, table.active, table'.active)
    BY <1>5, <2>2 DEF KeyKept
  <2> QED BY <1>2, <1>3, <1>4, <2>2, <2>3, <2>4, <2>5, KeysNoted
<1>6. CASE table.active[c.id] # c.put
  <2>1. table' = table
    BY <1>6 DEF ServeRevoke, Respond
  <2> QED BY <1>2, <1>3, <1>4, <2>1, KeysToldStep
<1> QED BY <1>5, <1>6

LEMMA ServeKeyListStep ==
    ASSUME KeysInv, NEW c \in calls, c.op \in {"list", "refresh"}, ServeKeyList(c),
           doubt' = doubt
    PROVE  KeysInv'
<1> PICK L : L = [i \in Ids |-> IF i \in table.devices THEN table.active[i] ELSE None]
  OBVIOUS
<1> PICK d : d = [c EXCEPT !.reply = "ok", !.data = L]
  OBVIOUS
<1>1. KeyCallOK(c) /\ KeysTyped
  BY DEF KeysInv, KeysTyped
<1>2. L \in KeyRows /\ AllIn(L, table.used \cup {None})
  BY <1>1 DEF KeyRows, KeysTyped, KeyServer, KeysKnown, AllIn
<1>3. IsMessage(d) /\ d.op = c.op /\ d.id = c.id /\ d.put = c.put /\ d.data = L
  BY <1>1 DEF KeyCallOK, IsMessage
<1>4. KeyCallOK(d) /\ d.op # "issue"
  BY <1>1, <1>2, <1>3 DEF KeyCallOK
<1>5. calls' = (calls \ {c}) \cup {d} /\ view' = view /\ table' = table
  BY DEF ServeKeyList, Respond
<1>6. Loaded(d) => AllIn(d.data, table.used \cup {None})
  BY <1>2, <1>3
<1>7. Truthful(d.data, table.active, doubt \cup view.strayed)
  BY <1>3 DEF Truthful
<1> QED BY <1>3, <1>4, <1>5, <1>6, <1>7, KeysToldStep

LEMMA ServeKeyDevicesStep ==
    ASSUME KeysInv, NEW c \in calls, c.op = "devices", ServeKeyDevices(c), doubt' = doubt
    PROVE  KeysInv'
<1>0. PICK P \in FirstPages(table.devices) : Respond(c, "ok", P, table)
  BY DEF ServeKeyDevices
<1> PICK d : d = [c EXCEPT !.reply = "ok", !.data = P]
  OBVIOUS
<1>1. KeyCallOK(c) /\ P \in SUBSET Ids
  BY DEF KeysInv, KeysTyped, KeyServer, FirstPages
<1>2. IsMessage(d) /\ d.op = c.op /\ d.id = c.id /\ d.put = c.put /\ d.data = P
  BY <1>1 DEF KeyCallOK, IsMessage
<1>3. KeyCallOK(d) /\ d.op # "issue" /\ ~Loaded(d)
  BY <1>1, <1>2 DEF KeyCallOK, Loaded
<1>4. calls' = (calls \ {c}) \cup {d} /\ view' = view /\ table' = table
  BY <1>0 DEF Respond
<1> QED BY <1>2, <1>3, <1>4, KeysToldStep

LEMMA KeysUnansweredStep ==
    ASSUME KeysInv, NEW c \in calls, NEW d, IsMessage(d), d.op = c.op, d.id = c.id,
           d.put = c.put, d.reply \in {"refused", "lost"},
           calls' = (calls \ {c}) \cup {d}, view' = view, table' = table, doubt' = doubt
    PROVE  KeysInv'
<1>1. KeyCallOK(c)
  BY DEF KeysInv, KeysTyped
<1>2. KeyCallOK(d) /\ ~Loaded(d) /\ d.reply # "ok"
  BY <1>1 DEF KeyCallOK, Loaded
<1> QED BY <1>2, KeysToldStep

LEMMA LoseKeysStep ==
    ASSUME KeysInv, Lose
    PROVE  KeysInv'
<1>1. PICK c \in calls : calls' = (calls \ {c}) \cup {[c EXCEPT !.reply = "lost"]}
  BY DEF Lose
<1> PICK d : d = [c EXCEPT !.reply = "lost"]
  OBVIOUS
<1>2. KeyCallOK(c)
  BY DEF KeysInv, KeysTyped
<1>3. IsMessage(d) /\ d.op = c.op /\ d.id = c.id /\ d.put = c.put /\ d.reply = "lost"
  BY <1>2 DEF KeyCallOK, IsMessage
<1>4. calls' = (calls \ {c}) \cup {d} /\ table' = table /\ view' = view /\ doubt' = doubt
  BY <1>1 DEF Lose
<1> QED BY <1>3, <1>4, KeysUnansweredStep

LEMMA RefuseKeysStep ==
    ASSUME KeysInv, NEW c \in calls, Refuse(c)
    PROVE  KeysInv'
<1> PICK d : d = [c EXCEPT !.reply = "refused", !.data = None]
  OBVIOUS
<1>1. KeyCallOK(c)
  BY DEF KeysInv, KeysTyped
<1>2. IsMessage(d) /\ d.op = c.op /\ d.id = c.id /\ d.put = c.put /\ d.reply = "refused"
  BY <1>1 DEF KeyCallOK, IsMessage
<1>3. calls' = (calls \ {c}) \cup {d} /\ table' = table /\ view' = view /\ doubt' = doubt
  BY DEF Refuse, Respond
<1> QED BY <1>2, <1>3, KeysUnansweredStep

LEMMA KeysServerStep ==
    ASSUME KeysInv, KeyTableServer
    PROVE  KeysInv'
  BY ServeKeyListStep, ServeKeyDevicesStep, ServeIssueStep, ServeRevokeStep, RefuseKeysStep
  DEF KeyTableServer

LEMMA ElsewhereInKeysStep ==
    ASSUME KeysInv, ElsewhereInKeys
    PROVE  KeysInv'
<1>1. /\ KeysTyped /\ view' = view /\ calls' = calls /\ HookCalls' = HookCalls
      /\ \A c \in calls : KeyCallOK(c)
  BY DEF KeysInv, KeysTyped, ElsewhereInKeys, HookCalls
<1>2. PICK d \in table.devices :
        \/ /\ table.active[d] = None
           /\ \E k \in Keys \ table.used : table' = Issue(d, k)
           /\ UNCHANGED doubt
        \/ /\ table.active[d] # None
           /\ table' = [table EXCEPT !.active[d] = None]
           /\ doubt' = doubt \cup {table.active[d]}
  BY DEF ElsewhereInKeys
<1>3. d \in Ids /\ table.active[d] \in Keys \cup {None}
  BY <1>1, <1>2 DEF KeysTyped, KeyServer, KeyRows
<1>4. /\ table' \in KeyServer /\ table.used \subseteq table'.used
      /\ AllIn(table'.active, table'.used \cup {None})
      /\ Live \cap Keys \subseteq Live' /\ doubt' \subseteq Keys /\ doubt \subseteq doubt'
      /\ \A e \in Ids : table.active[e] \in {None, table'.active[e]} \cup doubt'
  <2>1. CASE table.active[d] = None
    <3> PICK k \in Keys \ table.used : table' = Issue(d, k)
      BY <1>2, <2>1
    <3>1. doubt' = doubt
      BY <1>2, <2>1
    <3> QED BY <1>1, <1>3, <2>1, <3>1, IssueLive DEF KeysTyped
  <2>2. CASE table.active[d] # None
    <3>1. table' = [table EXCEPT !.active[d] = None] /\ doubt' = doubt \cup {table.active[d]}
      BY <1>2, <2>2
    <3>2. /\ table' \in KeyServer /\ table'.used = table.used
          /\ AllIn(table'.active, table'.used \cup {None})
          /\ \A e \in Ids : e # d => table'.active[e] = table.active[e]
      BY <1>1, <1>3, <3>1, RevokedTable
    <3>3. ASSUME NEW x \in Live \cap Keys PROVE x \in Live'
      BY <3>1, <3>2 DEF Live
    <3>4. doubt' \subseteq Keys
      BY <1>1, <1>3, <2>2, <3>1 DEF KeysTyped
    <3>5. ASSUME NEW e \in Ids
          PROVE  table.active[e] \in {None, table'.active[e]} \cup doubt'
      <4>1. CASE e = d
        BY <3>1, <4>1
      <4>2. CASE e # d
        BY <3>2, <4>2
      <4> QED BY <4>1, <4>2
    <3>6. doubt \subseteq doubt' /\ Live \cap Keys \subseteq Live'
      BY <3>1, <3>3
    <3> QED BY <3>2, <3>4, <3>5, <3>6
  <2> QED BY <2>1, <2>2
<1>5. KeysKnown(calls', view', table'.active, table'.used \cup {None})
  BY <1>1, <1>4 DEF KeysTyped, KeysKnown, AllIn
<1>6. ~view.tangled => Guarded(HookCalls', view, Live')
  <2>1. view.issued # None => view.issued \in Keys
    BY <1>1 DEF KeysTyped, KeyView
  <2>2. \A h \in HookCalls : h.op = "issue" /\ h.reply = "ok" => h.data \in Keys
    BY <1>1 DEF KeyCallOK, HookCalls
  <2> QED BY <1>1, <1>4, <2>1, <2>2 DEF KeysInv, Guarded, Secret
<1>7. KeysTyped'
  BY <1>1, <1>4, <1>5 DEF KeysTyped
<1>8. Flagged(HookCalls', view')
  BY <1>1 DEF KeysInv, Flagged
<1>9. ASSUME ~view.tangled
      PROVE  Clean(HookCalls, view.rows, table'.active, doubt' \cup view.strayed)
  <2>1. Clean(HookCalls, view.rows, table.active, doubt \cup view.strayed)
    BY <1>9 DEF KeysInv
  <2>2. ASSUME NEW e \in Ids, NEW k \in {None, table.active[e]} \cup (doubt \cup view.strayed)
        PROVE  k \in {None, table'.active[e]} \cup (doubt' \cup view.strayed)
    BY <1>4, <2>2
  <2> QED BY <2>1, <2>2 DEF Clean, Truthful
<1> QED BY <1>1, <1>6, <1>7, <1>8, <1>9 DEF KeysInv

-----------------------------------------------------------------------------
(* The visitor.                                                            *)

LEMMA KeyRendered ==
    ASSUME NEW v \in KeyView
    PROVE  /\ KeyRender(v) \in KeyView
           /\ KeyRender(v).loading = v.loading /\ KeyRender(v).rows = v.rows
           /\ KeyRender(v).issued = v.issued /\ KeyRender(v).targetKey = v.targetKey
           /\ KeyRender(v).tangled = v.tangled /\ KeyRender(v).strayed = v.strayed
  BY DEF KeyRender, KeyView

\* A handler that sends nothing names at most a key of a row.
LEMMA KeysTouched ==
    ASSUME KeysInv, NEW v \in KeyView, Touch(v), v.loading = view.loading,
           v.tangled = view.tangled, v.strayed = view.strayed, v.rows = view.rows, v.issued \in {None, view.issued},
           v.targetKey \in {None, view.targetKey} \cup {view.rows[i] : i \in Ids}
    PROVE  KeysInv'
<1>1. /\ view' = v /\ table' = table /\ calls' = calls /\ doubt' = doubt
      /\ HookCalls' = HookCalls /\ Live' = Live
  BY DEF Touch, HookCalls, Live
<1>2. KeysTyped'
  BY <1>1 DEF KeysInv, KeysTyped, KeysKnown, AllIn
<1>3. \A h \in HookCalls : h.op = "issue" /\ h.reply = "ok" => h.data # None
  BY NoneNoKey DEF KeysInv, KeysTyped, KeyCallOK, HookCalls
<1>4. \A k : k # None /\ Unnamed(k, view) => Unnamed(k, v)
  BY DEF Unnamed
<1>5. ~view.tangled => Guarded(HookCalls, v, Live)
  BY <1>3, <1>4 DEF KeysInv, Guarded, Secret
<1>6. Flagged(HookCalls', view')
  BY <1>1 DEF KeysInv, Flagged
<1>7. ~view.tangled => Clean(HookCalls', view'.rows, table'.active, doubt' \cup view'.strayed)
  BY <1>1 DEF KeysInv
<1> QED BY <1>1, <1>2, <1>5, <1>6, <1>7 DEF KeysInv

\* The hook's next request; the view is tangled from here on if it overlaps another.
LEMMA KeysSent ==
    ASSUME KeysInv, NEW c, KeyCallOK(c), c.op \in {"issue", "refresh", "revoke"},
           c.reply = "none", c.op = "revoke" => c.put = view.targetKey,
           calls' = calls \cup {c}, table' = table, doubt' = doubt,
           view' \in KeyView, view'.loading, view'.rows \in {view.rows, NoRows},
           view'.issued = view.issued, view'.targetKey = view.targetKey,
           view'.strayed = view.strayed,
           ~view'.tangled => ~view.tangled /\ ~view.loading
    PROVE  KeysInv'
<1>1. Live' = Live
  BY DEF Live
<1>2. AllIn(view'.rows, table.used \cup {None})
  BY DEF KeysInv, KeysTyped, KeysKnown, AllIn, NoRows
<1>3. KeysKnown(calls', view', table'.active, table'.used \cup {None})
  BY <1>2 DEF KeysInv, KeysTyped, KeysKnown, Loaded
<1>4. KeysTyped'
  BY <1>3 DEF KeysInv, KeysTyped
<1>5. ASSUME ~view'.tangled PROVE Guarded(HookCalls', view', Live')
  <2>1. Guarded(HookCalls, view, Live) /\ HookCalls = {}
    BY <1>5 DEF KeysInv, Guarded
  <2>2. HookCalls' = {c}
    BY <2>1 DEF HookCalls
  <2>3. ASSUME view.issued # None PROVE Secret(view.issued, Live, view')
    <3>1. Secret(view.issued, Live, view)
      BY <2>1, <2>3 DEF Guarded
    <3> QED BY <2>3, <3>1 DEF Secret, Unnamed, NoRows
  <2>4. view.issued # None => view.targetKey # view.issued
    BY <2>3 DEF Secret, Unnamed
  <2> QED BY <1>1, <2>2, <2>3, <2>4 DEF Guarded
<1>6. c \in HookCalls'
  BY DEF HookCalls
<1>7. ASSUME ~view'.tangled
      PROVE  Clean(HookCalls', view'.rows, table'.active, doubt' \cup view'.strayed)
  <2>1. /\ Clean(HookCalls, view.rows, table.active, doubt \cup view.strayed)
        /\ HookCalls = {}
    BY <1>7 DEF KeysInv, Guarded
  <2>2. HookCalls' = {c} /\ ~Loaded(c)
    BY <2>1 DEF HookCalls, Loaded
  <2>3. Truthful(view.rows, table.active, doubt \cup view.strayed)
    BY <2>1 DEF Clean, Truthful, Revoking
  <2>4. Truthful(view'.rows, table.active, doubt \cup view.strayed)
    BY <2>3 DEF Truthful, NoRows
  <2> QED BY <2>2, <2>4 DEF Clean, Truthful
<1> QED BY <1>4, <1>5, <1>6, <1>7 DEF KeysInv, Flagged

LEMMA IssueKeyStep ==
    ASSUME KeysInv, IssueKey
    PROVE  KeysInv'
<1>1. view \in KeyView /\ view.devices \subseteq Ids
  BY DEF KeysInv, KeysTyped, KeyView
<1>2. PickableDevices \subseteq Ids
  BY <1>1 DEF PickableDevices
<1>3. ~view.loading /\ Selected \in Ids
  BY <1>2, BrowserAssumption
  DEF IssueKey, KeyCreateModal, Modal, ApiKeyReveal, ApiKeyForm, Dropdown, Button, Selected
<1> PICK c : c = Request("issue", Selected, None)
  OBVIOUS
<1> PICK v : v = [view EXCEPT !.loading = TRUE]
  OBVIOUS
<1>4. IsMessage(c) /\ c.op = "issue" /\ c.id = Selected /\ c.reply = "none"
  BY DEF Request, Message, IsMessage
<1>5. KeyCallOK(c)
  BY <1>3, <1>4 DEF KeyCallOK
<1>6. /\ v \in KeyView /\ v.loading = TRUE /\ v.rows = view.rows /\ v.issued = view.issued
      /\ v.targetKey = view.targetKey /\ v.tangled = view.tangled /\ v.strayed = view.strayed
  BY <1>1 DEF KeyView
<1>7. calls' = calls \cup {c} /\ view' = KeyRender(v) /\ table' = table /\ doubt' = doubt
  BY DEF IssueKey, Send
<1>8. /\ view' \in KeyView /\ view'.loading = TRUE /\ view'.rows = view.rows
      /\ view'.issued = view.issued /\ view'.strayed = view.strayed
      /\ view'.targetKey = view.targetKey /\ view'.tangled = view.tangled
  BY <1>6, <1>7, KeyRendered
<1> QED BY <1>3, <1>4, <1>5, <1>7, <1>8, KeysSent

LEMMA SavedKeyStep ==
    ASSUME KeysInv, SavedKey
    PROVE  KeysInv'
<1>1. view \in KeyView
  BY DEF KeysInv, KeysTyped
<1> PICK c : c = Request("refresh", None, None)
  OBVIOUS
<1> PICK v : v = [view EXCEPT !.loading = TRUE, !.rows = NoRows,
                              !.tangled = @ \/ view.loading]
  OBVIOUS
<1>2. IsMessage(c) /\ c.op = "refresh" /\ c.reply = "none"
  BY DEF Request, Message, IsMessage
<1>3. KeyCallOK(c)
  BY <1>2 DEF KeyCallOK
<1>4. NoRows \in KeyRows
  BY DEF NoRows, KeyRows
<1>5. /\ v \in KeyView /\ v.loading = TRUE /\ v.rows = NoRows /\ v.issued = view.issued
      /\ v.targetKey = view.targetKey /\ (v.tangled <=> view.tangled \/ view.loading)
      /\ v.strayed = view.strayed
  BY <1>1, <1>4 DEF KeyView
<1>6. calls' = calls \cup {c} /\ view' = KeyRender(v) /\ table' = table /\ doubt' = doubt
  BY DEF SavedKey, Send
<1>7. /\ view' \in KeyView /\ view'.loading = TRUE /\ view'.rows = NoRows
      /\ view'.issued = view.issued /\ view'.strayed = view.strayed
      /\ view'.targetKey = view.targetKey /\ view'.tangled = v.tangled
  BY <1>5, <1>6, KeyRendered
<1>8. ~view'.tangled => ~view.tangled /\ ~view.loading
  BY <1>5, <1>7
<1> QED BY <1>2, <1>3, <1>6, <1>7, <1>8, KeysSent

LEMMA RevokeKeyStep ==
    ASSUME KeysInv, RevokeKey
    PROVE  KeysInv'
<1>1. view \in KeyView
  BY DEF KeysInv, KeysTyped
<1>2. ~view.loading /\ view.target \in Ids
  BY <1>1 DEF RevokeKey, KeyRevokeModal, ConfirmActionModal, Modal, Button, Input, KeyView
<1> PICK c : c = Request("revoke", view.target, view.targetKey)
  OBVIOUS
<1>3. /\ IsMessage(c) /\ c.op = "revoke" /\ c.id = view.target /\ c.put = view.targetKey
      /\ c.reply = "none"
  BY DEF Request, Message, IsMessage
<1>4. KeyCallOK(c)
  BY <1>1, <1>2, <1>3 DEF KeyCallOK, KeyView
<1>5. /\ calls' = calls \cup {c} /\ view' = [view EXCEPT !.loading = TRUE]
      /\ table' = table /\ doubt' = doubt
  BY DEF RevokeKey, Send
<1>6. /\ view' \in KeyView /\ view'.loading = TRUE /\ view'.rows = view.rows
      /\ view'.issued = view.issued /\ view'.strayed = view.strayed
      /\ view'.targetKey = view.targetKey /\ view'.tangled = view.tangled
  BY <1>1, <1>5 DEF KeyView
<1> QED BY <1>2, <1>3, <1>4, <1>5, <1>6, KeysSent

\* The dialogs and the form.
LEMMA KeysClickStep ==
    ASSUME KeysInv,
           \/ OpenCreateKey \/ CloseCreateKey \/ ToggleMenu \/ CopyKey \/ CloseRevoke
           \/ \E d \in Ids : PickDevice(d) \/ OpenRevoke(d)
    PROVE  KeysInv'
<1>1. view \in KeyView
  BY DEF KeysInv, KeysTyped
<1> DEFINE Calm(v) ==
        /\ v \in KeyView /\ v.loading = view.loading /\ v.tangled = view.tangled
        /\ v.rows = view.rows /\ v.issued \in {None, view.issued} /\ v.strayed = view.strayed
        /\ v.targetKey \in {None, view.targetKey} \cup {view.rows[i] : i \in Ids}
<1>2. ASSUME NEW v, Calm(v), Touch(v) PROVE KeysInv'
  BY <1>2, KeysTouched
<1>3. CASE OpenCreateKey
  <2> PICK v : v = [view EXCEPT !.createOpen = TRUE]
    OBVIOUS
  <2>1. Calm(v)
    BY <1>1 DEF KeyView
  <2>2. Touch(v)
    BY <1>3 DEF OpenCreateKey
  <2> QED BY <1>2, <2>1, <2>2
<1>4. CASE CloseCreateKey
  <2> PICK w : w = CloseCreate(view)
    OBVIOUS
  <2> PICK v : v = KeyRender(w)
    OBVIOUS
  <2>1. /\ w \in KeyView /\ w.loading = view.loading /\ w.tangled = view.tangled
        /\ w.rows = view.rows /\ w.issued = None /\ w.targetKey = view.targetKey
        /\ w.strayed = view.strayed
    BY <1>1 DEF KeyView, CloseCreate
  <2>2. Calm(v)
    BY <2>1, KeyRendered
  <2>3. Touch(v)
    BY <1>4 DEF CloseCreateKey
  <2> QED BY <1>2, <2>2, <2>3
<1>5. CASE ToggleMenu
  <2> PICK v : v = [view EXCEPT !.menu = ~@]
    OBVIOUS
  <2>1. Calm(v)
    BY <1>1 DEF KeyView
  <2>2. Touch(v)
    BY <1>5 DEF ToggleMenu
  <2> QED BY <1>2, <2>1, <2>2
<1>6. CASE CopyKey
  <2> PICK r \in {"copied", "failed"} : Touch([view EXCEPT !.said = r])
    BY <1>6 DEF CopyKey
  <2> PICK v : v = [view EXCEPT !.said = r]
    OBVIOUS
  <2>1. Calm(v)
    BY <1>1 DEF KeyView
  <2> QED BY <1>2, <2>1
<1>7. CASE CloseRevoke
  <2> PICK v : v = NoRevoke(view)
    OBVIOUS
  <2>1. Calm(v)
    BY <1>1 DEF KeyView, NoRevoke
  <2>2. Touch(v)
    BY <1>7 DEF CloseRevoke
  <2> QED BY <1>2, <2>1, <2>2
<1>8. ASSUME NEW d \in Ids, PickDevice(d) PROVE KeysInv'
  <2> PICK v : v = [view EXCEPT !.picked = d, !.menu = FALSE]
    OBVIOUS
  <2>1. Calm(v)
    BY <1>1 DEF KeyView
  <2>2. Touch(v)
    BY <1>8 DEF PickDevice
  <2> QED BY <1>2, <2>1, <2>2
<1>9. ASSUME NEW d \in Ids, OpenRevoke(d) PROVE KeysInv'
  <2> PICK v : v = [view EXCEPT !.target = d, !.targetKey = view.rows[d]]
    OBVIOUS
  <2>1. view.rows[d] \in Keys \cup {None}
    BY <1>1 DEF KeyView, KeyRows
  <2>2. Calm(v)
    BY <1>1, <2>1 DEF KeyView
  <2>3. Touch(v)
    BY <1>9 DEF OpenRevoke
  <2> QED BY <1>2, <2>2, <2>3
<1> QED BY <1>3, <1>4, <1>5, <1>6, <1>7, <1>8, <1>9

LEMMA KeysVisitorStep ==
    ASSUME KeysInv, KeyTableVisitor
    PROVE  KeysInv'
  BY IssueKeyStep, SavedKeyStep, RevokeKeyStep, KeysClickStep DEF KeyTableVisitor

-----------------------------------------------------------------------------
(* The answers.                                                            *)

\* The hook's request is through: with none other in flight, a secret on
\* display has to be one still.
LEMMA KeysFinished ==
    ASSUME KeysInv, NEW c \in calls, c.op # "devices", NEW v \in KeyView, KeyAnswer(c, v),
           v.tangled = view.tangled, ~v.loading,
           AllIn(v.rows, table.used \cup {None}), v.targetKey \in table.used \cup {None},
           ~view.tangled /\ v.issued # None => Secret(v.issued, Live, v),
           ~view.tangled => Truthful(v.rows, table.active, doubt \cup v.strayed)
    PROVE  KeysInv'
<1>1. calls' = calls \ {c} /\ view' = KeyRender(v) /\ table' = table /\ doubt' = doubt
  BY DEF KeyAnswer, Finish
<1>2. /\ view' \in KeyView /\ view'.loading = v.loading /\ view'.rows = v.rows
      /\ view'.issued = v.issued /\ view'.targetKey = v.targetKey
      /\ view'.tangled = v.tangled /\ view'.strayed = v.strayed
  BY <1>1, KeyRendered
<1>3. c \in HookCalls
  BY DEF KeysInv, KeysTyped, KeyCallOK, HookCalls
<1>4. KeysTyped'
  BY <1>1, <1>2 DEF KeysInv, KeysTyped, KeysKnown
<1>5. ASSUME ~view.tangled
      PROVE  /\ Guarded(HookCalls', view', Live')
             /\ Clean(HookCalls', view'.rows, table'.active, doubt' \cup view'.strayed)
  <2>1. HookCalls = {c}
    BY <1>3, <1>5 DEF KeysInv, Guarded
  <2>2. HookCalls' = {}
    BY <1>1, <2>1, HookTaken
  <2>3. Live' = Live
    BY <1>1 DEF Live
  <2>4. v.issued # None => Secret(v.issued, Live, view')
    BY <1>2, <1>5 DEF Secret, Unnamed
  <2>5. Guarded(HookCalls', view', Live')
    BY <1>2, <2>2, <2>3, <2>4 DEF Guarded
  <2>6. Clean(HookCalls', view'.rows, table'.active, doubt' \cup view'.strayed)
    BY <1>1, <1>2, <1>5, <2>2 DEF Clean, Truthful
  <2> QED BY <2>5, <2>6
<1> QED BY <1>2, <1>4, <1>5 DEF KeysInv, Flagged

\* While the hook's request revokes nothing, the rows shown are of live keys.
LEMMA RowsTruthful ==
    ASSUME KeysInv, NEW c \in HookCalls, ~view.tangled
    PROVE  /\ HookCalls = {c} /\ \A d \in Ids : Revoking(HookCalls, d, view.rows[d]) =>
                                     c.op = "revoke" /\ c.id = d /\ c.put = view.rows[d]
           /\ c.op # "revoke" => Truthful(view.rows, table.active, doubt \cup view.strayed)
<1>1. HookCalls = {c}
  BY DEF KeysInv, Guarded
<1> QED BY <1>1 DEF KeysInv, Clean, Truthful, Revoking

LEMMA KeysFailedStep ==
    ASSUME KeysInv, NEW c \in calls, c.op \notin {"devices", "revoke"}, KeysFailed(c)
    PROVE  KeysInv'
<1> PICK v : v = [KeysIdle(view) EXCEPT !.said = "failed"]
  OBVIOUS
<1>1. /\ v \in KeyView /\ v.loading = FALSE /\ v.rows = view.rows /\ v.issued = view.issued
      /\ v.targetKey = view.targetKey /\ v.tangled = view.tangled /\ v.strayed = view.strayed
  BY DEF KeysInv, KeysTyped, KeyView, KeysIdle
<1>2. KeyAnswer(c, v)
  BY DEF KeysFailed
<1>3. AllIn(v.rows, table.used \cup {None}) /\ v.targetKey \in table.used \cup {None}
  BY <1>1 DEF KeysInv, KeysTyped, KeysKnown
<1>4. ~view.tangled /\ v.issued # None => Secret(v.issued, Live, v)
  BY <1>1 DEF KeysInv, Guarded, Secret, Unnamed
<1>5. c \in HookCalls
  BY DEF KeysInv, KeysTyped, KeyCallOK, HookCalls
<1>6. ~view.tangled => Truthful(v.rows, table.active, doubt \cup v.strayed)
  BY <1>1, <1>5, RowsTruthful
<1> QED BY <1>1, <1>2, <1>3, <1>4, <1>6, KeysFinished

\* Rows that come from the server: no secret is left on display.
LEMMA RowsLoadedStep ==
    ASSUME KeysInv, NEW c \in calls, Loaded(c), NEW v \in KeyView, KeyAnswer(c, v),
           v.tangled = view.tangled, v.strayed = view.strayed, ~v.loading, v.rows = c.data,
           v.targetKey = view.targetKey, ~view.tangled => v.issued = None
    PROVE  KeysInv'
<1>1. AllIn(v.rows, table.used \cup {None}) /\ v.targetKey \in table.used \cup {None}
  BY DEF KeysInv, KeysTyped, KeysKnown
<1>2. c.op # "devices" /\ c \in HookCalls
  BY DEF Loaded, HookCalls
<1>3. ~view.tangled => Truthful(v.rows, table.active, doubt \cup v.strayed)
  BY <1>2 DEF KeysInv, Clean
<1> QED BY <1>1, <1>2, <1>3, KeysFinished

LEMMA KeysLoadedStep ==
    ASSUME KeysInv, NEW c \in calls, c.op = "list", KeysLoaded(c)
    PROVE  KeysInv'
<1>1. CASE c.reply # "ok"
  BY <1>1, KeysFailedStep DEF KeysLoaded
<1>2. CASE c.reply = "ok"
  <2> PICK v : v = [KeysIdle(view) EXCEPT !.rows = c.data]
    OBVIOUS
  <2>1. Loaded(c) /\ c.data \in KeyRows /\ view \in KeyView /\ c \in HookCalls
    BY <1>2 DEF Loaded, KeysInv, KeysTyped, KeyCallOK, HookCalls
  <2>2. /\ v \in KeyView /\ v.loading = FALSE /\ v.rows = c.data /\ v.issued = view.issued
        /\ v.targetKey = view.targetKey /\ v.tangled = view.tangled /\ v.strayed = view.strayed
    BY <2>1 DEF KeyView, KeysIdle
  <2>3. KeyAnswer(c, v)
    BY <1>2 DEF KeysLoaded
  <2>4. ~view.tangled => v.issued = None
    BY <2>1, <2>2 DEF KeysInv, Guarded
  <2> QED BY <2>1, <2>2, <2>3, <2>4, RowsLoadedStep
<1> QED BY <1>1, <1>2

LEMMA KeysRefreshedStep ==
    ASSUME KeysInv, NEW c \in calls, c.op = "refresh", KeysRefreshed(c)
    PROVE  KeysInv'
<1>1. CASE c.reply # "ok"
  BY <1>1, KeysFailedStep DEF KeysRefreshed
<1>2. CASE c.reply = "ok"
  <2> PICK w : w = [KeysIdle(view) EXCEPT !.rows = c.data]
    OBVIOUS
  <2> PICK v : v = CloseCreate(w)
    OBVIOUS
  <2>1. Loaded(c) /\ c.data \in KeyRows /\ view \in KeyView
    BY <1>2 DEF Loaded, KeysInv, KeysTyped, KeyCallOK
  <2>2. /\ w \in KeyView /\ w.loading = FALSE /\ w.rows = c.data
        /\ w.targetKey = view.targetKey /\ w.tangled = view.tangled /\ w.strayed = view.strayed
    BY <2>1 DEF KeyView, KeysIdle
  <2>3. /\ v \in KeyView /\ v.loading = FALSE /\ v.rows = c.data /\ v.issued = None
        /\ v.targetKey = view.targetKey /\ v.tangled = view.tangled /\ v.strayed = view.strayed
    BY <2>2 DEF KeyView, CloseCreate
  <2>4. KeyAnswer(c, v)
    BY <1>2 DEF KeysRefreshed
  <2> QED BY <2>1, <2>3, <2>4, RowsLoadedStep
<1> QED BY <1>1, <1>2

LEMMA KeyIssuedStep ==
    ASSUME KeysInv, NEW c \in calls, c.op = "issue", KeyIssued(c)
    PROVE  KeysInv'
<1>1. CASE c.reply # "ok"
  BY <1>1, KeysFailedStep DEF KeyIssued
<1>2. CASE c.reply = "ok"
  <2> PICK v : v = [KeysIdle(view) EXCEPT !.issued = c.data, !.said = "issued"]
    OBVIOUS
  <2>1. c.data \in Keys /\ view \in KeyView /\ c \in HookCalls
    BY <1>2 DEF KeysInv, KeysTyped, KeyCallOK, HookCalls
  <2>2. /\ v \in KeyView /\ v.loading = FALSE /\ v.rows = view.rows /\ v.issued = c.data
        /\ v.targetKey = view.targetKey /\ v.tangled = view.tangled /\ v.strayed = view.strayed
    BY <2>1 DEF KeyView, KeysIdle
  <2>3. KeyAnswer(c, v)
    BY <1>2 DEF KeyIssued
  <2>4. AllIn(v.rows, table.used \cup {None}) /\ v.targetKey \in table.used \cup {None}
    BY <2>2 DEF KeysInv, KeysTyped, KeysKnown
  <2>5. ~view.tangled => Secret(c.data, Live, v)
    BY <1>2, <2>1, <2>2 DEF KeysInv, Guarded, Secret, Unnamed
  <2>6. ~view.tangled => Truthful(v.rows, table.active, doubt \cup v.strayed)
    BY <2>1, <2>2, RowsTruthful
  <2> QED BY <2>2, <2>3, <2>4, <2>5, <2>6, KeysFinished
<1> QED BY <1>1, <1>2

LEMMA KeyRevokedStep ==
    ASSUME KeysInv, NEW c \in calls, c.op = "revoke", KeyRevoked(c)
    PROVE  KeysInv'
<1>0. c \in HookCalls /\ c.put \in Keys \cup {None}
  BY DEF KeysInv, KeysTyped, KeyCallOK, HookCalls
<1>1. CASE c.reply = "lost"
  <2> PICK S : S = view.strayed \cup {c.put}
    OBVIOUS
  <2> PICK v : v = [KeysIdle(view) EXCEPT !.said = "failed", !.strayed = S]
    OBVIOUS
  <2>1. view \in KeyView /\ S \in SUBSET (Keys \cup {None})
    BY <1>0 DEF KeysInv, KeysTyped, KeyView
  <2>2. /\ v \in KeyView /\ v.loading = FALSE /\ v.rows = view.rows /\ v.issued = view.issued
        /\ v.targetKey = view.targetKey /\ v.tangled = view.tangled /\ v.strayed = S
    BY <2>1 DEF KeyView, KeysIdle
  <2>3. KeyAnswer(c, v)
    BY <1>1, <2>1 DEF KeyRevoked, KeysIdle, KeyView
  <2>4. AllIn(v.rows, table.used \cup {None}) /\ v.targetKey \in table.used \cup {None}
    BY <2>2 DEF KeysInv, KeysTyped, KeysKnown
  <2>5. ~view.tangled /\ v.issued # None => Secret(v.issued, Live, v)
    BY <2>2 DEF KeysInv, Guarded, Secret, Unnamed
  <2>6. ASSUME ~view.tangled PROVE Truthful(v.rows, table.active, doubt \cup v.strayed)
    BY <1>0, <2>2, <2>6, RowsTruthful DEF KeysInv, Clean, Truthful
  <2> QED BY <2>2, <2>3, <2>4, <2>5, <2>6, KeysFinished
<1>2. CASE c.reply # "lost"
  <2>1. view \in KeyView /\ view.rows \in KeyRows /\ c.id \in Ids
    BY DEF KeysInv, KeysTyped, KeyView, KeyCallOK
  <2> PICK R : R = [view.rows EXCEPT ![c.id] = IF @ = c.put THEN None ELSE @]
    OBVIOUS
  <2>2. /\ R \in KeyRows /\ \A i \in Ids : R[i] \in {None, view.rows[i]}
        /\ R[c.id] # c.put \/ R[c.id] = None
    BY <2>1 DEF KeyRows
  <2> PICK w : w = NoRevoke(KeysIdle(view))
    OBVIOUS
  <2>3. /\ w \in KeyView /\ w.loading = FALSE /\ w.rows = view.rows /\ w.issued = view.issued
        /\ w.targetKey = None /\ w.tangled = view.tangled /\ w.strayed = view.strayed
    BY <2>1 DEF KeyView, NoRevoke, KeysIdle
  <2> PICK v : v = [w EXCEPT !.rows = R, !.said = "revoked"]
    OBVIOUS
  <2>4. /\ v \in KeyView /\ v.loading = FALSE /\ v.rows = R /\ v.issued = view.issued
        /\ v.targetKey = None /\ v.tangled = view.tangled /\ v.strayed = view.strayed
    <3>1. w \in KeyView /\ R \in KeyRows
      BY <2>2, <2>3
    <3>2. v \in KeyView
      BY <3>1 DEF KeyView
    <3>3. /\ v.loading = w.loading /\ v.rows = R /\ v.issued = w.issued
          /\ v.targetKey = w.targetKey /\ v.tangled = w.tangled /\ v.strayed = w.strayed
      BY <3>1 DEF KeyView
    <3> QED BY <2>3, <3>2, <3>3
  <2>5. KeyAnswer(c, [w EXCEPT !.rows[c.id] = IF @ = c.put THEN None ELSE @,
                               !.said = "revoked"])
    BY <1>2 DEF KeyRevoked
  <2>6. [w EXCEPT !.rows[c.id] = IF @ = c.put THEN None ELSE @, !.said = "revoked"] = v
    BY <2>3
  <2>7. KeyAnswer(c, v)
    BY <2>5, <2>6
  <2>8. AllIn(v.rows, table.used \cup {None}) /\ v.targetKey \in table.used \cup {None}
    BY <2>2, <2>4 DEF KeysInv, KeysTyped, KeysKnown, AllIn
  <2>9. ~view.tangled /\ v.issued # None => Secret(v.issued, Live, v)
    BY <2>2, <2>4 DEF KeysInv, Guarded, Secret, Unnamed
  <2>10. ASSUME ~view.tangled PROVE Truthful(v.rows, table.active, doubt \cup v.strayed)
    BY <1>0, <2>2, <2>4, <2>10, RowsTruthful DEF KeysInv, Clean, Truthful
  <2> QED BY <2>4, <2>7, <2>8, <2>9, <2>10, KeysFinished
<1> QED BY <1>1, <1>2

LEMMA KeyDevicesLoadedStep ==
    ASSUME KeysInv, NEW c \in calls, c.op = "devices", KeyDevicesLoaded(c)
    PROVE  KeysInv'
<1>1. view \in KeyView /\ KeyCallOK(c)
  BY DEF KeysInv, KeysTyped
<1> PICK v : v = IF c.reply = "ok" THEN [view EXCEPT !.devices = c.data]
                               ELSE [view EXCEPT !.said = "failed"]
  OBVIOUS
<1>2. KeyAnswer(c, v)
  BY DEF KeyDevicesLoaded
<1>3. /\ v \in KeyView /\ v.loading = view.loading /\ v.rows = view.rows
      /\ v.issued = view.issued /\ v.targetKey = view.targetKey /\ v.tangled = view.tangled
      /\ v.strayed = view.strayed
  BY <1>1 DEF KeyView, KeyCallOK
<1>4. calls' = calls \ {c} /\ view' = KeyRender(v) /\ table' = table /\ doubt' = doubt
  BY <1>2 DEF KeyAnswer, Finish
<1>5. /\ view' \in KeyView /\ view'.loading = view.loading /\ view'.rows = view.rows
      /\ view'.issued = view.issued /\ view'.targetKey = view.targetKey
      /\ view'.tangled = view.tangled /\ view'.strayed = view.strayed
  BY <1>3, <1>4, KeyRendered
<1>6. HookCalls' = HookCalls /\ Live' = Live
  BY <1>4 DEF HookCalls, Live
<1>7. KeysTyped'
  BY <1>4, <1>5 DEF KeysInv, KeysTyped, KeysKnown
<1>8. \A k : Secret(k, Live, view) => Secret(k, Live, view')
  BY <1>5 DEF Secret, Unnamed
<1>9. ~view.tangled => Guarded(HookCalls, view', Live)
  BY <1>5, <1>8 DEF KeysInv, Guarded
<1>10. ~view.tangled => Clean(HookCalls', view'.rows, table'.active, doubt' \cup view'.strayed)
  BY <1>4, <1>5, <1>6 DEF KeysInv
<1> QED BY <1>5, <1>6, <1>7, <1>9, <1>10 DEF KeysInv, Flagged

LEMMA KeysStep ==
    ASSUME KeysInv,
           \/ KeyTableServer \/ KeyTableAnswers \/ KeyTableVisitor
           \/ Lose \/ ElsewhereInKeys
    PROVE  KeysInv'
<1>1. KeyTableAnswers => KeysInv'
  BY KeysLoadedStep, KeysRefreshedStep, KeyDevicesLoadedStep, KeyIssuedStep, KeyRevokedStep
  DEF KeyTableAnswers
<1> QED BY <1>1, KeysServerStep, KeysVisitorStep, LoseKeysStep, ElsewhereInKeysStep
=============================================================================
