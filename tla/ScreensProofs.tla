---------------------------- MODULE ScreensProofs ----------------------------
(***************************************************************************)
(* Proofs about the two list screens, devices and users: whatever the      *)
(* visitor clicks, the server refuses and the network loses, at most one   *)
(* request is in flight, and what it changes is all that stands between    *)
(* the rows shown and the server's table.                                  *)
(***************************************************************************)
EXTENDS DeviceTable, UserTable, TLAPS

Rows == [Ids -> Names \cup {None}]
ListTable == [Ids -> Names \cup {"unborn", "gone"}]

IsMessage(c) ==
    c = [op |-> c.op, id |-> c.id, put |-> c.put, seen |-> c.seen, vetted |-> c.vetted,
         reply |-> c.reply, data |-> c.data, n |-> c.n]

\* A call and its answer carry what their handlers use.
ListCallOK(c) ==
    /\ IsMessage(c)
    /\ c.op \in {"list", "create", "update", "delete"}
    /\ c.reply \in {"none", "ok", "refused", "lost"}
    /\ c.reply = "none" => c.data = None
    /\ c.op = "list" => (c.reply = "ok" => c.data \in Rows)
    /\ c.op = "create" => /\ c.put \in Names /\ c.data \in Ids \cup {None}
                          /\ c.reply = "ok" => c.data \in Ids
    /\ c.op = "update" => /\ c.id \in Ids /\ c.put \in Names
                          /\ c.reply = "ok" => c.data \in Names
    /\ c.op = "delete" => c.id \in Ids /\ c.vetted

\* What the listing L is at i, in terms of the rows shown and the call in flight.
Reflected(c, rows, L, i) ==
    /\ c.op = "list" /\ c.reply = "ok" => c.data[i] = L[i]
    /\ c.op = "create" => L[i] = IF i = c.data THEN c.put ELSE rows[i]
    /\ c.op = "update" => /\ i # c.id \/ c.reply \in {"none", "refused"} => L[i] = rows[i]
                          /\ i = c.id /\ c.reply = "ok" => L[i] = c.data
    /\ c.op = "delete" => /\ i # c.id \/ c.reply = "none" => L[i] = rows[i]
                          /\ i = c.id /\ c.reply = "ok" => L[i] = None

Kept(c, rows) ==
    /\ c.op = "create" => c.seen = rows
    /\ c.op = "update" => rows[c.id] # None

\* Sure: the ids that are not in doubt.
Faithful(cs, rows, L, sure) ==
    /\ \A c \in cs, i \in sure : Reflected(c, rows, L, i)
    /\ cs = {} => \A i \in sure : rows[i] = L[i]

CallsOK(cs, rows) ==
    /\ \A c \in cs : ListCallOK(c) /\ Kept(c, rows)
    /\ \A c, d \in cs : c = d

ListScreen ==
    /\ table \in ListTable /\ doubt \subseteq Ids
    /\ CallsOK(calls, view.rows)
    /\ Faithful(calls, view.rows, Listing, Ids \ doubt)

-----------------------------------------------------------------------------
(* The server, the network and other sessions.                             *)

LEMMA NoneApart == None \notin Names /\ None \notin Ids /\ "unborn" \notin Names /\ "gone" \notin Names
  BY BrowserAssumption

LEMMA ListingValue ==
    /\ \A i \in Ids : Listing[i] = IF table[i] \in Names THEN table[i] ELSE None
    /\ Listing \in Rows
  BY DEF Listing, Rows

LEMMA ListingNext ==
    \A i \in Ids : Listing'[i] = IF table'[i] \in Names THEN table'[i] ELSE None
  BY DEF Listing

\* A call that is served, refused or lost remains the only one.
LEMMA StillAlone ==
    ASSUME ListScreen, NEW c \in calls, NEW d, ListCallOK(d),
           d.op = c.op, d.seen = c.seen, d.id = c.id,
           calls' = (calls \ {c}) \cup {d}, view' = view,
           table' \in ListTable, doubt' \subseteq Ids,
           \A i \in Ids \ doubt' : Reflected(d, view.rows, Listing', i)
    PROVE  ListScreen'
<1>1. calls' = {d}
  BY DEF ListScreen, CallsOK
<1>2. Kept(d, view.rows)
  BY DEF ListScreen, CallsOK, Kept
<1>3. CallsOK(calls', view'.rows)
  BY <1>1, <1>2 DEF CallsOK
<1>4. Faithful(calls', view'.rows, Listing', Ids \ doubt')
  BY <1>1 DEF Faithful
<1> QED BY <1>3, <1>4 DEF ListScreen

\* Of the rows that are sent the page is sure, and of those that are none.
LEMMA ServeRowsStep ==
    ASSUME ListScreen, NEW c \in calls, c.reply = "none", c.op = "list",
           NEW P \in SUBSET Ids, ServeRows(c, P)
    PROVE  ListScreen'
<1> PICK L : L = [i \in Ids |-> IF i \in P THEN Listing[i] ELSE None]
  OBVIOUS
<1> PICK d : d = [c EXCEPT !.reply = "ok", !.data = L]
  OBVIOUS
<1>1. ListCallOK(c)
  BY DEF ListScreen, CallsOK
<1>2. /\ IsMessage(d) /\ d.op = c.op /\ d.id = c.id /\ d.put = c.put /\ d.seen = c.seen
      /\ d.vetted = c.vetted /\ d.reply = "ok" /\ d.data = L
  BY <1>1 DEF ListCallOK, IsMessage
<1>3. /\ calls' = (calls \ {c}) \cup {d} /\ table' = table /\ view' = view
      /\ doubt' = DataTable(Listing) \ P
  BY DEF ServeRows, Respond
<1>4. ListCallOK(d)
  <2>1. L \in Rows
    BY ListingValue DEF Rows
  <2> QED BY <1>1, <1>2, <2>1 DEF ListCallOK
<1>5. \A i \in Ids \ doubt' : L[i] = Listing'[i]
  <2>1. \A i \in Ids : Listing'[i] = Listing[i]
    BY <1>3, ListingNext, ListingValue
  <2> QED BY <1>3, <2>1 DEF DataTable
<1>6. \A i \in Ids \ doubt' : Reflected(d, view.rows, Listing', i)
  BY <1>2, <1>5 DEF Reflected
<1>7. table' \in ListTable /\ doubt' \subseteq Ids
  BY <1>3 DEF ListScreen, DataTable
<1> QED BY <1>2, <1>3, <1>4, <1>6, <1>7, StillAlone

LEMMA ServeListStep ==
    ASSUME ListScreen, NEW c \in calls, c.reply = "none", c.op = "list",
           ServeList(c) \/ ServePage(c)
    PROVE  ListScreen'
<1>1. PICK P \in SUBSET Ids : ServeRows(c, P)
  BY DEF ServeList, ServePage, FirstPages, DataTable
<1> QED BY <1>1, ServeRowsStep

LEMMA RefuseStep ==
    ASSUME ListScreen, NEW c \in calls, c.reply = "none", Refuse(c)
    PROVE  ListScreen'
<1> PICK d : d = [c EXCEPT !.reply = "refused", !.data = None]
  OBVIOUS
<1>1. ListCallOK(c)
  BY DEF ListScreen, CallsOK
<1>2. /\ IsMessage(d) /\ d.op = c.op /\ d.id = c.id /\ d.put = c.put /\ d.seen = c.seen
      /\ d.vetted = c.vetted /\ d.reply = "refused" /\ d.data = None
  BY <1>1 DEF ListCallOK, IsMessage
<1>3. calls' = (calls \ {c}) \cup {d} /\ table' = table /\ view' = view /\ doubt' = doubt
  BY DEF Refuse, Respond
<1>4. ListCallOK(d)
  BY <1>1, <1>2 DEF ListCallOK
<1>5. \A i \in Ids : Listing'[i] = Listing[i]
  BY <1>3, ListingNext, ListingValue
<1>6. \A i \in Ids \ doubt : Reflected(c, view.rows, Listing, i)
  BY DEF ListScreen, Faithful
<1>7. \A i \in Ids \ doubt' : Reflected(d, view.rows, Listing', i)
  BY <1>1, <1>2, <1>3, <1>5, <1>6 DEF Reflected, ListCallOK
<1>8. table' \in ListTable /\ doubt' \subseteq Ids
  BY <1>3 DEF ListScreen
<1> QED BY <1>2, <1>3, <1>4, <1>7, <1>8, StillAlone

LEMMA ServeCreateStep ==
    ASSUME ListScreen, NEW c \in calls, c.reply = "none", c.op = "create", ServeCreate(c)
    PROVE  ListScreen'
<1> PICK k \in Ids : /\ table[k] = "unborn"
                     /\ Respond(c, "ok", k, [table EXCEPT ![k] = c.put])
  BY DEF ServeCreate
<1> PICK d : d = [c EXCEPT !.reply = "ok", !.data = k]
  OBVIOUS
<1>1. ListCallOK(c) /\ table \in ListTable /\ doubt \subseteq Ids
  BY DEF ListScreen, CallsOK
<1>2. /\ IsMessage(d) /\ d.op = c.op /\ d.id = c.id /\ d.put = c.put /\ d.seen = c.seen
      /\ d.vetted = c.vetted /\ d.reply = "ok" /\ d.data = k
  BY <1>1 DEF ListCallOK, IsMessage
<1>3. /\ calls' = (calls \ {c}) \cup {d} /\ view' = view /\ doubt' = doubt
      /\ table' = [table EXCEPT ![k] = c.put]
  BY DEF ServeCreate, Respond
<1>4. ListCallOK(d)
  BY <1>1, <1>2 DEF ListCallOK
<1>5. c.put \in Names /\ c.data = None
  BY <1>1 DEF ListCallOK
<1>6. table' \in ListTable
  BY <1>1, <1>3, <1>5 DEF ListTable
<1>7. \A i \in Ids : Listing'[i] = IF i = k THEN c.put ELSE Listing[i]
  BY <1>1, <1>3, <1>5, ListingNext, ListingValue DEF ListTable
<1>8. \A i \in Ids \ doubt : Reflected(c, view.rows, Listing, i)
  BY DEF ListScreen, Faithful
<1>9. \A i \in Ids \ doubt' : Reflected(d, view.rows, Listing', i)
  BY <1>2, <1>3, <1>5, <1>7, <1>8, NoneApart DEF Reflected
<1> QED BY <1>1, <1>2, <1>3, <1>4, <1>6, <1>9, StillAlone

LEMMA ServeUpdateStep ==
    ASSUME ListScreen, NEW c \in calls, c.reply = "none", c.op = "update", ServeUpdate(c)
    PROVE  ListScreen'
<1> PICK d : d = [c EXCEPT !.reply = "ok", !.data = c.put]
  OBVIOUS
<1>1. ListCallOK(c) /\ table \in ListTable /\ doubt \subseteq Ids
  BY DEF ListScreen, CallsOK
<1>2. /\ IsMessage(d) /\ d.op = c.op /\ d.id = c.id /\ d.put = c.put /\ d.seen = c.seen
      /\ d.vetted = c.vetted /\ d.reply = "ok" /\ d.data = c.put
  BY <1>1 DEF ListCallOK, IsMessage
<1>3. /\ calls' = (calls \ {c}) \cup {d} /\ view' = view /\ doubt' = doubt
      /\ table' = [table EXCEPT ![c.id] = c.put]
  BY DEF ServeUpdate, Respond
<1>4. ListCallOK(d)
  BY <1>1, <1>2 DEF ListCallOK
<1>5. c.put \in Names /\ c.id \in Ids
  BY <1>1 DEF ListCallOK
<1>6. table' \in ListTable
  BY <1>1, <1>3, <1>5 DEF ListTable
<1>7. \A i \in Ids : Listing'[i] = IF i = c.id THEN c.put ELSE Listing[i]
  BY <1>1, <1>3, <1>5, ListingNext, ListingValue DEF ListTable
<1>8. \A i \in Ids \ doubt : Reflected(c, view.rows, Listing, i)
  BY DEF ListScreen, Faithful
<1>9. \A i \in Ids \ doubt' : Reflected(d, view.rows, Listing', i)
  BY <1>2, <1>3, <1>7, <1>8 DEF Reflected
<1> QED BY <1>1, <1>2, <1>3, <1>4, <1>6, <1>9, StillAlone

LEMMA ServeDeleteStep ==
    ASSUME ListScreen, NEW c \in calls, c.reply = "none", c.op = "delete", ServeDelete(c)
    PROVE  ListScreen'
<1> PICK d : d = [c EXCEPT !.reply = "ok", !.data = None]
  OBVIOUS
<1>1. ListCallOK(c) /\ table \in ListTable /\ doubt \subseteq Ids
  BY DEF ListScreen, CallsOK
<1>2. /\ IsMessage(d) /\ d.op = c.op /\ d.id = c.id /\ d.put = c.put /\ d.seen = c.seen
      /\ d.vetted = c.vetted /\ d.reply = "ok" /\ d.data = None
  BY <1>1 DEF ListCallOK, IsMessage
<1>3. /\ calls' = (calls \ {c}) \cup {d} /\ view' = view /\ doubt' = doubt
      /\ table' = [table EXCEPT ![c.id] = "gone"]
  BY DEF ServeDelete, Respond
<1>4. ListCallOK(d) /\ c.id \in Ids
  BY <1>1, <1>2 DEF ListCallOK
<1>5. table' \in ListTable
  BY <1>1, <1>3, <1>4 DEF ListTable
<1>6. \A i \in Ids : Listing'[i] = IF i = c.id THEN None ELSE Listing[i]
  BY <1>1, <1>3, <1>4, NoneApart, ListingNext, ListingValue DEF ListTable
<1>7. \A i \in Ids \ doubt : Reflected(c, view.rows, Listing, i)
  BY DEF ListScreen, Faithful
<1>8. \A i \in Ids \ doubt' : Reflected(d, view.rows, Listing', i)
  BY <1>2, <1>3, <1>6, <1>7 DEF Reflected
<1> QED BY <1>1, <1>2, <1>3, <1>4, <1>5, <1>8, StillAlone

LEMMA LoseListStep ==
    ASSUME ListScreen, Lose
    PROVE  ListScreen'
<1> PICK c \in calls : /\ c.reply # "lost"
                       /\ calls' = (calls \ {c}) \cup {[c EXCEPT !.reply = "lost"]}
  BY DEF Lose
<1> PICK d : d = [c EXCEPT !.reply = "lost"]
  OBVIOUS
<1>1. ListCallOK(c) /\ table \in ListTable /\ doubt \subseteq Ids
  BY DEF ListScreen, CallsOK
<1>2. /\ IsMessage(d) /\ d.op = c.op /\ d.id = c.id /\ d.put = c.put /\ d.seen = c.seen
      /\ d.vetted = c.vetted /\ d.reply = "lost" /\ d.data = c.data
  BY <1>1 DEF ListCallOK, IsMessage
<1>3. /\ calls' = (calls \ {c}) \cup {d} /\ view' = view /\ doubt' = doubt /\ table' = table
  BY DEF Lose
<1>4. ListCallOK(d)
  BY <1>1, <1>2 DEF ListCallOK
<1>5. \A i \in Ids : Listing'[i] = Listing[i]
  BY <1>3, ListingNext, ListingValue
<1>6. \A i \in Ids \ doubt : Reflected(c, view.rows, Listing, i)
  BY DEF ListScreen, Faithful
<1>7. \A i \in Ids \ doubt' : Reflected(d, view.rows, Listing', i)
  BY <1>2, <1>3, <1>5, <1>6 DEF Reflected
<1> QED BY <1>1, <1>2, <1>3, <1>4, <1>7, StillAlone

LEMMA ElsewhereStep ==
    ASSUME ListScreen, ElsewhereInList
    PROVE  ListScreen'
<1> PICK k \in Ids :
      /\ \/ table[k] = "unborn" /\ \E n \in Names : table' = [table EXCEPT ![k] = n]
         \/ table[k] \in Names /\ \E n \in (Names \ {table[k]}) \cup {"gone"} :
                                      table' = [table EXCEPT ![k] = n]
      /\ doubt' = doubt \cup {k}
  BY DEF ElsewhereInList
<1>1. view' = view /\ calls' = calls
  BY DEF ElsewhereInList
<1>2. table \in ListTable /\ doubt' \subseteq Ids
  BY DEF ListScreen
<1>3. /\ table' \in ListTable
      /\ \A i \in Ids \ {k} : table'[i] = table[i]
  BY <1>2 DEF ListTable
<1>4. \A i \in Ids \ doubt' : Listing'[i] = Listing[i]
  BY <1>3, ListingNext, ListingValue
<1>5. \A c \in calls, i \in Ids \ doubt' : Reflected(c, view.rows, Listing', i)
  BY <1>4 DEF ListScreen, Faithful, Reflected
<1>6. calls = {} => \A i \in Ids \ doubt' : view.rows[i] = Listing'[i]
  BY <1>4 DEF ListScreen, Faithful
<1> QED BY <1>1, <1>2, <1>3, <1>5, <1>6 DEF ListScreen, Faithful

-----------------------------------------------------------------------------
(* The browser: handlers that send nothing, handlers that send, answers.   *)

LEMMA TouchList ==
    ASSUME ListScreen, view'.rows = view.rows, UNCHANGED <<table, calls, doubt>>
    PROVE  ListScreen'
<1>1. \A i \in Ids : Listing'[i] = Listing[i]
  BY ListingNext, ListingValue
<1> QED BY <1>1 DEF ListScreen, Faithful, Reflected

LEMMA SendList ==
    ASSUME ListScreen, calls = {}, NEW c, calls' = calls \cup {c}, view'.rows = view.rows,
           UNCHANGED <<table, doubt>>, ListCallOK(c), c.reply = "none", Kept(c, view.rows)
    PROVE  ListScreen' /\ calls' = {c}
<1>1. calls' = {c}
  OBVIOUS
<1>2. \A i \in Ids : Listing'[i] = Listing[i]
  BY ListingNext, ListingValue
<1>3. \A i \in Ids \ doubt : view.rows[i] = Listing[i]
  BY DEF ListScreen, Faithful
<1>4. \A i \in Ids \ doubt : Reflected(c, view.rows, Listing', i)
  BY <1>2, <1>3, NoneApart DEF Reflected, ListCallOK
<1>5. CallsOK(calls', view'.rows)
  BY <1>1 DEF CallsOK
<1>6. Faithful(calls', view'.rows, Listing', Ids \ doubt')
  BY <1>1, <1>4 DEF Faithful
<1> QED BY <1>1, <1>5, <1>6 DEF ListScreen

LEMMA AnswerList ==
    ASSUME ListScreen, NEW c \in calls, calls' = calls \ {c}, table' = table,
           doubt' \subseteq Ids, \A i \in Ids \ doubt' : view'.rows[i] = Listing[i]
    PROVE  ListScreen' /\ calls' = {}
<1>1. calls' = {}
  BY DEF ListScreen, CallsOK
<1>2. \A i \in Ids : Listing'[i] = Listing[i]
  BY ListingNext, ListingValue
<1>3. CallsOK(calls', view'.rows)
  BY <1>1 DEF CallsOK
<1>4. Faithful(calls', view'.rows, Listing', Ids \ doubt')
  BY <1>1, <1>2 DEF Faithful
<1> QED BY <1>1, <1>3, <1>4 DEF ListScreen

\* What an answer finds.
LEMMA Awaited ==
    ASSUME ListScreen, NEW c \in calls
    PROVE  /\ ListCallOK(c) /\ Kept(c, view.rows) /\ doubt \subseteq Ids
           /\ \A i \in Ids \ doubt : Reflected(c, view.rows, Listing, i)
  BY DEF ListScreen, CallsOK, Faithful

-----------------------------------------------------------------------------
(* The devices screen.                                                     *)

\* Once the name stands in the dialog, it was typed there.
Vetting ==
    view.target # None =>
        /\ view.target \in Ids /\ view.targetName # None
        /\ view.typed = view.targetName => view.vetted

DevicesInv ==
    /\ view \in DeviceView
    /\ ListScreen
    /\ view.loading <=> calls # {}
    /\ Vetting

LEMMA DevicesInit ==
    ASSUME DeviceTableInit, doubt = {}
    PROVE  DevicesInv
<1>1. view \in DeviceView /\ view.loading = TRUE /\ view.target = None
  BY DEF DeviceTableInit, DeviceView, NoRows
<1>2. /\ IsMessage(LoadDevices) /\ LoadDevices.op = "list" /\ LoadDevices.reply = "none"
      /\ LoadDevices.data = None /\ calls = {LoadDevices}
  BY DEF DeviceTableInit, LoadDevices, Message, IsMessage
<1>3. table \in ListTable
  BY DEF DeviceTableInit, ListTable
<1>4. CallsOK(calls, view.rows)
  BY <1>2 DEF CallsOK, ListCallOK, Kept
<1>5. Faithful(calls, view.rows, Listing, Ids \ doubt)
  BY <1>2 DEF Faithful, Reflected
<1> QED BY <1>1, <1>2, <1>3, <1>4, <1>5 DEF DevicesInv, ListScreen, Vetting

\* Server, network and other sessions leave the view alone.
LEMMA DevicesBehind ==
    ASSUME DevicesInv, ListScreen', view' = view, calls' = {} <=> calls = {}
    PROVE  DevicesInv'
  BY DEF DevicesInv, Vetting

LEMMA RespondKeepsView ==
    ASSUME NEW c \in calls,
           \/ ServeList(c) \/ ServePage(c) \/ ServeCreate(c) \/ ServeUpdate(c) \/ ServeDelete(c) \/ Refuse(c)
    PROVE  view' = view /\ calls' # {} /\ calls # {}
  BY DEF ServeList, ServePage, ServeRows, ServeCreate, ServeUpdate, ServeDelete, Refuse, Respond

LEMMA DevicesServed ==
    ASSUME DevicesInv, DeviceTableServer
    PROVE  DevicesInv'
<1> PICK c \in calls : Unserved(c) /\
        \/ c.op = "list" /\ ServePage(c)
        \/ c.op = "create" /\ ServeCreate(c)
        \/ c.op = "update" /\ ServeUpdate(c)
        \/ c.op = "delete" /\ ServeDelete(c)
        \/ Refuse(c)
  BY DEF DeviceTableServer
<1>1. ListScreen /\ c.reply = "none"
  BY DEF DevicesInv, Unserved
<1>2. ListScreen'
  BY <1>1, ServeListStep, ServeCreateStep, ServeUpdateStep, ServeDeleteStep, RefuseStep
<1> QED BY <1>2, RespondKeepsView, DevicesBehind

LEMMA DevicesFaults ==
    ASSUME DevicesInv, Lose \/ ElsewhereInList
    PROVE  DevicesInv'
<1>1. ListScreen'
  BY LoseListStep, ElsewhereStep DEF DevicesInv
<1>2. view' = view /\ (calls' = {} <=> calls = {})
  BY DEF Lose, ElsewhereInList
<1> QED BY <1>1, <1>2, DevicesBehind

\* A handler that sends nothing and leaves the hook's state alone.
LEMMA DevicesTouched ==
    ASSUME DevicesInv, NEW v \in DeviceView, Touch(v),
           v.rows = view.rows, v.loading = view.loading,
           v.target # None => /\ v.target \in Ids /\ v.targetName # None
                              /\ v.typed = v.targetName => v.vetted
    PROVE  DevicesInv'
<1>1. view' = v /\ UNCHANGED <<table, calls, doubt>>
  BY DEF Touch
<1>2. ListScreen'
  BY <1>1, TouchList DEF DevicesInv
<1> QED BY <1>1, <1>2 DEF DevicesInv, Vetting

\* A handler that sends: nothing may be in flight.
LEMMA DevicesSent ==
    ASSUME DevicesInv, ~view.loading, NEW c, Send(c, [view EXCEPT !.loading = TRUE]),
           ListCallOK(c), c.reply = "none", Kept(c, view.rows)
    PROVE  DevicesInv'
<1> PICK v : v = [view EXCEPT !.loading = TRUE]
  OBVIOUS
<1>1. /\ v \in DeviceView /\ v.loading = TRUE /\ v.rows = view.rows /\ v.target = view.target
      /\ v.targetName = view.targetName /\ v.typed = view.typed /\ v.vetted = view.vetted
  BY DEF DevicesInv, DeviceView
<1>2. view' = v /\ calls' = calls \cup {c} /\ UNCHANGED <<table, doubt>>
  BY DEF Send
<1>3. ListScreen' /\ calls' = {c}
  BY <1>1, <1>2, SendList DEF DevicesInv
<1> QED BY <1>1, <1>2, <1>3 DEF DevicesInv, Vetting

\* What a control being there says of the state.
LEMMA DeviceControls ==
    /\ "submit" \in DeviceCreateModal => ~view.loading
    /\ "confirm" \in DeviceDeleteModal =>
          ~view.loading /\ view.target # None /\ view.typed = view.targetName
    /\ "type" \in DeviceDeleteModal => view.target # None
    /\ \A d : "save" \in DeviceRow(d) => ~view.loading /\ d \in Ids /\ view.rows[d] # None
    /\ \A d : "delete" \in DeviceRow(d) => d \in Ids /\ view.rows[d] # None
<1> USE DEF Modal, Button, Input
<1>1. "submit" \in DeviceCreateModal => ~view.loading
  BY DEF DeviceCreateModal, DeviceForm
<1>2. /\ "confirm" \in DeviceDeleteModal =>
             ~view.loading /\ view.target # None /\ view.typed = view.targetName
      /\ "type" \in DeviceDeleteModal => view.target # None
  BY DEF DeviceDeleteModal, ConfirmActionModal
<1>3. /\ \A d : "save" \in DeviceRow(d) => ~view.loading /\ d \in Ids /\ view.rows[d] # None
      /\ \A d : "delete" \in DeviceRow(d) => d \in Ids /\ view.rows[d] # None
  BY DEF DeviceRow, DeviceTableRow, DeviceMobileCard, DataTable
<1> QED BY <1>1, <1>2, <1>3

LEMMA DevicesCreate ==
    ASSUME DevicesInv, NEW n \in Names, CreateDevice(n)
    PROVE  DevicesInv'
<1> PICK c : c = [Request("create", None, n) EXCEPT !.seen = view.rows]
  OBVIOUS
<1>1. /\ IsMessage(c) /\ c.op = "create" /\ c.put = n /\ c.seen = view.rows
      /\ c.reply = "none" /\ c.data = None
  BY DEF Request, Message, IsMessage
<1>2. ListCallOK(c) /\ Kept(c, view.rows)
  BY <1>1 DEF ListCallOK, Kept
<1>3. Send(c, [view EXCEPT !.loading = TRUE]) /\ "submit" \in DeviceCreateModal
  BY DEF CreateDevice
<1> QED BY <1>1, <1>2, <1>3, DeviceControls, DevicesSent

LEMMA DevicesSave ==
    ASSUME DevicesInv, NEW d \in Ids, SaveEdit(d)
    PROVE  DevicesInv'
<1> PICK c : c = Request("update", d, view.draft)
  OBVIOUS
<1>1. /\ IsMessage(c) /\ c.op = "update" /\ c.id = d /\ c.put = view.draft
      /\ c.reply = "none" /\ c.data = None
  BY DEF Request, Message, IsMessage
<1>2. /\ Send(c, [view EXCEPT !.loading = TRUE]) /\ "save" \in DeviceRow(d)
      /\ view.draft # None
  BY DEF SaveEdit
<1>3. view.draft \in Names
  BY <1>2 DEF DevicesInv, DeviceView
<1>4. ListCallOK(c) /\ Kept(c, view.rows) /\ ~view.loading
  BY <1>1, <1>2, <1>3, DeviceControls DEF ListCallOK, Kept
<1> QED BY <1>1, <1>2, <1>4, DevicesSent

LEMMA DevicesConfirm ==
    ASSUME DevicesInv, ConfirmDeleteDevice
    PROVE  DevicesInv'
<1> PICK c : c = [Request("delete", view.target, None) EXCEPT !.vetted = view.vetted]
  OBVIOUS
<1>1. /\ IsMessage(c) /\ c.op = "delete" /\ c.id = view.target /\ c.vetted = view.vetted
      /\ c.reply = "none" /\ c.data = None
  BY DEF Request, Message, IsMessage
<1>2. /\ Send(c, [view EXCEPT !.loading = TRUE]) /\ "confirm" \in DeviceDeleteModal
  BY DEF ConfirmDeleteDevice
<1>3. view.target \in Ids /\ view.vetted /\ ~view.loading
  BY <1>2, DeviceControls DEF DevicesInv, Vetting
<1>4. ListCallOK(c) /\ Kept(c, view.rows)
  BY <1>1, <1>3 DEF ListCallOK, Kept
<1> QED BY <1>1, <1>2, <1>3, <1>4, DevicesSent

LEMMA DevicesStartDelete ==
    ASSUME DevicesInv, NEW d \in Ids, StartDeleteDevice(d)
    PROVE  DevicesInv'
<1> PICK v : v = [view EXCEPT !.target = d, !.targetName = view.rows[d], !.typed = None,
                              !.vetted = FALSE]
  OBVIOUS
<1>1. /\ view.rows[d] # None /\ view.rows[d] \in Names \cup {None}
  BY DeviceControls DEF StartDeleteDevice, DevicesInv, DeviceView
<1>2. /\ v \in DeviceView /\ v.rows = view.rows /\ v.loading = view.loading
      /\ v.target = d /\ v.targetName = view.rows[d] /\ v.typed = None
  BY <1>1 DEF DevicesInv, DeviceView
<1>3. Touch(v)
  BY DEF StartDeleteDevice
<1> QED BY <1>1, <1>2, <1>3, DevicesTouched

LEMMA DevicesTypeName ==
    ASSUME DevicesInv, NEW n \in Names, TypeDeviceName(n)
    PROVE  DevicesInv'
<1> PICK same \in BOOLEAN : same <=> n = view.targetName
  OBVIOUS
<1> PICK v : v = [view EXCEPT !.typed = n, !.vetted = same]
  OBVIOUS
<1>1. /\ v \in DeviceView /\ v.rows = view.rows /\ v.loading = view.loading
      /\ v.target = view.target /\ v.targetName = view.targetName /\ v.typed = n
      /\ v.vetted = same
  BY DEF DevicesInv, DeviceView
<1>2. same = (n = view.targetName)
  OBVIOUS
<1>3. Touch(v)
  BY <1>2 DEF TypeDeviceName
<1>4. view.target # None => view.target \in Ids /\ view.targetName # None
  BY DEF DevicesInv, Vetting
<1> QED BY <1>1, <1>2, <1>3, <1>4, DevicesTouched

LEMMA DevicesDialogs ==
    ASSUME DevicesInv,
           \/ OpenCreateDevice \/ CloseCreateDevice \/ CancelEdit \/ CloseDeleteDevice
           \/ DeviceEscape
           \/ \E d \in Ids : StartEdit(d)
           \/ \E n \in Names \cup {None} : TypeEditName(n)
    PROVE  DevicesInv'
<1> USE DEF DevicesInv, DeviceView, Vetting
<1>1. PICK v : /\ Touch(v)
               /\ v \in DeviceView /\ v.rows = view.rows /\ v.loading = view.loading
               /\ \/ v.target = None
                  \/ /\ v.target = view.target /\ v.targetName = view.targetName
                     /\ v.typed = view.typed /\ v.vetted = view.vetted
  <2>1. CASE OpenCreateDevice \/ CloseCreateDevice
    <3> PICK b \in BOOLEAN : Touch([view EXCEPT !.createOpen = b])
      BY <2>1 DEF OpenCreateDevice, CloseCreateDevice
    <3> PICK v : v = [view EXCEPT !.createOpen = b]
      OBVIOUS
    <3>1. /\ v \in DeviceView /\ v.rows = view.rows /\ v.loading = view.loading
          /\ v.target = view.target /\ v.targetName = view.targetName
          /\ v.typed = view.typed /\ v.vetted = view.vetted
      OBVIOUS
    <3> QED BY <3>1
  <2>2. CASE CancelEdit \/ CloseDeleteDevice
    <3> PICK v : v \in {NoEdit(view), NoDelete(view)} /\ Touch(v)
      BY <2>2 DEF CancelEdit, CloseDeleteDevice
    <3>1. /\ v \in DeviceView /\ v.rows = view.rows /\ v.loading = view.loading
          /\ \/ v.target = None
             \/ /\ v.target = view.target /\ v.targetName = view.targetName
                /\ v.typed = view.typed /\ v.vetted = view.vetted
      BY DEF NoEdit, NoDelete
    <3> QED BY <3>1
  <2>4. CASE DeviceEscape
    <3> PICK w : /\ w \in {view, NoDelete([view EXCEPT !.createOpen = FALSE])}
                 /\ Touch(NoEdit(w))
      BY <2>4 DEF DeviceEscape
    <3>1. /\ w \in DeviceView /\ w.rows = view.rows /\ w.loading = view.loading
          /\ w = view \/ w.target = None
      BY DEF NoDelete
    <3>2. /\ NoEdit(w) \in DeviceView
          /\ NoEdit(w).rows = w.rows /\ NoEdit(w).loading = w.loading
          /\ NoEdit(w).target = w.target /\ NoEdit(w).targetName = w.targetName
          /\ NoEdit(w).typed = w.typed /\ NoEdit(w).vetted = w.vetted
      BY <3>1 DEF NoEdit
    <3> PICK v : v = NoEdit(w)
      OBVIOUS
    <3> QED BY <3>1, <3>2
  <2>5. CASE \/ \E d \in Ids : StartEdit(d)
             \/ \E n \in Names \cup {None} : TypeEditName(n)
    <3> PICK e \in Ids \cup {None}, n \in Names \cup {None} :
               Touch([view EXCEPT !.editing = e, !.draft = n])
      <4>1. CASE \E n \in Names \cup {None} : TypeEditName(n)
        <5> PICK n \in Names \cup {None} : Touch([view EXCEPT !.draft = n])
          BY <4>1 DEF TypeEditName
        <5>1. [view EXCEPT !.draft = n] = [view EXCEPT !.editing = view.editing, !.draft = n]
          OBVIOUS
        <5> QED BY <5>1
      <4>2. CASE \E d \in Ids : StartEdit(d)
        BY <4>2 DEF StartEdit
      <4> QED BY <2>5, <4>1, <4>2
    <3> PICK v : v = [view EXCEPT !.editing = e, !.draft = n]
      OBVIOUS
    <3>1. /\ v \in DeviceView /\ v.rows = view.rows /\ v.loading = view.loading
          /\ v.target = view.target /\ v.targetName = view.targetName
          /\ v.typed = view.typed /\ v.vetted = view.vetted
      OBVIOUS
    <3> QED BY <3>1
  <2> QED BY <2>1, <2>2, <2>4, <2>5
<1> QED BY <1>1, DevicesTouched

LEMMA DevicesAnswered ==
    ASSUME DevicesInv, NEW c \in calls, NEW v \in DeviceView, NEW D \in SUBSET Ids,
           Finish(c, v, D), v.loading = FALSE,
           \A i \in Ids \ (doubt \cup D) : v.rows[i] = Listing[i],
           \/ v.target = None
           \/ /\ v.target = view.target /\ v.targetName = view.targetName
              /\ v.typed = view.typed /\ v.vetted = view.vetted
    PROVE  DevicesInv'
<1>1. /\ view' = v /\ calls' = calls \ {c} /\ table' = table /\ doubt' = doubt \cup D
  BY DEF Finish
<1>2. ListScreen' /\ calls' = {}
  BY <1>1, AnswerList, Awaited DEF DevicesInv
<1> QED BY <1>1, <1>2 DEF DevicesInv, Vetting

\* A failure changes no row: what it may have changed is in doubt.
LEMMA DevicesFailed ==
    ASSUME DevicesInv, NEW c \in calls, NEW D \in SUBSET Ids,
           Finish(c, [Idle(view) EXCEPT !.said = "failed"], D),
           \A i \in Ids \ (doubt \cup D) : view.rows[i] = Listing[i]
    PROVE  DevicesInv'
<1> PICK v : v = [Idle(view) EXCEPT !.said = "failed"]
  OBVIOUS
<1>1. /\ v \in DeviceView /\ v.loading = FALSE /\ v.rows = view.rows
      /\ v.target = view.target /\ v.targetName = view.targetName
      /\ v.typed = view.typed /\ v.vetted = view.vetted
  BY DEF DevicesInv, DeviceView, Idle
<1> QED BY <1>1, DevicesAnswered

LEMMA DevicesListAnswer ==
    ASSUME DevicesInv, NEW c \in calls, c.op = "list", DevicesLoaded(c)
    PROVE  DevicesInv'
<1>0. /\ ListCallOK(c) /\ \A i \in Ids \ doubt : Reflected(c, view.rows, Listing, i)
  BY Awaited DEF DevicesInv
<1>1. CASE c.reply = "ok"
  <2> PICK v : v = [Idle(view) EXCEPT !.rows = c.data]
    OBVIOUS
  <2>1. c.data \in Rows /\ \A i \in Ids \ doubt : c.data[i] = Listing[i]
    BY <1>0, <1>1 DEF ListCallOK, Reflected
  <2>2. /\ v \in DeviceView /\ v.loading = FALSE /\ v.rows = c.data
        /\ v.target = view.target /\ v.targetName = view.targetName
        /\ v.typed = view.typed /\ v.vetted = view.vetted
    BY <2>1 DEF DevicesInv, DeviceView, Idle, Rows
  <2>3. Finish(c, v, {})
    BY <1>1 DEF DevicesLoaded
  <2> QED BY <2>1, <2>2, <2>3, DevicesAnswered
<1>2. CASE c.reply # "ok"
  BY <1>2, DevicesFailed DEF DevicesLoaded
<1> QED BY <1>1, <1>2

LEMMA DevicesCreateAnswer ==
    ASSUME DevicesInv, NEW c \in calls, c.op = "create", DeviceCreated(c)
    PROVE  DevicesInv'
<1>0. /\ ListCallOK(c) /\ Kept(c, view.rows)
      /\ \A i \in Ids \ doubt : Reflected(c, view.rows, Listing, i)
  BY Awaited DEF DevicesInv
<1>1. \A i \in Ids \ doubt : Listing[i] = IF i = c.data THEN c.put ELSE view.rows[i]
  BY <1>0 DEF Reflected
<1>2. CASE c.reply = "ok"
  <2> PICK v : v = [Idle(view) EXCEPT !.rows = [c.seen EXCEPT ![c.data] = c.put],
                                      !.createOpen = FALSE, !.said = "created"]
    OBVIOUS
  <2>1. c.data \in Ids /\ c.put \in Names /\ c.seen = view.rows
    BY <1>0, <1>2 DEF ListCallOK, Kept
  <2>2. /\ v \in DeviceView /\ v.loading = FALSE
        /\ v.rows = [view.rows EXCEPT ![c.data] = c.put]
        /\ v.target = view.target /\ v.targetName = view.targetName
        /\ v.typed = view.typed /\ v.vetted = view.vetted
    BY <2>1 DEF DevicesInv, DeviceView, Idle
  <2>3. \A i \in Ids \ doubt : v.rows[i] = Listing[i]
    BY <1>1, <2>1, <2>2 DEF DevicesInv, DeviceView
  <2>4. Finish(c, v, {})
    BY <1>2 DEF DeviceCreated
  <2> QED BY <2>2, <2>3, <2>4, DevicesAnswered
<1>3. CASE c.reply # "ok"
  <2>1. {c.data} \ {None} \in SUBSET Ids
    BY <1>0 DEF ListCallOK
  <2>2. \A i \in Ids \ (doubt \cup ({c.data} \ {None})) : view.rows[i] = Listing[i]
    BY <1>1, NoneApart
  <2>3. Finish(c, [Idle(view) EXCEPT !.said = "failed"], {c.data} \ {None})
    BY <1>3 DEF DeviceCreated
  <2> QED BY <2>1, <2>2, <2>3, DevicesFailed
<1> QED BY <1>2, <1>3

LEMMA DevicesUpdateAnswer ==
    ASSUME DevicesInv, NEW c \in calls, c.op = "update", c.reply # "none",
           DeviceUpdated(c)
    PROVE  DevicesInv'
<1>0. /\ ListCallOK(c) /\ Kept(c, view.rows)
      /\ \A i \in Ids \ doubt : Reflected(c, view.rows, Listing, i)
  BY Awaited DEF DevicesInv
<1>1. c.id \in Ids /\ view.rows[c.id] # None
  BY <1>0 DEF ListCallOK, Kept
<1>2. \A i \in Ids \ doubt :
         /\ i # c.id \/ c.reply = "refused" => Listing[i] = view.rows[i]
         /\ i = c.id /\ c.reply = "ok" => Listing[i] = c.data
  BY <1>0 DEF Reflected
<1>3. CASE c.reply = "ok"
  <2> PICK w : w = [view.rows EXCEPT ![c.id] = IF @ = None THEN None ELSE c.data]
    OBVIOUS
  <2> PICK v : v = [NoEdit(Idle(view)) EXCEPT
                       !.rows[c.id] = IF @ = None THEN None ELSE c.data, !.said = "updated"]
    OBVIOUS
  <2>1. c.data \in Names /\ view.rows \in Rows
    BY <1>0, <1>3 DEF ListCallOK, DevicesInv, DeviceView, Rows
  <2>2. w \in Rows /\ w = [view.rows EXCEPT ![c.id] = c.data]
    BY <1>1, <2>1 DEF Rows
  <2>3. v.rows = w /\ v = [NoEdit(Idle(view)) EXCEPT !.rows = w, !.said = "updated"]
    BY DEF DevicesInv, DeviceView, NoEdit, Idle
  <2>4. /\ v \in DeviceView /\ v.loading = FALSE
        /\ v.target = view.target /\ v.targetName = view.targetName
        /\ v.typed = view.typed /\ v.vetted = view.vetted
    BY <2>2, <2>3 DEF DevicesInv, DeviceView, NoEdit, Idle, Rows
  <2>5. \A i \in Ids \ doubt : v.rows[i] = Listing[i]
    BY <1>1, <1>2, <1>3, <2>1, <2>2, <2>3 DEF Rows
  <2>6. Finish(c, v, {})
    BY <1>3 DEF DeviceUpdated
  <2> QED BY <2>4, <2>5, <2>6, DevicesAnswered
<1>4. CASE c.reply # "ok"
  <2> PICK D \in SUBSET Ids : D = IF c.reply = "lost" THEN {c.id} ELSE {}
    BY <1>1
  <2>1. Finish(c, [Idle(view) EXCEPT !.said = "failed"], D)
    BY <1>4 DEF DeviceUpdated
  <2>2. \A i \in Ids \ (doubt \cup D) : view.rows[i] = Listing[i]
    BY <1>0, <1>2, <1>4 DEF ListCallOK
  <2> QED BY <2>1, <2>2, DevicesFailed
<1> QED BY <1>3, <1>4

\* Refused or not, the row goes.
LEMMA DevicesDeleteAnswer ==
    ASSUME DevicesInv, NEW c \in calls, c.op = "delete", c.reply # "none", DeviceDeleted(c)
    PROVE  DevicesInv'
<1>0. /\ ListCallOK(c) /\ c.id \in Ids
      /\ \A i \in Ids \ doubt : Reflected(c, view.rows, Listing, i)
  BY Awaited DEF DevicesInv, ListCallOK
<1>1. \A i \in Ids \ doubt :
         /\ i # c.id => Listing[i] = view.rows[i]
         /\ i = c.id /\ c.reply = "ok" => Listing[i] = None
  BY <1>0 DEF Reflected
<1>2. CASE c.reply # "lost"
  <2> PICK v : v = [NoDelete(Idle(view)) EXCEPT !.rows[c.id] = None, !.said = "deleted"]
    OBVIOUS
  <2> PICK D \in SUBSET Ids : D = IF c.reply = "refused" THEN {c.id} ELSE {}
    BY <1>0
  <2>1. v \in DeviceView /\ v.loading = FALSE /\ v.target = None
    BY <1>0 DEF DevicesInv, DeviceView, NoDelete, Idle
  <2>2. view.rows \in Rows /\ v.rows = [view.rows EXCEPT ![c.id] = None]
    BY DEF DevicesInv, DeviceView, NoDelete, Idle, Rows
  <2>3. \A i \in Ids \ (doubt \cup D) : v.rows[i] = Listing[i]
    BY <1>0, <1>1, <1>2, <2>2 DEF ListCallOK, Rows
  <2>4. Finish(c, v, D)
    BY <1>2 DEF DeviceDeleted
  <2> QED BY <2>1, <2>3, <2>4, DevicesAnswered
<1>3. CASE c.reply = "lost"
  <2>1. Finish(c, [Idle(view) EXCEPT !.said = "failed"], {c.id}) /\ {c.id} \in SUBSET Ids
    BY <1>0, <1>3 DEF DeviceDeleted
  <2>2. \A i \in Ids \ (doubt \cup {c.id}) : view.rows[i] = Listing[i]
    BY <1>1
  <2> QED BY <2>1, <2>2, DevicesFailed
<1> QED BY <1>2, <1>3

LEMMA DevicesStep ==
    ASSUME DevicesInv,
           DeviceTableServer \/ DeviceTableAnswers \/ DeviceTableVisitor \/ Lose \/ ElsewhereInList
    PROVE  DevicesInv'
<1>1. CASE DeviceTableServer
  BY <1>1, DevicesServed
<1>2. CASE Lose \/ ElsewhereInList
  BY <1>2, DevicesFaults
<1>3. CASE DeviceTableAnswers
  <2> PICK c \in calls : Answered(c) /\
        \/ c.op = "list" /\ DevicesLoaded(c)
        \/ c.op = "create" /\ DeviceCreated(c)
        \/ c.op = "update" /\ DeviceUpdated(c)
        \/ c.op = "delete" /\ DeviceDeleted(c)
    BY <1>3 DEF DeviceTableAnswers
  <2>1. c.reply # "none"
    BY DEF Answered
  <2> QED
    BY <2>1, DevicesListAnswer, DevicesCreateAnswer, DevicesUpdateAnswer, DevicesDeleteAnswer
<1>4. CASE DeviceTableVisitor
  BY <1>4, DevicesDialogs, DevicesConfirm, DevicesCreate, DevicesTypeName, DevicesSave,
     DevicesStartDelete
     DEF DeviceTableVisitor
<1> QED BY <1>1, <1>2, <1>3, <1>4

-----------------------------------------------------------------------------
(* The users screen, which has no inline edit.                             *)

UsersScreenInv ==
    /\ view \in UserView
    /\ ListScreen
    /\ view.loading <=> calls # {}
    /\ Vetting

LEMMA UsersScreenInit ==
    ASSUME UserTableInit, doubt = {}
    PROVE  UsersScreenInv
<1>1. view \in UserView /\ view.loading = TRUE /\ view.target = None
  BY DEF UserTableInit, UserView, NoRows
<1>2. /\ IsMessage(LoadUsers) /\ LoadUsers.op = "list" /\ LoadUsers.reply = "none"
      /\ LoadUsers.data = None /\ calls = {LoadUsers}
  BY DEF UserTableInit, LoadUsers, Message, IsMessage
<1>3. table \in ListTable
  BY DEF UserTableInit, ListTable
<1>4. CallsOK(calls, view.rows)
  BY <1>2 DEF CallsOK, ListCallOK, Kept
<1>5. Faithful(calls, view.rows, Listing, Ids \ doubt)
  BY <1>2 DEF Faithful, Reflected
<1> QED BY <1>1, <1>2, <1>3, <1>4, <1>5 DEF UsersScreenInv, ListScreen, Vetting

LEMMA UsersBehind ==
    ASSUME UsersScreenInv, UserTableServer \/ Lose \/ ElsewhereInList
    PROVE  UsersScreenInv'
<1>1. CASE UserTableServer
  <2> PICK c \in calls : Unserved(c) /\
        \/ c.op = "list" /\ ServeList(c)
        \/ c.op = "create" /\ ServeCreate(c)
        \/ c.op = "delete" /\ ServeDelete(c)
        \/ Refuse(c)
    BY <1>1 DEF UserTableServer
  <2>1. ListScreen /\ c.reply = "none"
    BY DEF UsersScreenInv, Unserved
  <2>2. ListScreen'
    BY <2>1, ServeListStep, ServeCreateStep, ServeDeleteStep, RefuseStep
  <2> QED BY <2>2, RespondKeepsView DEF UsersScreenInv, Vetting
<1>2. CASE Lose \/ ElsewhereInList
  <2>1. ListScreen'
    BY <1>2, LoseListStep, ElsewhereStep DEF UsersScreenInv
  <2>2. view' = view /\ (calls' = {} <=> calls = {})
    BY <1>2 DEF Lose, ElsewhereInList
  <2> QED BY <2>1, <2>2 DEF UsersScreenInv, Vetting
<1> QED BY <1>1, <1>2

LEMMA UsersTouched ==
    ASSUME UsersScreenInv, NEW v \in UserView, Touch(v),
           v.rows = view.rows, v.loading = view.loading,
           v.target # None => /\ v.target \in Ids /\ v.targetName # None
                              /\ v.typed = v.targetName => v.vetted
    PROVE  UsersScreenInv'
<1>1. view' = v /\ UNCHANGED <<table, calls, doubt>>
  BY DEF Touch
<1>2. ListScreen'
  BY <1>1, TouchList DEF UsersScreenInv
<1> QED BY <1>1, <1>2 DEF UsersScreenInv, Vetting

LEMMA UsersSent ==
    ASSUME UsersScreenInv, ~view.loading, NEW c, Send(c, [view EXCEPT !.loading = TRUE]),
           ListCallOK(c), c.reply = "none", Kept(c, view.rows)
    PROVE  UsersScreenInv'
<1> PICK v : v = [view EXCEPT !.loading = TRUE]
  OBVIOUS
<1>1. /\ v \in UserView /\ v.loading = TRUE /\ v.rows = view.rows /\ v.target = view.target
      /\ v.targetName = view.targetName /\ v.typed = view.typed /\ v.vetted = view.vetted
  BY DEF UsersScreenInv, UserView
<1>2. view' = v /\ calls' = calls \cup {c} /\ UNCHANGED <<table, doubt>>
  BY DEF Send
<1>3. ListScreen' /\ calls' = {c}
  BY <1>1, <1>2, SendList DEF UsersScreenInv
<1> QED BY <1>1, <1>2, <1>3 DEF UsersScreenInv, Vetting

LEMMA UserControls ==
    /\ "submit" \in UserCreateModal => ~view.loading
    /\ "confirm" \in UserDeleteModal =>
          ~view.loading /\ view.target # None /\ view.typed = view.targetName
    /\ "type" \in UserDeleteModal => view.target # None
    /\ \A u : "delete" \in UserRow(u) => u \in Ids /\ view.rows[u] # None
<1> USE DEF Modal, Button, Input
<1>1. "submit" \in UserCreateModal => ~view.loading
  BY DEF UserCreateModal, CreateUserForm
<1>2. /\ "confirm" \in UserDeleteModal =>
             ~view.loading /\ view.target # None /\ view.typed = view.targetName
      /\ "type" \in UserDeleteModal => view.target # None
  BY DEF UserDeleteModal, ConfirmActionModal
<1>3. \A u : "delete" \in UserRow(u) => u \in Ids /\ view.rows[u] # None
  BY DEF UserRow, DataTable
<1> QED BY <1>1, <1>2, <1>3

LEMMA UsersCreate ==
    ASSUME UsersScreenInv, NEW n \in Names, CreateUser(n)
    PROVE  UsersScreenInv'
<1> PICK c : c = [Request("create", None, n) EXCEPT !.seen = view.rows]
  OBVIOUS
<1>1. /\ IsMessage(c) /\ c.op = "create" /\ c.put = n /\ c.seen = view.rows
      /\ c.reply = "none" /\ c.data = None
  BY DEF Request, Message, IsMessage
<1>2. ListCallOK(c) /\ Kept(c, view.rows)
  BY <1>1 DEF ListCallOK, Kept
<1>3. Send(c, [view EXCEPT !.loading = TRUE]) /\ "submit" \in UserCreateModal
  BY DEF CreateUser
<1> QED BY <1>1, <1>2, <1>3, UserControls, UsersSent

LEMMA UsersConfirm ==
    ASSUME UsersScreenInv, ConfirmDeleteUser
    PROVE  UsersScreenInv'
<1> PICK c : c = [Request("delete", view.target, None) EXCEPT !.vetted = view.vetted]
  OBVIOUS
<1>1. /\ IsMessage(c) /\ c.op = "delete" /\ c.id = view.target /\ c.vetted = view.vetted
      /\ c.reply = "none" /\ c.data = None
  BY DEF Request, Message, IsMessage
<1>2. /\ Send(c, [view EXCEPT !.loading = TRUE]) /\ "confirm" \in UserDeleteModal
  BY DEF ConfirmDeleteUser
<1>3. view.target \in Ids /\ view.vetted /\ ~view.loading
  BY <1>2, UserControls DEF UsersScreenInv, Vetting
<1>4. ListCallOK(c) /\ Kept(c, view.rows)
  BY <1>1, <1>3 DEF ListCallOK, Kept
<1> QED BY <1>1, <1>2, <1>3, <1>4, UsersSent

LEMMA UsersStartDelete ==
    ASSUME UsersScreenInv, NEW u \in Ids, StartDeleteUser(u)
    PROVE  UsersScreenInv'
<1> PICK v : v = [view EXCEPT !.target = u, !.targetName = view.rows[u], !.typed = None,
                              !.vetted = FALSE]
  OBVIOUS
<1>1. /\ view.rows[u] # None /\ view.rows[u] \in Names \cup {None}
  BY UserControls DEF StartDeleteUser, UsersScreenInv, UserView
<1>2. /\ v \in UserView /\ v.rows = view.rows /\ v.loading = view.loading
      /\ v.target = u /\ v.targetName = view.rows[u] /\ v.typed = None
  BY <1>1 DEF UsersScreenInv, UserView
<1>3. Touch(v)
  BY DEF StartDeleteUser
<1> QED BY <1>1, <1>2, <1>3, UsersTouched

LEMMA UsersTypeName ==
    ASSUME UsersScreenInv, NEW n \in Names, TypeUserName(n)
    PROVE  UsersScreenInv'
<1> PICK same \in BOOLEAN : same <=> n = view.targetName
  OBVIOUS
<1> PICK v : v = [view EXCEPT !.typed = n, !.vetted = same]
  OBVIOUS
<1>1. /\ v \in UserView /\ v.rows = view.rows /\ v.loading = view.loading
      /\ v.target = view.target /\ v.targetName = view.targetName /\ v.typed = n
      /\ v.vetted = same
  BY DEF UsersScreenInv, UserView
<1>2. same = (n = view.targetName)
  OBVIOUS
<1>3. Touch(v)
  BY <1>2 DEF TypeUserName
<1>4. view.target # None => view.target \in Ids /\ view.targetName # None
  BY DEF UsersScreenInv, Vetting
<1> QED BY <1>1, <1>2, <1>3, <1>4, UsersTouched

LEMMA UsersDialogs ==
    ASSUME UsersScreenInv, OpenCreateUser \/ CloseCreateUser \/ CloseDeleteUser
    PROVE  UsersScreenInv'
<1> PICK v : /\ v \in {[view EXCEPT !.createOpen = TRUE], [view EXCEPT !.createOpen = FALSE],
                       CancelDelete(view)}
             /\ Touch(v)
  BY DEF OpenCreateUser, CloseCreateUser, CloseDeleteUser
<1>1. /\ v \in UserView /\ v.rows = view.rows /\ v.loading = view.loading
      /\ \/ v.target = None
         \/ /\ v.target = view.target /\ v.targetName = view.targetName
            /\ v.typed = view.typed /\ v.vetted = view.vetted
  BY DEF UsersScreenInv, UserView, CancelDelete
<1> QED BY <1>1, UsersTouched DEF UsersScreenInv, Vetting

LEMMA UsersAnswered ==
    ASSUME UsersScreenInv, NEW c \in calls, NEW v \in UserView, NEW D \in SUBSET Ids,
           Finish(c, v, D), v.loading = FALSE,
           \A i \in Ids \ (doubt \cup D) : v.rows[i] = Listing[i],
           \/ v.target = None
           \/ /\ v.target = view.target /\ v.targetName = view.targetName
              /\ v.typed = view.typed /\ v.vetted = view.vetted
    PROVE  UsersScreenInv'
<1>1. /\ view' = v /\ calls' = calls \ {c} /\ table' = table /\ doubt' = doubt \cup D
  BY DEF Finish
<1>2. ListScreen' /\ calls' = {}
  BY <1>1, AnswerList, Awaited DEF UsersScreenInv
<1> QED BY <1>1, <1>2 DEF UsersScreenInv, Vetting

LEMMA UsersFailed ==
    ASSUME UsersScreenInv, NEW c \in calls, NEW D \in SUBSET Ids,
           Finish(c, [Settle(view) EXCEPT !.said = "failed"], D),
           \A i \in Ids \ (doubt \cup D) : view.rows[i] = Listing[i]
    PROVE  UsersScreenInv'
<1> PICK v : v = [Settle(view) EXCEPT !.said = "failed"]
  OBVIOUS
<1>1. /\ v \in UserView /\ v.loading = FALSE /\ v.rows = view.rows
      /\ v.target = view.target /\ v.targetName = view.targetName
      /\ v.typed = view.typed /\ v.vetted = view.vetted
  BY DEF UsersScreenInv, UserView, Settle
<1> QED BY <1>1, UsersAnswered

LEMMA UsersListAnswer ==
    ASSUME UsersScreenInv, NEW c \in calls, c.op = "list", UsersLoaded(c)
    PROVE  UsersScreenInv'
<1>0. /\ ListCallOK(c) /\ \A i \in Ids \ doubt : Reflected(c, view.rows, Listing, i)
  BY Awaited DEF UsersScreenInv
<1>1. CASE c.reply = "ok"
  <2> PICK v : v = [Settle(view) EXCEPT !.rows = c.data]
    OBVIOUS
  <2>1. c.data \in Rows /\ \A i \in Ids \ doubt : c.data[i] = Listing[i]
    BY <1>0, <1>1 DEF ListCallOK, Reflected
  <2>2. /\ v \in UserView /\ v.loading = FALSE /\ v.rows = c.data
        /\ v.target = view.target /\ v.targetName = view.targetName
        /\ v.typed = view.typed /\ v.vetted = view.vetted
    BY <2>1 DEF UsersScreenInv, UserView, Settle, Rows
  <2>3. Finish(c, v, {})
    BY <1>1 DEF UsersLoaded
  <2> QED BY <2>1, <2>2, <2>3, UsersAnswered
<1>2. CASE c.reply # "ok"
  BY <1>2, UsersFailed DEF UsersLoaded
<1> QED BY <1>1, <1>2

LEMMA UsersCreateAnswer ==
    ASSUME UsersScreenInv, NEW c \in calls, c.op = "create", UserCreated(c)
    PROVE  UsersScreenInv'
<1>0. /\ ListCallOK(c) /\ Kept(c, view.rows)
      /\ \A i \in Ids \ doubt : Reflected(c, view.rows, Listing, i)
  BY Awaited DEF UsersScreenInv
<1>1. \A i \in Ids \ doubt : Listing[i] = IF i = c.data THEN c.put ELSE view.rows[i]
  BY <1>0 DEF Reflected
<1>2. CASE c.reply = "ok"
  <2> PICK v : v = [Settle(view) EXCEPT !.rows = [c.seen EXCEPT ![c.data] = c.put],
                                        !.createOpen = FALSE, !.said = "created"]
    OBVIOUS
  <2>1. c.data \in Ids /\ c.put \in Names /\ c.seen = view.rows
    BY <1>0, <1>2 DEF ListCallOK, Kept
  <2>2. /\ v \in UserView /\ v.loading = FALSE
        /\ v.rows = [view.rows EXCEPT ![c.data] = c.put]
        /\ v.target = view.target /\ v.targetName = view.targetName
        /\ v.typed = view.typed /\ v.vetted = view.vetted
    BY <2>1 DEF UsersScreenInv, UserView, Settle
  <2>3. \A i \in Ids \ doubt : v.rows[i] = Listing[i]
    BY <1>1, <2>1, <2>2 DEF UsersScreenInv, UserView
  <2>4. Finish(c, v, {})
    BY <1>2 DEF UserCreated
  <2> QED BY <2>2, <2>3, <2>4, UsersAnswered
<1>3. CASE c.reply # "ok"
  <2>1. {c.data} \ {None} \in SUBSET Ids
    BY <1>0 DEF ListCallOK
  <2>2. \A i \in Ids \ (doubt \cup ({c.data} \ {None})) : view.rows[i] = Listing[i]
    BY <1>1, NoneApart
  <2>3. Finish(c, [Settle(view) EXCEPT !.said = "failed"], {c.data} \ {None})
    BY <1>3 DEF UserCreated
  <2> QED BY <2>1, <2>2, <2>3, UsersFailed
<1> QED BY <1>2, <1>3

LEMMA UsersDeleteAnswer ==
    ASSUME UsersScreenInv, NEW c \in calls, c.op = "delete", c.reply # "none", UserDeleted(c)
    PROVE  UsersScreenInv'
<1>0. /\ ListCallOK(c) /\ c.id \in Ids
      /\ \A i \in Ids \ doubt : Reflected(c, view.rows, Listing, i)
  BY Awaited DEF UsersScreenInv, ListCallOK
<1>1. \A i \in Ids \ doubt :
         /\ i # c.id => Listing[i] = view.rows[i]
         /\ i = c.id /\ c.reply = "ok" => Listing[i] = None
  BY <1>0 DEF Reflected
<1>2. CASE c.reply # "lost"
  <2> PICK v : v = [CancelDelete(Settle(view)) EXCEPT !.rows[c.id] = None, !.said = "deleted"]
    OBVIOUS
  <2> PICK D \in SUBSET Ids : D = IF c.reply = "refused" THEN {c.id} ELSE {}
    BY <1>0
  <2>1. v \in UserView /\ v.loading = FALSE /\ v.target = None
    BY <1>0 DEF UsersScreenInv, UserView, CancelDelete, Settle
  <2>2. view.rows \in Rows /\ v.rows = [view.rows EXCEPT ![c.id] = None]
    BY DEF UsersScreenInv, UserView, CancelDelete, Settle, Rows
  <2>3. \A i \in Ids \ (doubt \cup D) : v.rows[i] = Listing[i]
    BY <1>0, <1>1, <1>2, <2>2 DEF ListCallOK, Rows
  <2>4. Finish(c, v, D)
    BY <1>2 DEF UserDeleted
  <2> QED BY <2>1, <2>3, <2>4, UsersAnswered
<1>3. CASE c.reply = "lost"
  <2>1. Finish(c, [Settle(view) EXCEPT !.said = "failed"], {c.id}) /\ {c.id} \in SUBSET Ids
    BY <1>0, <1>3 DEF UserDeleted
  <2>2. \A i \in Ids \ (doubt \cup {c.id}) : view.rows[i] = Listing[i]
    BY <1>1
  <2> QED BY <2>1, <2>2, UsersFailed
<1> QED BY <1>2, <1>3

LEMMA UsersScreenStep ==
    ASSUME UsersScreenInv,
           UserTableServer \/ UserTableAnswers \/ UserTableVisitor \/ Lose \/ ElsewhereInList
    PROVE  UsersScreenInv'
<1>1. CASE UserTableServer \/ Lose \/ ElsewhereInList
  BY <1>1, UsersBehind
<1>2. CASE UserTableAnswers
  <2> PICK c \in calls : Answered(c) /\
        \/ c.op = "list" /\ UsersLoaded(c)
        \/ c.op = "create" /\ UserCreated(c)
        \/ c.op = "delete" /\ UserDeleted(c)
    BY <1>2 DEF UserTableAnswers
  <2>1. c.reply # "none"
    BY DEF Answered
  <2> QED BY <2>1, UsersListAnswer, UsersCreateAnswer, UsersDeleteAnswer
<1>3. CASE UserTableVisitor
  BY <1>3, UsersDialogs, UsersConfirm, UsersCreate, UsersTypeName, UsersStartDelete
     DEF UserTableVisitor
<1> QED BY <1>1, <1>2, <1>3
=============================================================================
