---------------------------- MODULE SessionProofs ----------------------------
(***************************************************************************)
(* Proofs about Session, for every bound on faults.  The invariants rest   *)
(* on one fact about the boolean that all auth operations share: whenever  *)
(* one of them is in flight it is the only one, the flag is up and the     *)
(* page's own session check has begun.                                     *)
(***************************************************************************)
EXTENDS Session, TLAPS

AuthOps == VisitorOps \cup {"me"}

\* A confirmation on its way to this page is in `vouched`.
Confirmed(cs) == \A c \in cs : c.op = "me" /\ c.reply = "ok" => vouched

Alone(cs) == \A c, d \in cs : c.op \in AuthOps /\ d.op \in AuthOps => c = d

Flagged(cs, l, h) == \A c \in cs : c.op \in AuthOps => l /\ h

Gated(p, g, h) == p \in AuthPages /\ g \in {"needs", "done"} => h

Landing ==
    /\ page = "root" => \A c \in calls : c.op = "first"
    /\ page = "provider" => calls = {}

SessionInv ==
    /\ TypeOK
    /\ user => vouched /\ hydrated
    /\ Confirmed(calls)
    /\ Alone(calls)
    /\ Flagged(calls, loading, hydrated)
    /\ Gated(page, gate, hydrated)
    /\ Landing
-----------------------------------------------------------------------------
(* What the steps are built from: requests, page loads, renders.           *)

Gates == {"unmounted", "unknown", "needs", "done"}
Forms == [busy : {"no"} \cup VisitorOps, error : BOOLEAN]
ServerOK == session \in BOOLEAN /\ setup \in BOOLEAN /\ faults \in 0..MaxFaults

LEMMA RequestIsCall ==
    ASSUME NEW op \in Ops
    PROVE  Request(op) \in Call /\ Request(op).op = op /\ Request(op).reply = "none"
  BY DEF Request, Call, Replies

LEMMA GoInv ==
    ASSUME NEW p \in AuthPages \cup {"root", "provider"}, Go(p), ServerOK'
    PROVE  SessionInv'
<1>1. Blank \in [busy : {"no"} \cup VisitorOps, error : BOOLEAN]
  BY DEF Blank
<1>2. TypeOK'
  BY <1>1 DEF Go, ServerOK, TypeOK
<1>3. calls' = {} /\ user' = FALSE /\ gate' = "unmounted"
  BY DEF Go
<1> QED
  BY <1>2, <1>3 DEF SessionInv, Confirmed, Alone, Flagged, Gated, Landing

\* A render keeps the calls it was given, apart from who is left to hear the
\* answer, and adds queries of the bootstrap status.
LEMMA CommitCalls ==
    ASSUME NEW u, NEW l, NEW g, NEW f, NEW cs \in SUBSET Call, Commit(u, l, g, f, cs)
    PROVE  /\ calls' \subseteq Call
           /\ \A c \in calls' : \/ c.op \in {"status", "first"}
                                \/ \E b \in cs : b.op = c.op /\ b.reply = c.reply
           /\ Alone(cs) => Alone(calls)'
<1> DEFINE kept == IF ShowsPublic(u, l, g) THEN cs ELSE {Unheard(c) : c \in cs}
           asked == {Request("status"), Request("first")}
<1>1. calls' \subseteq kept \cup asked
  BY DEF Commit
<1>2. asked \subseteq Call /\ \A c \in asked : c.op \in {"status", "first"}
  BY RequestIsCall DEF Ops
<1>3. \A c \in cs : /\ Unheard(c) \in Call
                    /\ Unheard(c).op = c.op /\ Unheard(c).reply = c.reply
  BY DEF Call, Unheard
<1>4. kept \subseteq Call
  BY <1>3
<1>5. \A c \in kept : \E b \in cs : /\ b.op = c.op /\ b.reply = c.reply
                                    /\ c = b \/ c = Unheard(b)
  BY <1>3
<1>6. ASSUME Alone(cs), NEW c \in calls', NEW d \in calls',
             c.op \in AuthOps, d.op \in AuthOps
      PROVE  c = d
  <2>1. c \in kept /\ d \in kept
    BY <1>1, <1>2, <1>6 DEF AuthOps, VisitorOps
  <2>2. CASE ShowsPublic(u, l, g)
    BY <1>6, <2>1, <2>2 DEF Alone
  <2>3. CASE ~ShowsPublic(u, l, g)
    <3>1. PICK b \in cs, e \in cs : c = Unheard(b) /\ d = Unheard(e)
      BY <2>1, <2>3
    <3>2. b.op = c.op /\ e.op = d.op
      BY <1>3, <3>1
    <3>3. b = e
      BY <1>6, <3>2 DEF Alone
    <3> QED BY <3>1, <3>3
  <2> QED BY <2>2, <2>3
<1>7. Alone(cs) => Alone(calls)'
  BY <1>6 DEF Alone
<1> QED BY <1>1, <1>2, <1>4, <1>5, <1>7

LEMMA CommitInv ==
    ASSUME TypeOK, page \in AuthPages,
           NEW u \in BOOLEAN, NEW l \in BOOLEAN, NEW g \in Gates, NEW f \in Forms,
           NEW cs \in SUBSET Call, Commit(u, l, g, f, cs),
           hydrated' \in BOOLEAN, outcome' \in {"none", "failed"}, ServerOK',
           u => vouched /\ hydrated', Confirmed(cs), Alone(cs),
           Flagged(cs, l, hydrated'), Gated(page, g, hydrated')
    PROVE  SessionInv'
<1>1. /\ user' = u /\ loading' = l /\ gate' = g /\ page' = page /\ vouched' = vouched
      /\ form' \in {f, Blank} /\ inner' \in {"waiting", "off", inner}
  BY DEF Commit
<1>2. Blank \in Forms
  BY DEF Blank, Forms
<1>3. /\ calls' \subseteq Call
      /\ \A c \in calls' : \/ c.op \in {"status", "first"}
                           \/ \E b \in cs : b.op = c.op /\ b.reply = c.reply
      /\ Alone(calls)'
  BY CommitCalls
<1>4. TypeOK'
  BY <1>1, <1>2, <1>3 DEF TypeOK, ServerOK, Gates, Forms
<1>5. (user => vouched /\ hydrated)' /\ Gated(page, gate, hydrated)'
  BY <1>1 DEF Gated
<1>6. Confirmed(calls)'
  BY <1>1, <1>3 DEF Confirmed
<1>7. Flagged(calls, loading, hydrated)'
  BY <1>1, <1>3 DEF Flagged, AuthOps, VisitorOps
<1>8. Landing'
  BY <1>1 DEF Landing, AuthPages, FormPages
<1> QED BY <1>3, <1>4, <1>5, <1>6, <1>7, <1>8 DEF SessionInv

LEMMA RenderInv ==
    ASSUME TypeOK, page \in AuthPages,
           NEW u \in BOOLEAN, NEW l \in BOOLEAN, NEW g \in Gates, NEW f \in Forms,
           NEW cs \in SUBSET Call, Render(u, l, g, f, cs), UNCHANGED server,
           u => vouched /\ hydrated, Confirmed(cs), Alone(cs),
           Flagged(cs, l, hydrated), Gated(page, g, hydrated)
    PROVE  SessionInv'
<1>1. ServerOK'
  BY DEF TypeOK, ServerOK, server
<1>2. CASE Target(u, l, g) = "stay"
  <2>1. Commit(u, l, g, f, cs) /\ hydrated' = hydrated /\ outcome' = outcome
    BY <1>2 DEF Render
  <2>2. hydrated \in BOOLEAN /\ outcome \in {"none", "failed"}
    BY DEF TypeOK
  <2> QED BY <1>1, <2>1, <2>2, CommitInv
<1>3. CASE Target(u, l, g) # "stay"
  <2>1. Target(u, l, g) \in {"stay", "root", "app", "signup", "login"}
    BY DEF Target
  <2>2. Target(u, l, g) \in AuthPages \cup {"root", "provider"}
    BY <1>3, <2>1 DEF AuthPages, FormPages
  <2>3. Go(Target(u, l, g))
    BY <1>3 DEF Render
  <2> QED BY <1>1, <2>2, <2>3, GoInv
<1> QED BY <1>2, <1>3
-----------------------------------------------------------------------------
(* The steps of the specification.                                         *)

LEMMA SessionInit == Init => SessionInv
<1> SUFFICES ASSUME Init PROVE SessionInv
  OBVIOUS
<1>1. Blank \in [busy : {"no"} \cup VisitorOps, error : BOOLEAN]
  BY DEF Blank
<1>2. 0 \in 0..MaxFaults
  BY FaultsAssumption
<1>3. TypeOK
  BY <1>1, <1>2 DEF Init, TypeOK
<1> QED
  BY <1>3 DEF Init, SessionInv, Confirmed, Alone, Flagged, Gated, Landing

LEMMA HydrateStep == SessionInv /\ HydrateOnce => SessionInv'
<1> SUFFICES ASSUME SessionInv, HydrateOnce PROVE SessionInv'
  OBVIOUS
<1> DEFINE cs == calls \cup {Request("me")}
<1>1. /\ Request("me") \in Call /\ Request("me").op = "me" /\ Request("me").reply = "none"
  BY RequestIsCall DEF Ops
<1>2. /\ page \in AuthPages /\ hydrated' = TRUE /\ outcome' = outcome /\ UNCHANGED server
      /\ Commit(user, TRUE, gate, form, cs)
  BY DEF HydrateOnce
<1>3. \A c \in calls : c.op \notin AuthOps
  BY DEF HydrateOnce, SessionInv, Flagged
<1>4. /\ user \in BOOLEAN /\ gate \in Gates /\ form \in Forms /\ cs \in SUBSET Call
      /\ outcome' \in {"none", "failed"} /\ ServerOK'
  BY <1>1, <1>2 DEF SessionInv, TypeOK, Gates, Forms, ServerOK, server
<1>5. Confirmed(cs) /\ Alone(cs) /\ Flagged(cs, TRUE, hydrated')
  BY <1>1, <1>2, <1>3 DEF SessionInv, Confirmed, Alone, Flagged
<1>6. (user => vouched /\ hydrated') /\ Gated(page, gate, hydrated') /\ TypeOK
  BY <1>2 DEF SessionInv, Gated
<1> HIDE DEF cs
<1> QED BY <1>2, <1>4, <1>5, <1>6, CommitInv

LEMMA MountGateStep == SessionInv /\ MountGate => SessionInv'
<1> SUFFICES ASSUME SessionInv, MountGate PROVE SessionInv'
  OBVIOUS
<1>1. /\ user \in BOOLEAN /\ loading \in BOOLEAN /\ "unknown" \in Gates /\ form \in Forms
      /\ calls \in SUBSET Call /\ TypeOK
  BY DEF SessionInv, TypeOK, Gates, Forms
<1>2. Gated(page, "unknown", hydrated)
  BY DEF Gated
<1>3. /\ page \in AuthPages /\ UNCHANGED server
      /\ Render(user, loading, "unknown", form, calls)
  BY DEF MountGate
<1> QED BY <1>1, <1>2, <1>3, RenderInv DEF SessionInv

LEMMA MountFirstRunGateStep == SessionInv /\ MountFirstRunGate => SessionInv'
<1> SUFFICES ASSUME SessionInv, MountFirstRunGate PROVE SessionInv'
  OBVIOUS
<1>1. Request("first") \in Call /\ Request("first").op = "first"
  BY RequestIsCall DEF Ops
<1>2. TypeOK'
  BY <1>1 DEF MountFirstRunGate, SessionInv, TypeOK, server, history
<1>3. /\ page' = "root" /\ calls' = {Request("first")} /\ user' = user
      /\ hydrated' = hydrated /\ vouched' = vouched
  BY DEF MountFirstRunGate, history
<1> QED
  BY <1>1, <1>2, <1>3
     DEF SessionInv, Confirmed, Alone, Flagged, Gated, Landing, AuthOps, VisitorOps,
         AuthPages, FormPages

\* A visitor's request, from a page that has settled.
LEMMA BeginInv ==
    ASSUME SessionInv, NEW op \in VisitorOps, Begin(op),
           page \in AuthPages, hydrated, ~loading
    PROVE  SessionInv'
<1> DEFINE cs == calls \cup {Request(op)}
           f == [busy |-> op, error |-> FALSE]
<1>1. /\ Request(op) \in Call /\ Request(op).op = op /\ Request(op).reply = "none"
  BY RequestIsCall DEF Ops
<1>2. \A c \in calls : c.op \notin AuthOps
  BY DEF SessionInv, Flagged
<1>3. /\ hydrated' = hydrated /\ outcome' = "none" /\ UNCHANGED server
      /\ Commit(user, TRUE, gate, f, cs)
  BY DEF Begin
<1>4. /\ user \in BOOLEAN /\ gate \in Gates /\ cs \in SUBSET Call
      /\ ServerOK' /\ hydrated' \in BOOLEAN
  BY <1>1, <1>3 DEF SessionInv, TypeOK, Gates, ServerOK, server
<1>5. f \in Forms
  BY DEF Forms
<1>6. op # "me"
  BY DEF VisitorOps
<1>7. Confirmed(cs) /\ Alone(cs) /\ Flagged(cs, TRUE, hydrated')
  BY <1>1, <1>2, <1>3, <1>6 DEF SessionInv, Confirmed, Alone, Flagged
<1>8. (user => vouched /\ hydrated') /\ Gated(page, gate, hydrated') /\ TypeOK
  BY <1>3 DEF SessionInv, Gated
<1> HIDE DEF cs, f
<1> QED BY <1>3, <1>4, <1>5, <1>7, <1>8, CommitInv

LEMMA FormIsSettled ==
    ASSUME SessionInv, FormShown
    PROVE  page \in AuthPages /\ hydrated /\ ~loading /\ ~user
  BY DEF SessionInv, FormShown, ShowsPublic, Gated, AuthPages, FormPages

LEMMA VisitorStep ==
    SessionInv /\ (SubmitLogin \/ GoogleSignIn \/ SubmitSignup \/ ClickLogout) => SessionInv'
<1> SUFFICES ASSUME SessionInv,
                    SubmitLogin \/ GoogleSignIn \/ SubmitSignup \/ ClickLogout
             PROVE  SessionInv'
  OBVIOUS
<1>1. CASE SubmitLogin \/ GoogleSignIn \/ SubmitSignup
  <2>1. FormShown /\ \E op \in VisitorOps : Begin(op)
    BY <1>1 DEF SubmitLogin, GoogleSignIn, SubmitSignup, VisitorOps
  <2> QED BY <2>1, FormIsSettled, BeginInv
<1>2. CASE ClickLogout
  <2>1. Begin("signOut") /\ "signOut" \in VisitorOps
    BY <1>2 DEF ClickLogout, VisitorOps
  <2>2. page \in AuthPages /\ hydrated /\ ~loading
    BY <1>2 DEF ClickLogout, ShowsApp, SessionInv, AuthPages
  <2> QED BY <2>1, <2>2, BeginInv
<1> QED BY <1>1, <1>2

LEMMA PageLoadStep ==
    ASSUME SessionInv,
           ProviderAnswers \/ \E p \in AuthPages \cup {"root"} : Visit(p)
    PROVE  SessionInv'
<1>1. ServerOK'
  BY DEF SessionInv, TypeOK, ServerOK, server, ProviderAnswers, Visit
<1>2. \E p \in AuthPages \cup {"root", "provider"} : Go(p)
  BY DEF ProviderAnswers, Visit, AuthPages
<1> QED BY <1>1, <1>2, GoInv

LEMMA AnswerInv ==
    ASSUME SessionInv, NEW c \in calls, NEW r \in Replies, Answer(c, r), ServerOK',
           UNCHANGED <<page, user, loading, hydrated, gate, inner, form, outcome>>,
           vouched' \in BOOLEAN, vouched => vouched',
           c.op = "me" /\ r = "ok" => vouched'
    PROVE  SessionInv'
<1> DEFINE d == [c EXCEPT !.reply = r]
<1>1. c \in Call
  BY DEF SessionInv, TypeOK
<1>2. d \in Call /\ d.op = c.op /\ d.reply = r
  BY <1>1 DEF Call
<1>3. calls' = (calls \ {c}) \cup {d}
  BY DEF Answer
<1>4. TypeOK'
  BY <1>2, <1>3 DEF SessionInv, TypeOK, ServerOK
<1> HIDE DEF d
<1>5. Confirmed(calls)'
  BY <1>2, <1>3 DEF SessionInv, Confirmed
<1>6. Alone(calls)'
  BY <1>2, <1>3 DEF SessionInv, Alone
<1>7. Flagged(calls, loading, hydrated)'
  BY <1>2, <1>3 DEF SessionInv, Flagged
<1>8. Landing'
  BY <1>2, <1>3 DEF SessionInv, Landing
<1> QED BY <1>4, <1>5, <1>6, <1>7, <1>8 DEF SessionInv, Gated

LEMMA ServeStep == SessionInv /\ Serve => SessionInv'
<1> SUFFICES ASSUME SessionInv, Serve PROVE SessionInv'
  OBVIOUS
<1> PICK c \in calls :
      /\ c.reply = "none"
      /\ \/ c.op = "me" /\ ServeMe(c)
         \/ c.op \in {"status", "first"} /\ ServeStatus(c)
         \/ c.op \in {"signIn", "signUp"} /\ ServeCredentials(c)
         \/ c.op = "oauth" /\ ServeAuthorize(c)
         \/ c.op = "signOut" /\ ServeSignOut(c)
  BY DEF Serve
<1> USE DEF ServeMe, ServeStatus, ServeCredentials, ServeAuthorize, ServeSignOut
<1>1. UNCHANGED <<page, user, loading, hydrated, gate, inner, form, faults, outcome>>
  BY DEF Serve
<1>2. session \in BOOLEAN /\ setup \in BOOLEAN /\ vouched \in BOOLEAN /\ faults \in 0..MaxFaults
  BY DEF SessionInv, TypeOK
<1>3. /\ session' \in BOOLEAN /\ setup' \in BOOLEAN /\ vouched' \in BOOLEAN
      /\ vouched => vouched'
  BY <1>2
<1>4. ServerOK'
  BY <1>1, <1>2, <1>3 DEF ServerOK
<1>5. PICK r \in Replies : Answer(c, r) /\ (c.op = "me" /\ r = "ok" => vouched')
  BY DEF Replies
<1> QED BY <1>1, <1>3, <1>4, <1>5, AnswerInv

LEMMA FaultStep == SessionInv /\ (Lose \/ Expire) => SessionInv'
<1> SUFFICES ASSUME SessionInv, Lose \/ Expire PROVE SessionInv'
  OBVIOUS
<1>1. faults \in 0..MaxFaults /\ session \in BOOLEAN /\ setup \in BOOLEAN /\ vouched \in BOOLEAN
  BY DEF SessionInv, TypeOK
<1>2. faults' \in 0..MaxFaults
  BY <1>1, FaultsAssumption DEF Lose, Expire
<1>3. CASE Lose
  <2>1. PICK c \in calls : Answer(c, "lost")
    BY <1>3 DEF Lose
  <2>2. /\ "lost" \in Replies /\ ServerOK' /\ vouched' = vouched
        /\ UNCHANGED <<page, user, loading, hydrated, gate, inner, form, outcome>>
    BY <1>1, <1>2, <1>3 DEF Lose, ServerOK, Replies, history
  <2> QED BY <1>1, <2>1, <2>2, AnswerInv
<1>4. CASE Expire
  <2>1. UNCHANGED <<client, setup, history>> /\ session' = FALSE
    BY <1>4 DEF Expire
  <2>2. /\ UNCHANGED <<page, user, loading, hydrated, gate, inner, form, calls>>
        /\ UNCHANGED <<vouched, outcome>> /\ setup' = setup
    BY <2>1 DEF client, history
  <2>3. TypeOK'
    <3>1. session' \in BOOLEAN
      BY <2>1
    <3> QED BY <1>2, <2>2, <3>1 DEF SessionInv, TypeOK
  <2>4. (Confirmed(calls) /\ Alone(calls) /\ Flagged(calls, loading, hydrated))'
    BY <2>2 DEF SessionInv, Confirmed, Alone, Flagged
  <2> QED
    BY <2>2, <2>3, <2>4 DEF SessionInv, Gated, Landing
<1> QED BY <1>3, <1>4

-----------------------------------------------------------------------------
(* Answers.                                                                *)

\* What is left of the page's calls once c is taken out.
LEMMA Taken ==
    ASSUME SessionInv, NEW c \in calls
    PROVE  /\ calls \ {c} \in SUBSET Call
           /\ Confirmed(calls \ {c}) /\ Alone(calls \ {c})
           /\ Flagged(calls \ {c}, loading, hydrated)
           /\ c.op \in AuthOps => hydrated /\ \A l : Flagged(calls \ {c}, l, hydrated)
  BY DEF SessionInv, TypeOK, Confirmed, Alone, Flagged

\* The answers of a page with gates, and how each is taken.
LEMMA StatusInv ==
    ASSUME SessionInv, page \in AuthPages, hydrated, NEW c \in calls, StatusAnswered(c),
           UNCHANGED server
    PROVE  SessionInv'
<1> DEFINE g == IF c.reply = "needs" THEN "needs" ELSE "done"
<1>1. Render(user, loading, g, form, calls \ {c})
  BY DEF StatusAnswered
<1>2. g \in Gates /\ Gated(page, g, hydrated)
  BY DEF Gates, Gated
<1>3. /\ user \in BOOLEAN /\ loading \in BOOLEAN /\ form \in Forms /\ TypeOK
      /\ user => vouched /\ hydrated
  BY DEF SessionInv, TypeOK, Forms
<1> HIDE DEF g
<1> QED BY <1>1, <1>2, <1>3, Taken, RenderInv

LEMMA SessionAnswerInv ==
    ASSUME SessionInv, page \in AuthPages, hydrated, NEW c \in calls, c.op = "me",
           SessionAnswered(c), UNCHANGED server
    PROVE  SessionInv'
<1> DEFINE u == c.reply = "ok"
<1>1. Render(u, FALSE, gate, form, calls \ {c})
  BY DEF SessionAnswered
<1>2. u \in BOOLEAN /\ (u => vouched /\ hydrated)
  BY DEF SessionInv, Confirmed
<1>3. /\ gate \in Gates /\ form \in Forms /\ TypeOK /\ Gated(page, gate, hydrated)
  BY DEF SessionInv, TypeOK, Forms, Gates
<1>4. Flagged(calls \ {c}, FALSE, hydrated)
  BY Taken DEF AuthOps
<1> HIDE DEF u
<1> QED BY <1>1, <1>2, <1>3, <1>4, Taken, RenderInv

LEMMA FailureInv ==
    ASSUME SessionInv, page \in AuthPages, hydrated, NEW c \in calls, c.op \in AuthOps,
           SubmissionFailed(c), UNCHANGED server
    PROVE  SessionInv'
<1>1. /\ Commit(user, FALSE, gate, FormAfter(c), calls \ {c})
      /\ hydrated' = hydrated /\ outcome' = "failed"
  BY DEF SubmissionFailed
<1>2. FormAfter(c) \in Forms
  BY DEF SessionInv, TypeOK, FormAfter, Forms
<1>3. /\ user \in BOOLEAN /\ gate \in Gates /\ TypeOK /\ ServerOK'
      /\ user => vouched /\ hydrated
      /\ Gated(page, gate, hydrated)
  BY DEF SessionInv, TypeOK, Gates, ServerOK, server
<1>4. Flagged(calls \ {c}, FALSE, hydrated)
  BY Taken
<1> QED BY <1>1, <1>2, <1>3, <1>4, Taken, CommitInv

\* The sign-up page's own question about the bootstrap status.
LEMMA BootstrapInv ==
    ASSUME SessionInv, page = "signup", hydrated, NEW c \in calls,
           BootstrapAnswered(c), UNCHANGED server
    PROVE  SessionInv'
<1>1. /\ TypeOK /\ ServerOK' /\ page \in AuthPages
      /\ user \in BOOLEAN /\ loading \in BOOLEAN /\ gate \in Gates /\ form \in Forms
      /\ user => vouched /\ hydrated
      /\ Gated(page, gate, hydrated)
  BY DEF SessionInv, TypeOK, ServerOK, server, Gates, Forms, AuthPages, FormPages
<1>2. CASE Render(user, loading, gate, form, calls \ {c})
  BY <1>1, <1>2, Taken, RenderInv
<1>3. CASE /\ inner' = "open" /\ calls' = calls \ {c}
           /\ UNCHANGED <<page, user, loading, hydrated, gate, form, history>>
  <2>1. TypeOK'
    BY <1>1, <1>3 DEF TypeOK, ServerOK, history
  <2>2. calls' \subseteq calls
    BY <1>3
  <2> QED
    BY <1>3, <2>1, <2>2
       DEF SessionInv, Confirmed, Alone, Flagged, Gated, Landing, history
<1>4. CASE Go("login")
  BY <1>1, <1>4, GoInv DEF AuthPages, FormPages
<1> QED BY <1>2, <1>3, <1>4 DEF BootstrapAnswered

LEMMA DeliverStep == SessionInv /\ Deliver => SessionInv'
<1> SUFFICES ASSUME SessionInv, Deliver PROVE SessionInv'
  OBVIOUS
<1>1. PICK c \in calls :
        \/ c.op = "me" /\ SessionAnswered(c)
        \/ c.op = "status" /\ StatusAnswered(c)
        \/ c.op = "first" /\ page = "root" /\ FirstRunAnswered(c)
        \/ c.op = "first" /\ page = "signup" /\ BootstrapAnswered(c)
        \/ c.op = "signIn" /\ SignInAnswered(c)
        \/ c.op = "signUp" /\ SignUpAnswered(c)
        \/ c.op = "oauth" /\ OAuthAnswered(c)
        \/ c.op = "signOut" /\ SignOutAnswered(c)
  BY DEF Deliver
<1>2. /\ UNCHANGED server /\ ServerOK'
      /\ page \in AuthPages => hydrated
  BY DEF Deliver, SessionInv, TypeOK, ServerOK, server
<1>3. c.op # "first" => page \in AuthPages
  BY DEF SessionInv, TypeOK, Landing
<1>4. CASE \E p \in {"root", "app", "signup", "login", "provider"} : Go(p)
  BY <1>2, <1>4, GoInv DEF AuthPages, FormPages
<1>5. CASE c.op = "me" /\ SessionAnswered(c)
  BY <1>2, <1>3, <1>5, SessionAnswerInv
<1>6. CASE c.op = "status" /\ StatusAnswered(c)
  BY <1>2, <1>3, <1>6, StatusInv
<1>7. CASE c.op = "first" /\ page = "root" /\ FirstRunAnswered(c)
  BY <1>4, <1>7 DEF FirstRunAnswered
<1>8. CASE c.op = "first" /\ page = "signup" /\ BootstrapAnswered(c)
  BY <1>2, <1>8, BootstrapInv DEF AuthPages, FormPages
<1>9. CASE c.op = "signOut" /\ SignOutAnswered(c)
  BY <1>4, <1>9 DEF SignOutAnswered
<1>10. CASE /\ c.op \in {"signIn", "signUp", "oauth"}
            /\ SignInAnswered(c) \/ SignUpAnswered(c) \/ OAuthAnswered(c)
  <2>1. SubmissionFailed(c) \/ Go("app") \/ Go("provider")
    BY <1>10 DEF SignInAnswered, SignUpAnswered, OAuthAnswered
  <2>2. c.op \in AuthOps
    BY <1>10 DEF AuthOps, VisitorOps
  <2>3. CASE SubmissionFailed(c)
    BY <1>2, <1>3, <1>10, <2>2, <2>3, FailureInv
  <2> QED BY <1>4, <2>1, <2>3
<1> QED BY <1>1, <1>5, <1>6, <1>7, <1>8, <1>9, <1>10

LEMMA SessionNext == SessionInv /\ [Next]_vars => SessionInv'
<1> SUFFICES ASSUME SessionInv, [Next]_vars PROVE SessionInv'
  OBVIOUS
<1>1. CASE Browser
  BY <1>1, HydrateStep, MountGateStep, MountFirstRunGateStep, ServeStep, DeliverStep
     DEF Browser
<1>2. CASE SubmitLogin \/ GoogleSignIn \/ SubmitSignup \/ ClickLogout
  BY <1>2, VisitorStep
<1>3. CASE ProviderAnswers \/ \E p \in AuthPages \cup {"root"} : Visit(p)
  BY <1>3, PageLoadStep
<1>4. CASE Lose \/ Expire
  BY <1>4, FaultStep
<1>5. CASE UNCHANGED vars
  BY <1>5
     DEF vars, client, server, history, SessionInv, TypeOK, Confirmed, Alone, Flagged,
         Gated, Landing
<1> QED BY <1>1, <1>2, <1>3, <1>4, <1>5 DEF Next

LEMMA SessionAlways == Spec => []SessionInv
  BY SessionInit, SessionNext, PTL DEF Spec

-----------------------------------------------------------------------------
(* What a page owes the visitor: it never rests on a redirect it has not   *)
(* followed, each of its waits has a request behind it, each request stands *)
(* where the page that sent it left it, and the answers agree with the      *)
(* `users` table, which only ever gains its first user.                    *)

Rendered ==
    /\ Target(user, loading, gate) = "stay"
    /\ page \in FormPages => ~user
    /\ page = "signup" /\ ShowsPublic(user, loading, gate) => inner # "off"

AsksStatus(u, l) == ~u /\ (page \in FormPages \/ (page = "app" /\ ~l))

Awaited(cs, u, l, g) ==
    /\ l => \E c \in cs : c.op \in AuthOps
    /\ g = "unknown" /\ AsksStatus(u, l) => \E c \in cs : c.op = "status"

FirstAwaited(cs, l) ==
    /\ \A c \in cs : c.op = "first" /\ c.alive /\ page = "signup" => ~l
    /\ inner = "waiting" => \E c \in cs : c.op = "first" /\ c.alive
    /\ page = "root" /\ gate # "unmounted" => \E c \in cs : c.op = "first"

Placed(cs, u, g) ==
    \A c \in cs :
        /\ c.op = "me" => ~u
        /\ c.op \in {"signIn", "oauth"} => page = "login" /\ g = "done"
        /\ c.op = "signUp" => page = "signup" /\ g = "needs"
        /\ c.op = "signOut" => page = "app"
        /\ c.op = "first" => /\ page \in {"root", "signup"}
                             /\ page = "root" => c.alive
        /\ c.op = "status" /\ page \in FormPages =>
              g = "unknown" /\ \A d \in cs : d.op = "status" => c = d

TrueReplies(cs) ==
    \A c \in cs :
        /\ c.op \in {"me", "signIn", "signUp"} /\ c.reply = "ok" => setup
        /\ c.op \in {"status", "first"} =>
              /\ c.reply \in {"none", "lost", "needs", "done"}
              /\ c.reply = "done" => setup
              /\ c.reply = "needs" /\ (c.op = "status" \/ c.alive) => ~setup

Truthful(u, g) ==
    /\ session => setup
    /\ u => setup
    /\ g = "needs" /\ page \in {"login", "app"} => ~setup

PageInv ==
    /\ Rendered
    /\ Awaited(calls, user, loading, gate)
    /\ FirstAwaited(calls, loading)
    /\ Placed(calls, user, gate)
    /\ TrueReplies(calls)
    /\ Truthful(user, gate)

LEMMA GoPage ==
    ASSUME NEW p \in AuthPages \cup {"root", "provider"}, Go(p), (session => setup)'
    PROVE  PageInv'
<1>1. /\ calls' = {} /\ user' = FALSE /\ gate' = "unmounted" /\ loading' = FALSE
      /\ inner' = "off"
  BY DEF Go
<1>2. Target(user, loading, gate)' = "stay"
  BY <1>1 DEF Target
<1>3. Rendered'
  BY <1>1, <1>2 DEF Rendered, ShowsPublic
<1> QED
  BY <1>1, <1>3 DEF PageInv, Awaited, FirstAwaited, Placed, TrueReplies, Truthful

\* The calls after a render: those it kept and those it made.
LEMMA CommitKeeps ==
    ASSUME NEW u, NEW l, NEW g, NEW f, NEW cs \in SUBSET Call, Commit(u, l, g, f, cs)
    PROVE  /\ \A b \in cs : \E c \in calls' :
                 /\ c.op = b.op /\ c.reply = b.reply
                 /\ ShowsPublic(u, l, g) => c = b
           /\ \A c \in calls' :
                 \/ c = Request("status") /\ Asks(u, l, g)
                 \/ c = Request("first") /\ BootstrapGateMounts(u, l, g)
                 \/ \E b \in cs :
                       /\ b.op = c.op /\ b.reply = c.reply
                       /\ IF ShowsPublic(u, l, g) \/ c.op \notin {"first"} \cup VisitorOps
                          THEN c = b ELSE c.op = "first" => ~c.alive
                       /\ c.alive => b.alive
           /\ Asks(u, l, g) => Request("status") \in calls'
           /\ BootstrapGateMounts(u, l, g) => Request("first") \in calls'
<1> DEFINE kept == IF ShowsPublic(u, l, g) THEN cs ELSE {Unheard(c) : c \in cs}
<1>1. calls' = kept \cup (IF Asks(u, l, g) THEN {Request("status")} ELSE {})
                    \cup (IF BootstrapGateMounts(u, l, g) THEN {Request("first")} ELSE {})
  BY DEF Commit
<1>2. \A c \in cs : /\ Unheard(c).op = c.op /\ Unheard(c).reply = c.reply
                    /\ c.op \notin {"first"} \cup VisitorOps => Unheard(c) = c
                    /\ c.op = "first" => ~Unheard(c).alive
                    /\ Unheard(c).alive => c.alive
  BY DEF Call, Unheard, Ops, VisitorOps
<1>3. CASE ShowsPublic(u, l, g)
  <2>1. kept = cs
    BY <1>3
  <2> HIDE DEF kept
  <2> QED BY <1>1, <1>3, <2>1
<1>4. CASE ~ShowsPublic(u, l, g)
  <2>1. kept = {Unheard(c) : c \in cs}
    BY <1>4
  <2> HIDE DEF kept
  <2>2. \A b \in cs : Unheard(b) \in calls'
    BY <1>1, <2>1
  <2>3. ASSUME NEW c \in calls'
        PROVE  \/ c = Request("status") /\ Asks(u, l, g)
               \/ c = Request("first") /\ BootstrapGateMounts(u, l, g)
               \/ \E b \in cs : c = Unheard(b)
    BY <1>1, <2>1
  <2> QED BY <1>1, <1>2, <1>4, <2>2, <2>3
<1> QED BY <1>3, <1>4

LEMMA RequestFresh ==
    ASSUME NEW op \in Ops
    PROVE  Request(op).op = op /\ Request(op).reply = "none" /\ Request(op).alive
  BY DEF Request

\* A render that stays on the page keeps what the page owes.
LEMMA CommitPage ==
    ASSUME TypeOK, page \in AuthPages,
           NEW u \in BOOLEAN, NEW l \in BOOLEAN, NEW g \in Gates, NEW f,
           NEW cs \in SUBSET Call, Commit(u, l, g, f, cs), UNCHANGED <<session, setup>>,
           Rendered, Truthful(u, g), TrueReplies(cs), Placed(cs, u, g),
           Target(u, l, g) = "stay", page \in FormPages => ~u,
           l => \E c \in cs : c.op \in AuthOps,
           g = "unknown" /\ AsksStatus(u, l) =>
               Asks(u, l, g) \/ \E c \in cs : c.op = "status",
           page \in FormPages /\ gate = "unmounted" => \A c \in cs : c.op # "status",
           inner = "waiting" => \E c \in cs : c.op = "first" /\ c.alive
    PROVE  PageInv'
<1>1. /\ user' = u /\ loading' = l /\ gate' = g /\ page' = page
      /\ inner' = IF BootstrapGateMounts(u, l, g) THEN "waiting"
                  ELSE IF ShowsPublic(u, l, g) THEN inner ELSE "off"
  BY DEF Commit
<1>2. /\ Request("status").op = "status" /\ Request("status").reply = "none"
      /\ Request("first").op = "first" /\ Request("first").reply = "none"
      /\ Request("first").alive
  BY RequestFresh DEF Ops
<1> DEFINE shown == ShowsPublic(u, l, g)
           mounts == BootstrapGateMounts(u, l, g)
           asks == Asks(u, l, g)
<1>3. \A b \in cs : \E c \in calls' : c.op = b.op /\ c.reply = b.reply /\ (shown => c = b)
  BY CommitKeeps
<1>4. /\ asks => Request("status") \in calls'
      /\ mounts => Request("first") \in calls'
  BY CommitKeeps
<1>5. \A c \in calls' :
         \/ c = Request("status") /\ asks
         \/ c = Request("first") /\ mounts
         \/ \E b \in cs :
               /\ b.op = c.op /\ b.reply = c.reply
               /\ IF shown \/ c.op \notin {"first"} \cup VisitorOps
                  THEN c = b ELSE c.op = "first" => ~c.alive
               /\ c.alive => b.alive
  BY CommitKeeps
<1>6. shown => ~l
  BY DEF ShowsPublic
<1>7. mounts => shown /\ page = "signup"
  BY DEF BootstrapGateMounts
<1>8. asks => g = "unknown" /\ ~u
  BY DEF Asks
<1>9. asks /\ page \in FormPages => \A c \in cs : c.op # "status"
  BY DEF Asks, Rendered, TypeOK, FormPages
<1>10. Rendered'
  <2>1. page = "signup" /\ shown => inner' # "off"
    BY <1>1 DEF BootstrapGateMounts
  <2> QED BY <1>1, <2>1 DEF Rendered, Target, ShowsPublic
<1> HIDE DEF shown, mounts, asks
<1>11. Awaited(calls, user, loading, gate)'
  BY <1>1, <1>2, <1>3, <1>4 DEF Awaited, AsksStatus, asks
<1>12. FirstAwaited(calls, loading)'
  <2>1. inner' = "waiting" => mounts \/ (shown /\ inner = "waiting")
    BY <1>1 DEF shown, mounts
  <2>2. \A c \in calls' : c.op = "first" /\ c.alive /\ page = "signup" => ~l
    BY <1>2, <1>5, <1>6, <1>7
  <2> QED BY <1>1, <1>2, <1>3, <1>4, <2>1, <2>2 DEF FirstAwaited, AuthPages, FormPages
<1>13. TrueReplies(calls)'
  BY <1>1, <1>2, <1>5 DEF TrueReplies
<1>14. Truthful(user, gate)'
  BY <1>1 DEF Truthful
<1>15. Placed(calls, user, gate)'
  <2> SUFFICES ASSUME NEW c \in calls'
               PROVE  /\ c.op = "me" => ~u
                      /\ c.op \in {"signIn", "oauth"} => page = "login" /\ g = "done"
                      /\ c.op = "signUp" => page = "signup" /\ g = "needs"
                      /\ c.op = "signOut" => page = "app"
                      /\ c.op = "first" => /\ page \in {"root", "signup"}
                                           /\ page = "root" => c.alive
                      /\ c.op = "status" /\ page \in FormPages =>
                            g = "unknown" /\ \A d \in calls' : d.op = "status" => c = d
    BY <1>1 DEF Placed
  <2>1. /\ c.op = "me" => ~u
        /\ c.op \in {"signIn", "oauth"} => page = "login" /\ g = "done"
        /\ c.op = "signUp" => page = "signup" /\ g = "needs"
        /\ c.op = "signOut" => page = "app"
    BY <1>2, <1>5 DEF Placed
  <2>2. c.op = "first" => /\ page \in {"root", "signup"}
                          /\ page = "root" => c.alive
    BY <1>2, <1>5, <1>7 DEF Placed, AuthPages, FormPages
  <2>3. ASSUME c.op = "status", page \in FormPages
        PROVE  g = "unknown" /\ \A d \in calls' : d.op = "status" => c = d
    <3>1. \A d \in calls' : d.op = "status" => (d = Request("status") /\ asks) \/ d \in cs
      BY <1>2, <1>5 DEF VisitorOps
    <3>2. CASE asks
      BY <1>8, <1>9, <2>3, <3>1, <3>2
    <3>3. CASE ~asks
      BY <2>3, <3>1, <3>3 DEF Placed
    <3> QED BY <3>2, <3>3
  <2> QED BY <2>1, <2>2, <2>3
<1> QED BY <1>10, <1>11, <1>12, <1>13, <1>14, <1>15 DEF PageInv


LEMMA RenderPage ==
    ASSUME TypeOK, page \in AuthPages,
           NEW u \in BOOLEAN, NEW l \in BOOLEAN, NEW g \in Gates, NEW f,
           NEW cs \in SUBSET Call, Render(u, l, g, f, cs), UNCHANGED server,
           Rendered, Truthful(u, g), TrueReplies(cs), Placed(cs, u, g),
           g # "unmounted",
           l => /\ \E c \in cs : c.op \in AuthOps
                /\ page \in FormPages => ~u,
           g = "unknown" /\ AsksStatus(u, l) =>
               Asks(u, l, g) \/ \E c \in cs : c.op = "status",
           page \in FormPages /\ gate = "unmounted" => \A c \in cs : c.op # "status",
           inner = "waiting" => \E c \in cs : c.op = "first" /\ c.alive
    PROVE  PageInv'
<1>1. UNCHANGED <<session, setup>>
  BY DEF server
<1>2. CASE Target(u, l, g) = "stay"
  <2>1. Commit(u, l, g, f, cs)
    BY <1>2 DEF Render
  <2>2. page \in FormPages => ~u
    BY <1>2 DEF Target, FormPages
  <2> QED BY <1>1, <1>2, <2>1, <2>2, CommitPage
<1>3. CASE Target(u, l, g) # "stay"
  <2>1. Target(u, l, g) \in {"stay", "root", "app", "signup", "login"}
    BY DEF Target
  <2>2. Target(u, l, g) \in AuthPages \cup {"root", "provider"}
    BY <1>3, <2>1 DEF AuthPages, FormPages
  <2>3. Go(Target(u, l, g))
    BY <1>3 DEF Render
  <2> QED BY <1>1, <2>2, <2>3, GoPage DEF Truthful
<1> QED BY <1>2, <1>3

WholeInv == SessionInv /\ PageInv

LEMMA WholeParts ==
    ASSUME WholeInv
    PROVE  /\ TypeOK /\ Rendered /\ TrueReplies(calls) /\ Truthful(user, gate)
           /\ Placed(calls, user, gate) /\ Awaited(calls, user, loading, gate)
           /\ FirstAwaited(calls, loading)
           /\ user \in BOOLEAN /\ loading \in BOOLEAN /\ gate \in Gates
           /\ calls \in SUBSET Call /\ form \in Forms
           /\ page \in FormPages => ~user
           /\ user => hydrated
           /\ page \in FormPages /\ gate = "unmounted" => \A c \in calls : c.op # "status"
  BY DEF WholeInv, SessionInv, PageInv, TypeOK, Gates, Forms, Rendered, Placed

LEMMA PageInit == Init => PageInv
<1> SUFFICES ASSUME Init PROVE PageInv
  OBVIOUS
<1>1. Target(user, loading, gate) = "stay"
  BY DEF Init, Target
<1> QED
  BY <1>1 DEF Init, PageInv, Rendered, ShowsPublic, Awaited, FirstAwaited, Placed,
              TrueReplies, Truthful

LEMMA HydratePage == WholeInv /\ HydrateOnce => PageInv'
<1> SUFFICES ASSUME WholeInv, HydrateOnce PROVE PageInv'
  OBVIOUS
<1> DEFINE cs == calls \cup {Request("me")}
<1>1. /\ Request("me") \in Call /\ Request("me").op = "me" /\ Request("me").reply = "none"
  BY RequestIsCall DEF Ops
<1>2. /\ page \in AuthPages /\ ~hydrated /\ UNCHANGED server
      /\ Commit(user, TRUE, gate, form, cs)
  BY DEF HydrateOnce
<1>3. ~user
  BY <1>2, WholeParts
<1>4. Placed(cs, user, gate) /\ TrueReplies(cs)
  BY <1>1, <1>3, WholeParts DEF Placed, TrueReplies
<1>5. Target(user, TRUE, gate) = "stay"
  BY DEF Target
<1>6. /\ cs \in SUBSET Call
      /\ \E c \in cs : c.op \in AuthOps
      /\ gate = "unknown" /\ AsksStatus(user, TRUE) => \E c \in cs : c.op = "status"
      /\ page \in FormPages /\ gate = "unmounted" => \A c \in cs : c.op # "status"
      /\ inner = "waiting" => \E c \in cs : c.op = "first" /\ c.alive
  BY <1>1, WholeParts DEF Awaited, AsksStatus, FirstAwaited, AuthOps
<1> HIDE DEF cs
<1> QED BY <1>2, <1>3, <1>4, <1>5, <1>6, WholeParts, CommitPage DEF server

LEMMA MountGatePage == WholeInv /\ MountGate => PageInv'
<1> SUFFICES ASSUME WholeInv, MountGate PROVE PageInv'
  OBVIOUS
<1>1. /\ page \in AuthPages /\ gate = "unmounted" /\ UNCHANGED server
      /\ Render(user, loading, "unknown", form, calls)
  BY DEF MountGate
<1>2. Placed(calls, user, "unknown") /\ Truthful(user, "unknown")
  BY <1>1, WholeParts DEF Placed, Truthful
<1>3. AsksStatus(user, loading) => Asks(user, loading, "unknown")
  BY <1>1 DEF AsksStatus, Asks
<1>4. /\ loading => \E c \in calls : c.op \in AuthOps
      /\ inner = "waiting" => \E c \in calls : c.op = "first" /\ c.alive
      /\ "unknown" \in Gates
  BY WholeParts DEF Awaited, FirstAwaited, Gates
<1> QED BY <1>1, <1>2, <1>3, <1>4, WholeParts, RenderPage

LEMMA MountFirstRunGatePage == WholeInv /\ MountFirstRunGate => PageInv'
<1> SUFFICES ASSUME WholeInv, MountFirstRunGate PROVE PageInv'
  OBVIOUS
<1>1. /\ Request("first").op = "first" /\ Request("first").reply = "none"
      /\ Request("first").alive
  BY RequestFresh DEF Ops
<1>2. /\ page = "root" /\ gate = "unmounted" /\ gate' = "unknown" /\ page' = page
      /\ calls' = {Request("first")} /\ user' = user /\ loading' = loading
      /\ inner' = inner /\ session' = session /\ setup' = setup
  BY DEF MountFirstRunGate, server
<1>3. ~loading
  BY <1>2 DEF WholeInv, SessionInv, PageInv, Awaited, Landing, AuthOps, VisitorOps
<1>4. Target(user, loading, gate)' = "stay"
  BY <1>2 DEF Target, FormPages
<1>5. Rendered'
  BY <1>2, <1>4 DEF Rendered, FormPages
<1>6. Truthful(user, gate)' /\ TrueReplies(calls)' /\ Placed(calls, user, gate)'
  BY <1>1, <1>2, WholeParts DEF Truthful, TrueReplies, Placed, FormPages
<1>7. Awaited(calls, user, loading, gate)' /\ FirstAwaited(calls, loading)'
  BY <1>1, <1>2, <1>3 DEF Awaited, AsksStatus, FirstAwaited, FormPages
<1> QED BY <1>5, <1>6, <1>7 DEF PageInv

LEMMA BeginPage ==
    ASSUME WholeInv, NEW op \in VisitorOps, Begin(op),
           \/ op \in {"signIn", "oauth"} /\ page = "login" /\ gate = "done"
           \/ op = "signUp" /\ page = "signup" /\ gate = "needs"
           \/ op = "signOut" /\ page = "app"
    PROVE  PageInv'
<1> DEFINE cs == calls \cup {Request(op)}
           f == [busy |-> op, error |-> FALSE]
<1>1. /\ Request(op) \in Call /\ Request(op).op = op /\ Request(op).reply = "none"
  BY RequestIsCall DEF Ops
<1>2. /\ UNCHANGED server /\ Commit(user, TRUE, gate, f, cs)
  BY DEF Begin
<1>3. page \in AuthPages
  BY DEF AuthPages, FormPages
<1>4. Placed(cs, user, gate) /\ TrueReplies(cs)
  BY <1>1, WholeParts DEF Placed, TrueReplies, VisitorOps
<1>5. Target(user, TRUE, gate) = "stay"
  BY DEF Target
<1>6. /\ cs \in SUBSET Call
      /\ \E c \in cs : c.op \in AuthOps
      /\ gate = "unknown" /\ AsksStatus(user, TRUE) => \E c \in cs : c.op = "status"
      /\ page \in FormPages /\ gate = "unmounted" => \A c \in cs : c.op # "status"
      /\ inner = "waiting" => \E c \in cs : c.op = "first" /\ c.alive
  BY <1>1, WholeParts DEF Awaited, AsksStatus, FirstAwaited, AuthOps, FormPages
<1> HIDE DEF cs, f
<1> QED BY <1>2, <1>3, <1>4, <1>5, <1>6, WholeParts, CommitPage DEF server

LEMMA VisitorPage ==
    WholeInv /\ (SubmitLogin \/ GoogleSignIn \/ SubmitSignup \/ ClickLogout) => PageInv'
<1> SUFFICES ASSUME WholeInv,
                    SubmitLogin \/ GoogleSignIn \/ SubmitSignup \/ ClickLogout
             PROVE  PageInv'
  OBVIOUS
<1>1. /\ FormShown /\ page = "login" => gate = "done"
      /\ FormShown /\ page = "signup" => gate = "needs"
  BY DEF FormShown, ShowsPublic
<1>2. PICK op \in VisitorOps :
        /\ Begin(op)
        /\ \/ op \in {"signIn", "oauth"} /\ page = "login" /\ gate = "done"
           \/ op = "signUp" /\ page = "signup" /\ gate = "needs"
           \/ op = "signOut" /\ page = "app"
  BY <1>1 DEF SubmitLogin, GoogleSignIn, SubmitSignup, ClickLogout, ShowsApp, VisitorOps
<1> QED BY <1>2, BeginPage

LEMMA PageLoadPage ==
    ASSUME WholeInv,
           ProviderAnswers \/ \E p \in AuthPages \cup {"root"} : Visit(p)
    PROVE  PageInv'
<1>1. session => setup
  BY WholeParts DEF Truthful
<1>2. CASE ProviderAnswers
  <2>1. Go("callback") /\ (session' => setup')
    BY <1>1, <1>2 DEF ProviderAnswers
  <2> QED BY <2>1, GoPage DEF AuthPages
<1>3. CASE \E p \in AuthPages \cup {"root"} : Visit(p)
  <2>1. PICK p \in AuthPages \cup {"root"} : Visit(p)
    BY <1>3
  <2>2. Go(p) /\ (session' => setup')
    BY <1>1, <2>1 DEF Visit, server
  <2> QED BY <2>2, GoPage
<1> QED BY <1>2, <1>3


\* An answer is put on its way: what the page waits for is still asked.
LEMMA AnswerPage ==
    ASSUME WholeInv, NEW c \in calls, NEW r \in Replies, Answer(c, r),
           UNCHANGED <<page, user, loading, hydrated, gate, inner, form>>,
           TrueReplies(calls)', Truthful(user, gate)'
    PROVE  PageInv'
<1> DEFINE d == [c EXCEPT !.reply = r]
<1>1. c \in Call
  BY DEF WholeInv, SessionInv, TypeOK
<1>2. d \in Call /\ d.op = c.op /\ d.reply = r /\ d.alive = c.alive
  BY <1>1 DEF Call
<1>3. calls' = (calls \ {c}) \cup {d}
  BY DEF Answer
<1> HIDE DEF d
<1>4. Rendered'
  <2>1. Target(user, loading, gate)' = "stay"
    BY WholeParts DEF Rendered, Target
  <2> QED BY <2>1, WholeParts DEF Rendered, ShowsPublic
<1>5. \A b \in calls : \E e \in calls' : e.op = b.op /\ e.alive = b.alive
  BY <1>2, <1>3
<1>6. \A e \in calls' : \E b \in calls : e.op = b.op /\ e.alive = b.alive
  BY <1>2, <1>3
<1>7. Awaited(calls, user, loading, gate)'
  BY <1>5, WholeParts DEF Awaited, AsksStatus
<1>8. FirstAwaited(calls, loading)'
  BY <1>5, <1>6, WholeParts DEF FirstAwaited
<1>9. Placed(calls, user, gate)'
  BY <1>2, <1>3, WholeParts DEF Placed
<1> QED BY <1>4, <1>7, <1>8, <1>9 DEF PageInv

LEMMA ServePage == WholeInv /\ Serve => PageInv'
<1> SUFFICES ASSUME WholeInv, Serve PROVE PageInv'
  OBVIOUS
<1> PICK c \in calls :
      /\ c.reply = "none"
      /\ \/ c.op = "me" /\ ServeMe(c)
         \/ c.op \in {"status", "first"} /\ ServeStatus(c)
         \/ c.op \in {"signIn", "signUp"} /\ ServeCredentials(c)
         \/ c.op = "oauth" /\ ServeAuthorize(c)
         \/ c.op = "signOut" /\ ServeSignOut(c)
  BY DEF Serve
<1>1. UNCHANGED <<page, user, loading, hydrated, gate, inner, form>>
  BY DEF Serve
<1>2. c \in Call /\ setup \in BOOLEAN
  BY DEF WholeInv, SessionInv, TypeOK
<1>3. /\ session => setup
      /\ user => setup
      /\ gate = "needs" /\ page \in {"login", "app"} => ~setup
  BY WholeParts DEF Truthful
\* Only a served sign-up can bring the first user: no other answer depends on it.
<1>4. ASSUME NEW r \in Replies, Answer(c, r), (setup' <=> setup),
             session' => setup,
             c.op \in {"me", "signIn", "signUp"} /\ r = "ok" => setup,
             c.op \in {"status", "first"} => r = IF setup THEN "done" ELSE "needs"
      PROVE  PageInv'
  <2> DEFINE d == [c EXCEPT !.reply = r]
  <2>1. d.op = c.op /\ d.reply = r /\ calls' = (calls \ {c}) \cup {d}
    BY <1>2, <1>4 DEF Call, Answer
  <2> HIDE DEF d
  <2>2. TrueReplies(calls)'
    BY <1>2, <1>4, <2>1, WholeParts DEF TrueReplies
  <2>3. Truthful(user, gate)'
    BY <1>1, <1>3, <1>4 DEF Truthful
  <2> QED BY <1>1, <1>4, <2>2, <2>3, AnswerPage
<1>5. ASSUME c.op = "signUp", Answer(c, "ok"), session', setup'
      PROVE  PageInv'
  <2> DEFINE d == [c EXCEPT !.reply = "ok"]
  <2>1. d.op = c.op /\ d.reply = "ok" /\ calls' = (calls \ {c}) \cup {d}
    BY <1>2, <1>5 DEF Call, Answer
  <2> HIDE DEF d
  <2>2. page = "signup" /\ gate = "needs" /\ loading
    BY <1>5, WholeParts DEF Placed, WholeInv, SessionInv, Flagged, AuthOps, VisitorOps
  <2>3. \A b \in calls : b.op # "status" /\ (b.op = "first" => ~b.alive)
    BY <2>2, WholeParts DEF Placed, FirstAwaited, FormPages
  <2>4. TrueReplies(calls)'
    BY <1>5, <2>1, <2>3, WholeParts DEF TrueReplies
  <2>5. Truthful(user, gate)'
    BY <1>1, <1>5, <2>2 DEF Truthful
  <2> QED BY <1>1, <1>5, <2>4, <2>5, AnswerPage DEF Replies
<1>6. CASE c.op = "me" /\ ServeMe(c)
  BY <1>3, <1>4, <1>6 DEF ServeMe, Replies
<1>7. CASE c.op \in {"status", "first"} /\ ServeStatus(c)
  BY <1>3, <1>4, <1>7 DEF ServeStatus, Replies
<1>8. CASE c.op \in {"signIn", "signUp"} /\ ServeCredentials(c)
  <2>1. CASE Answer(c, "refused") /\ UNCHANGED <<session, setup, vouched>>
    BY <1>3, <1>4, <1>8, <2>1 DEF Replies
  <2>2. CASE (c.op = "signUp" \/ setup) /\ session' = TRUE /\ setup' = TRUE /\ Answer(c, "ok")
    <3>1. CASE c.op = "signUp"
      BY <1>5, <2>2, <3>1
    <3>2. CASE setup
      BY <1>4, <1>8, <2>2, <3>2 DEF Replies
    <3> QED BY <2>2, <3>1, <3>2
  <2> QED BY <1>8, <2>1, <2>2 DEF ServeCredentials
<1>9. CASE c.op = "oauth" /\ ServeAuthorize(c)
  BY <1>3, <1>4, <1>9 DEF ServeAuthorize, Replies
<1>10. CASE c.op = "signOut" /\ ServeSignOut(c)
  BY <1>4, <1>10 DEF ServeSignOut, Replies
<1> QED BY <1>6, <1>7, <1>8, <1>9, <1>10

LEMMA FaultPage == WholeInv /\ (Lose \/ Expire) => PageInv'
<1> SUFFICES ASSUME WholeInv, Lose \/ Expire PROVE PageInv'
  OBVIOUS
<1>1. CASE Lose
  <2>1. PICK c \in calls : Answer(c, "lost")
    BY <1>1 DEF Lose
  <2> DEFINE d == [c EXCEPT !.reply = "lost"]
  <2>2. /\ UNCHANGED <<page, user, loading, hydrated, gate, inner, form>>
        /\ UNCHANGED <<session, setup>>
    BY <1>1 DEF Lose
  <2>3. d.op = c.op /\ d.reply = "lost" /\ calls' = (calls \ {c}) \cup {d}
    BY <2>1, WholeParts DEF Call, Answer
  <2> HIDE DEF d
  <2>4. TrueReplies(calls)' /\ Truthful(user, gate)'
    BY <2>2, <2>3, WholeParts DEF TrueReplies, Truthful
  <2> QED BY <2>1, <2>2, <2>4, AnswerPage DEF Replies
<1>2. CASE Expire
  <2>1. /\ UNCHANGED <<page, user, loading, hydrated, gate, inner, form, calls, setup>>
        /\ session' = FALSE
    BY <1>2 DEF Expire, client
  <2>2. Target(user, loading, gate)' = "stay"
    BY <2>1, WholeParts DEF Rendered, Target
  <2>3. Rendered'
    BY <2>1, <2>2, WholeParts DEF Rendered, ShowsPublic
  <2>4. (Awaited(calls, user, loading, gate) /\ FirstAwaited(calls, loading))'
    BY <2>1, WholeParts DEF Awaited, AsksStatus, FirstAwaited
  <2>5. (Placed(calls, user, gate) /\ TrueReplies(calls) /\ Truthful(user, gate))'
    BY <2>1, WholeParts DEF Placed, TrueReplies, Truthful
  <2> QED BY <2>3, <2>4, <2>5 DEF PageInv
<1> QED BY <1>1, <1>2

\* What the page still waits for once the answer to c is taken.
LEMMA LeftPage ==
    ASSUME WholeInv, NEW c \in calls
    PROVE  /\ calls \ {c} \in SUBSET Call
           /\ TrueReplies(calls \ {c})
           /\ Placed(calls \ {c}, user, gate)
           /\ c.op \notin AuthOps /\ loading => \E b \in calls \ {c} : b.op \in AuthOps
           /\ c.op # "status" /\ gate = "unknown" /\ AsksStatus(user, loading) =>
                 \E b \in calls \ {c} : b.op = "status"
           /\ (c.op # "first" \/ ~c.alive) /\ inner = "waiting" =>
                 \E b \in calls \ {c} : b.op = "first" /\ b.alive
           /\ c.op \in AuthOps => loading /\ \A b \in calls \ {c} : b.op \notin AuthOps
  BY WholeParts
     DEF TrueReplies, Placed, Awaited, FirstAwaited, WholeInv, SessionInv, Alone, Flagged

LEMMA SessionAnswerPage ==
    ASSUME WholeInv, page \in AuthPages, gate # "unmounted", NEW c \in calls, c.op = "me",
           SessionAnswered(c), UNCHANGED server
    PROVE  PageInv'
<1> DEFINE u == c.reply = "ok"
           cs == calls \ {c}
<1>1. Render(u, FALSE, gate, form, cs) /\ u \in BOOLEAN
  BY DEF SessionAnswered
<1>2. ~user /\ loading /\ \A b \in cs : b.op # "me"
  BY WholeParts, LeftPage DEF Placed, AuthOps
<1>3. Truthful(u, gate)
  BY WholeParts DEF Truthful, TrueReplies
<1>4. /\ cs \in SUBSET Call /\ TrueReplies(cs)
      /\ inner = "waiting" => \E b \in cs : b.op = "first" /\ b.alive
  BY LeftPage
<1>5. Placed(cs, user, gate)
  BY LeftPage
<1>6. Placed(cs, u, gate)
  BY <1>2, <1>5 DEF Placed
<1>7. gate = "unknown" /\ AsksStatus(u, FALSE) =>
          Asks(u, FALSE, gate) \/ \E b \in cs : b.op = "status"
  <2>1. CASE page = "app"
    BY <1>2, <2>1 DEF AsksStatus, Asks
  <2>2. CASE page \in FormPages
    <3>1. gate = "unknown" => \E b \in cs : b.op = "status"
      BY <1>2, <2>2, LeftPage DEF AsksStatus
    <3> QED BY <3>1
  <2> QED BY <2>1, <2>2 DEF AsksStatus
<1> HIDE DEF u, cs
<1> QED BY <1>1, <1>3, <1>4, <1>6, <1>7, WholeParts, RenderPage

LEMMA StatusPage ==
    ASSUME WholeInv, page \in AuthPages, gate # "unmounted", NEW c \in calls,
           c.op = "status", c.reply # "none", StatusAnswered(c), UNCHANGED server
    PROVE  PageInv'
<1> DEFINE g == IF c.reply = "needs" THEN "needs" ELSE "done"
           cs == calls \ {c}
<1>1. Render(user, loading, g, form, cs) /\ g \in {"needs", "done"}
  BY DEF StatusAnswered
<1>2. Truthful(user, g)
  BY WholeParts DEF Truthful, TrueReplies
<1>3. /\ cs \in SUBSET Call /\ TrueReplies(cs)
      /\ inner = "waiting" => \E b \in cs : b.op = "first" /\ b.alive
      /\ loading => \E b \in cs : b.op \in AuthOps
  BY LeftPage DEF AuthOps, VisitorOps
<1>4. page \in FormPages => gate = "unknown" /\ \A b \in cs : b.op # "status"
  BY WholeParts DEF Placed
<1>5. Placed(cs, user, gate)
  BY LeftPage
<1>6. Placed(cs, user, g)
  BY <1>4, <1>5 DEF Placed, FormPages
<1>7. g \in Gates /\ g # "unmounted" /\ g # "unknown"
  BY <1>1 DEF Gates
<1> HIDE DEF g, cs
<1> QED BY <1>1, <1>2, <1>3, <1>6, <1>7, WholeParts, RenderPage

LEMMA FailurePage ==
    ASSUME WholeInv, page \in AuthPages, gate # "unmounted", NEW c \in calls,
           c.op \in {"signIn", "signUp", "oauth"}, SubmissionFailed(c), UNCHANGED server
    PROVE  PageInv'
<1> DEFINE cs == calls \ {c}
<1>1. Commit(user, FALSE, gate, FormAfter(c), cs) /\ UNCHANGED <<session, setup>>
  BY DEF SubmissionFailed, server
<1>2. ~user /\ ((page = "login" /\ gate = "done") \/ (page = "signup" /\ gate = "needs"))
  BY WholeParts DEF Placed, FormPages
<1>3. Target(user, FALSE, gate) = "stay"
  BY <1>2 DEF Target, FormPages
<1>4. /\ cs \in SUBSET Call /\ TrueReplies(cs) /\ Placed(cs, user, gate)
      /\ inner = "waiting" => \E b \in cs : b.op = "first" /\ b.alive
  BY LeftPage
<1> HIDE DEF cs
<1> QED BY <1>1, <1>2, <1>3, <1>4, WholeParts, CommitPage

LEMMA BootstrapPage ==
    ASSUME WholeInv, page = "signup", gate # "unmounted", NEW c \in calls, c.op = "first",
           BootstrapAnswered(c), UNCHANGED server
    PROVE  PageInv'
<1> DEFINE cs == calls \ {c}
<1>1. /\ cs \in SUBSET Call /\ TrueReplies(cs) /\ Placed(cs, user, gate)
      /\ loading => \E b \in cs : b.op \in AuthOps
      /\ gate = "unknown" /\ AsksStatus(user, loading) => \E b \in cs : b.op = "status"
      /\ ~c.alive /\ inner = "waiting" => \E b \in cs : b.op = "first" /\ b.alive
  BY LeftPage DEF AuthOps, VisitorOps
<1>2. CASE ~c.alive /\ Render(user, loading, gate, form, cs)
  <2>1. page \in AuthPages
    BY DEF AuthPages, FormPages
  <2> HIDE DEF cs
  <2> QED BY <1>1, <1>2, <2>1, WholeParts, RenderPage
<1>3. CASE /\ c.alive /\ inner' = "open" /\ calls' = cs
           /\ UNCHANGED <<page, user, loading, hydrated, gate, form, history>>
  <2>1. UNCHANGED <<session, setup>>
    BY DEF server
  <2>2. Target(user, loading, gate)' = "stay"
    BY <1>3, WholeParts DEF Rendered, Target
  <2>3. Rendered'
    BY <1>3, <2>2, WholeParts DEF Rendered, ShowsPublic
  <2>4. (Awaited(calls, user, loading, gate) /\ FirstAwaited(calls, loading))'
    BY <1>1, <1>3, WholeParts DEF Awaited, AsksStatus, FirstAwaited
  <2>5. (Placed(calls, user, gate) /\ TrueReplies(calls) /\ Truthful(user, gate))'
    BY <1>1, <1>3, <2>1, WholeParts DEF Placed, TrueReplies, Truthful
  <2> QED BY <2>3, <2>4, <2>5 DEF PageInv
<1>4. CASE Go("login")
  BY <1>4, WholeParts, GoPage DEF AuthPages, FormPages, Truthful, server
<1> QED BY <1>2, <1>3, <1>4 DEF BootstrapAnswered

LEMMA DeliverPage == WholeInv /\ Deliver => PageInv'
<1> SUFFICES ASSUME WholeInv, Deliver PROVE PageInv'
  OBVIOUS
<1>1. PICK c \in calls :
        /\ c.reply # "none"
        /\ \/ c.op = "me" /\ SessionAnswered(c)
           \/ c.op = "status" /\ StatusAnswered(c)
           \/ c.op = "first" /\ page = "root" /\ FirstRunAnswered(c)
           \/ c.op = "first" /\ page = "signup" /\ BootstrapAnswered(c)
           \/ c.op = "signIn" /\ SignInAnswered(c)
           \/ c.op = "signUp" /\ SignUpAnswered(c)
           \/ c.op = "oauth" /\ OAuthAnswered(c)
           \/ c.op = "signOut" /\ SignOutAnswered(c)
  BY DEF Deliver
<1>2. /\ UNCHANGED server
      /\ page \in AuthPages => gate # "unmounted"
      /\ (session => setup)'
  BY WholeParts DEF Deliver, Truthful, server
<1>3. c.op # "first" => page \in AuthPages
  BY DEF WholeInv, SessionInv, TypeOK, Landing
<1>4. CASE \E p \in {"root", "app", "signup", "login", "provider"} : Go(p)
  BY <1>2, <1>4, GoPage DEF AuthPages, FormPages
<1>5. CASE c.op = "me" /\ SessionAnswered(c)
  BY <1>2, <1>3, <1>5, SessionAnswerPage
<1>6. CASE c.op = "status" /\ StatusAnswered(c)
  BY <1>1, <1>2, <1>3, <1>6, StatusPage
<1>7. CASE c.op = "first" /\ page = "root" /\ FirstRunAnswered(c)
  BY <1>4, <1>7 DEF FirstRunAnswered
<1>8. CASE c.op = "first" /\ page = "signup" /\ BootstrapAnswered(c)
  BY <1>2, <1>8, BootstrapPage DEF AuthPages, FormPages
<1>9. CASE c.op = "signOut" /\ SignOutAnswered(c)
  BY <1>4, <1>9 DEF SignOutAnswered
<1>10. CASE /\ c.op \in {"signIn", "signUp", "oauth"}
            /\ SignInAnswered(c) \/ SignUpAnswered(c) \/ OAuthAnswered(c)
  <2>1. SubmissionFailed(c) \/ Go("app") \/ Go("provider")
    BY <1>10 DEF SignInAnswered, SignUpAnswered, OAuthAnswered
  <2>2. CASE SubmissionFailed(c)
    BY <1>2, <1>3, <1>10, <2>2, FailurePage
  <2> QED BY <1>4, <2>1, <2>2
<1> QED BY <1>1, <1>5, <1>6, <1>7, <1>8, <1>9, <1>10

LEMMA WholeNext == WholeInv /\ [Next]_vars => WholeInv'
<1> SUFFICES ASSUME WholeInv, [Next]_vars PROVE PageInv'
  BY SessionNext DEF WholeInv
<1>1. CASE Browser
  BY <1>1, HydratePage, MountGatePage, MountFirstRunGatePage, ServePage, DeliverPage
     DEF Browser
<1>2. CASE SubmitLogin \/ GoogleSignIn \/ SubmitSignup \/ ClickLogout
  BY <1>2, VisitorPage
<1>3. CASE ProviderAnswers \/ \E p \in AuthPages \cup {"root"} : Visit(p)
  BY <1>3, PageLoadPage
<1>4. CASE Lose \/ Expire
  BY <1>4, FaultPage
<1>5. CASE UNCHANGED vars
  <2>1. UNCHANGED <<page, user, loading, gate, inner, calls, session, setup>>
    BY <1>5 DEF vars, client, server
  <2>2. Target(user, loading, gate)' = "stay"
    BY <2>1, WholeParts DEF Rendered, Target
  <2> QED
    BY <2>1, <2>2, WholeParts
       DEF PageInv, Rendered, ShowsPublic, Awaited, AsksStatus, FirstAwaited, Placed,
           TrueReplies, Truthful
<1> QED BY <1>1, <1>2, <1>3, <1>4, <1>5 DEF Next

LEMMA WholeAlways == Spec => []WholeInv
<1>1. Init => WholeInv
  BY SessionInit, PageInit DEF WholeInv
<1> QED BY <1>1, WholeNext, PTL DEF Spec

-----------------------------------------------------------------------------
(* The redirects converge: Trips bounds the page loads that are left.      *)

\* On a sign-up page that must stay, news that sends the visitor away.
LostNews ==
    \/ gate = "done" \/ Answered("status", "lost")
    \/ \E c \in calls : c.op = "first" /\ c.reply = "lost" /\ c.alive

LEMMA TripsRange ==
    ASSUME TypeOK
    PROVE  Trips \in 0..3
<1>1. TripsFromLogin \in 0..2 /\ TripsFromSignup \in 0..2 /\ TripsFromApp \in 0..2
  BY DEF TripsFromLogin, TripsFromSignup, TripsFromApp, TypeOK
<1>2. \A p \in {"provider", "root", "callback"} : TripsFrom(p) \in 0..3
  BY DEF TripsFrom
<1>3. TripsFrom("root") \in 0..2
  BY DEF TripsFrom
<1> QED BY <1>1, <1>2, <1>3 DEF Trips, TypeOK, AuthPages, FormPages

\* A page load: what is left of the way depends on the server alone.
LEMMA GoTrips ==
    ASSUME NEW p \in AuthPages \cup {"root", "provider"}, Go(p),
           session \in BOOLEAN, setup \in BOOLEAN, session => setup,
           UNCHANGED <<session, setup>>
    PROVE  Trips' = TripsFrom(p)
<1>1. /\ page' = p /\ calls' = {} /\ user' = FALSE /\ gate' = "unmounted"
      /\ hydrated' = FALSE
  BY DEF Go
<1>2. /\ \A op, r : ~Answered(op, r)'
      /\ \A op : ~InFlight(op)'
      /\ ~Believed' /\ Checking'
  BY <1>1 DEF Answered, InFlight, Believed, Checking
<1>3. ~LostNews'
  BY <1>1, <1>2 DEF LostNews
<1>4. CASE p = "login"
  BY <1>1, <1>2, <1>4 DEF Trips, TripsFrom, TripsFromLogin
<1>5. CASE p = "signup"
  BY <1>1, <1>2, <1>3, <1>5 DEF Trips, TripsFrom, TripsFromSignup, LostNews
<1>6. CASE p = "app"
  BY <1>1, <1>2, <1>6 DEF Trips, TripsFrom, TripsFromApp
<1>7. CASE p \in {"root", "callback", "provider"}
  BY <1>1, <1>2, <1>7 DEF Trips, TripsFrom
<1> QED BY <1>4, <1>5, <1>6, <1>7 DEF AuthPages, FormPages

\* A step within a page that brings no news the way depends on.
LEMMA TripsSteady ==
    ASSUME TypeOK, UNCHANGED <<page, session, setup>>,
           \A op \in {"signIn", "signUp"}, r \in {"none", "ok"} :
               Answered(op, r)' => Answered(op, r),
           \A op \in {"oauth", "signOut"} : InFlight(op)' => InFlight(op),
           page = "signup" /\ Answered("signUp", "ok") => Answered("signUp", "ok")',
           ~session => (Believed' => Believed),
           session /\ (Believed \/ Checking) => Believed' \/ Checking',
           page = "root" /\ Answered("first", "lost")' => Answered("first", "lost"),
           page = "signup" /\ ~setup /\ LostNews' => LostNews
    PROVE  Trips' <= Trips
<1>1. session \in BOOLEAN /\ setup \in BOOLEAN
  BY DEF TypeOK
<1>2. CASE page = "login"
  BY <1>1, <1>2 DEF Trips, TripsFromLogin
<1>3. CASE page = "signup"
  BY <1>1, <1>3 DEF Trips, TripsFromSignup, LostNews
<1>4. CASE page = "app"
  BY <1>1, <1>4 DEF Trips, TripsFromApp
<1>5. CASE page \in {"root", "callback", "provider"}
  BY <1>1, <1>5 DEF Trips, TripsFrom
<1> QED BY <1>2, <1>3, <1>4, <1>5 DEF TypeOK, AuthPages, FormPages

LEMMA CommitTrips ==
    ASSUME WholeInv, page \in AuthPages,
           NEW u \in BOOLEAN, NEW l \in BOOLEAN, NEW g \in Gates, NEW f,
           NEW cs \in SUBSET Call, Commit(u, l, g, f, cs), UNCHANGED <<session, setup>>,
           \A b \in cs : b \in calls \/ (b.op = "me" /\ b.reply = "none"),
           page = "signup" /\ Answered("signUp", "ok") =>
               \E b \in cs : b.op = "signUp" /\ b.reply = "ok",
           ~session => (u => Believed),
           session /\ (Believed \/ Checking) =>
               u \/ ~hydrated' \/ \E b \in cs : b.op = "me" /\ b.reply \in {"none", "ok"},
           page = "signup" /\ ~setup /\ g = "done" => LostNews
    PROVE  Trips' <= Trips
<1>1. page' = page /\ gate' = g /\ user' = u
  BY DEF Commit
<1>2. /\ Request("status").op = "status" /\ Request("status").reply = "none"
      /\ Request("first").op = "first" /\ Request("first").reply = "none"
  BY RequestFresh DEF Ops
<1>3. \A b \in cs : \E c \in calls' : c.op = b.op /\ c.reply = b.reply
  BY CommitKeeps
<1>4. ASSUME NEW c \in calls', c.op \notin {"status", "first"} \/ c.reply # "none"
      PROVE  \E b \in cs : b.op = c.op /\ b.reply = c.reply /\ (c.alive => b.alive)
  BY <1>2, <1>4, CommitKeeps
<1>5. ASSUME NEW op, NEW r, op \notin {"status", "first"} \/ r # "none",
             op # "me" \/ r # "none", Answered(op, r)'
      PROVE  Answered(op, r)
  BY <1>4, <1>5 DEF Answered
<1>6. ASSUME NEW op \in {"oauth", "signOut"}, InFlight(op)'
      PROVE  InFlight(op)
  BY <1>4, <1>6 DEF InFlight
<1>7. page = "signup" /\ Answered("signUp", "ok") => Answered("signUp", "ok")'
  BY <1>3 DEF Answered
<1>8. ~session => (Believed' => Believed)
  BY <1>1, <1>5 DEF Believed
<1>9. session /\ (Believed \/ Checking) => Believed' \/ Checking'
  BY <1>1, <1>3 DEF Believed, Checking, Answered
<1>10. page = "signup" /\ ~setup /\ LostNews' => LostNews
  <2> SUFFICES ASSUME page = "signup", ~setup, LostNews' PROVE LostNews
    OBVIOUS
  <2>1. CASE gate' = "done"
    BY <1>1, <2>1
  <2>2. CASE Answered("status", "lost")'
    BY <1>5, <2>2 DEF LostNews
  <2>3. CASE \E c \in calls' : c.op = "first" /\ c.reply = "lost" /\ c.alive
    BY <1>4, <2>3 DEF LostNews
  <2> QED BY <2>1, <2>2, <2>3 DEF LostNews
<1>11. TypeOK
  BY WholeParts
<1>12. page = "root" /\ Answered("first", "lost")' => Answered("first", "lost")
  BY <1>5
<1>13. \A op \in {"signIn", "signUp"}, r \in {"none", "ok"} :
          Answered(op, r)' => Answered(op, r)
  BY <1>5
<1> QED BY <1>1, <1>6, <1>7, <1>8, <1>9, <1>10, <1>11, <1>12, <1>13, TripsSteady

\* A step on the way neither lengthens it nor loads a page in vain.
Shorter == Trips' <= Trips /\ (PageLoads => Trips' < Trips)

LEMMA StayShorter ==
    ASSUME Trips' <= Trips, gate = "unmounted" \/ gate' # "unmounted"
    PROVE  Shorter
  BY DEF Shorter, PageLoads

LEMMA GoShorter ==
    ASSUME WholeInv, NEW p \in AuthPages \cup {"root", "provider"}, Go(p), UNCHANGED server,
           TripsFrom(p) < Trips
    PROVE  Shorter
<1>1. session \in BOOLEAN /\ setup \in BOOLEAN /\ (session => setup)
  BY WholeParts DEF TypeOK, Truthful
<1>5. UNCHANGED <<session, setup>>
  BY DEF server
<1>2. Trips' = TripsFrom(p)
  BY <1>1, <1>5, GoTrips
<1>3. Trips \in 0..3
  BY WholeParts, TripsRange
<1>4. TripsFrom(p) \in 0..3
  BY DEF TripsFrom, AuthPages, FormPages
<1> QED BY <1>2, <1>3, <1>4 DEF Shorter

LEMMA RenderShorter ==
    ASSUME WholeInv, page \in AuthPages,
           NEW u \in BOOLEAN, NEW l \in BOOLEAN, NEW g \in Gates, NEW f,
           NEW cs \in SUBSET Call, Render(u, l, g, f, cs), UNCHANGED server,
           g # "unmounted", cs \subseteq calls,
           page = "signup" /\ Answered("signUp", "ok") =>
               \E b \in cs : b.op = "signUp" /\ b.reply = "ok",
           ~session => (u => Believed),
           session /\ (Believed \/ Checking) =>
               u \/ ~hydrated \/ \E b \in cs : b.op = "me" /\ b.reply \in {"none", "ok"},
           page = "signup" /\ ~setup /\ g = "done" => LostNews,
           Target(u, l, g) # "stay" => TripsFrom(Target(u, l, g)) < Trips
    PROVE  Shorter
<1>1. CASE Target(u, l, g) = "stay"
  <2>1. Commit(u, l, g, f, cs) /\ hydrated' = hydrated
    BY <1>1 DEF Render
  <2>2. gate' = g
    BY <2>1 DEF Commit
  <2>3. Trips' <= Trips
    BY <2>1, CommitTrips DEF server
  <2> QED BY <2>2, <2>3, StayShorter
<1>2. CASE Target(u, l, g) # "stay"
  <2>1. Target(u, l, g) \in {"stay", "root", "app", "signup", "login"}
    BY DEF Target
  <2>2. Target(u, l, g) \in AuthPages \cup {"root", "provider"}
    BY <1>2, <2>1 DEF AuthPages, FormPages
  <2>3. Go(Target(u, l, g))
    BY <1>2 DEF Render
  <2> QED BY <1>2, <2>2, <2>3, GoShorter
<1> QED BY <1>1, <1>2

LEMMA HydrateShorter == WholeInv /\ HydrateOnce => Shorter
<1> SUFFICES ASSUME WholeInv, HydrateOnce PROVE Shorter
  OBVIOUS
<1> DEFINE cs == calls \cup {Request("me")}
<1>1. /\ Request("me") \in Call /\ Request("me").op = "me" /\ Request("me").reply = "none"
  BY RequestIsCall DEF Ops
<1>2. /\ page \in AuthPages /\ UNCHANGED <<session, setup>>
      /\ Commit(user, TRUE, gate, form, cs)
  BY DEF HydrateOnce, server
<1>3. /\ cs \in SUBSET Call
      /\ \A b \in cs : b \in calls \/ (b.op = "me" /\ b.reply = "none")
      /\ Answered("signUp", "ok") => \E b \in cs : b.op = "signUp" /\ b.reply = "ok"
      /\ \E b \in cs : b.op = "me" /\ b.reply \in {"none", "ok"}
  BY <1>1, WholeParts DEF Answered
<1>4. (user => Believed) /\ (gate = "done" => LostNews)
  BY DEF Believed, LostNews
<1> HIDE DEF cs
<1>5. Trips' <= Trips
  BY <1>2, <1>3, <1>4, WholeParts, CommitTrips
<1>6. gate' = gate
  BY <1>2 DEF Commit
<1> QED BY <1>5, <1>6, StayShorter

LEMMA MountGateShorter == WholeInv /\ MountGate => Shorter
<1> SUFFICES ASSUME WholeInv, MountGate PROVE Shorter
  OBVIOUS
<1>1. /\ page \in AuthPages /\ gate = "unmounted" /\ UNCHANGED server
      /\ Render(user, loading, "unknown", form, calls)
  BY DEF MountGate
<1>2. Target(user, loading, "unknown") # "stay" =>
          page = "callback" /\ Target(user, loading, "unknown") = "root"
  BY WholeParts DEF Target, FormPages
<1>3. page = "callback" => TripsFrom("root") < Trips
  BY DEF Trips, TripsFrom
<1>4. /\ Answered("signUp", "ok") => \E b \in calls : b.op = "signUp" /\ b.reply = "ok"
      /\ user => Believed
      /\ Believed \/ Checking =>
            user \/ ~hydrated \/ \E b \in calls : b.op = "me" /\ b.reply \in {"none", "ok"}
  BY DEF Answered, Believed, Checking
<1>5. "unknown" \in Gates
  BY DEF Gates
<1> QED BY <1>1, <1>2, <1>3, <1>4, <1>5, WholeParts, RenderShorter

LEMMA MountFirstRunGateShorter == WholeInv /\ MountFirstRunGate => Shorter
<1> SUFFICES ASSUME WholeInv, MountFirstRunGate PROVE Shorter
  OBVIOUS
<1>1. /\ Request("first").op = "first" /\ Request("first").reply = "none"
  BY RequestFresh DEF Ops
<1>2. /\ page = "root" /\ gate = "unmounted" /\ gate' = "unknown"
      /\ page' = page /\ session' = session /\ setup' = setup
      /\ calls' = {Request("first")}
  BY DEF MountFirstRunGate, server
<1>3. ~Answered("first", "lost")'
  BY <1>1, <1>2 DEF Answered
<1>4. Trips' <= Trips
  BY <1>2, <1>3, WholeParts, TripsRange DEF Trips, TripsFrom, TypeOK
<1> QED BY <1>2, <1>4, StayShorter

\* The flag is up for one operation at most, so its answer is all there is.
LEMMA OnlyOne ==
    ASSUME WholeInv, NEW c \in calls, c.op \in AuthOps
    PROVE  /\ loading /\ hydrated
           /\ \A op \in AuthOps \ {c.op} : ~InFlight(op) /\ \A r : ~Answered(op, r)
           /\ \A r : Answered(c.op, r) => r = c.reply
  BY DEF WholeInv, SessionInv, Alone, Flagged, InFlight, Answered

LEMMA NoneInFlight ==
    ASSUME WholeInv, ~loading, NEW op \in AuthOps
    PROVE  ~InFlight(op) /\ \A r : ~Answered(op, r)
  BY DEF WholeInv, SessionInv, Flagged, InFlight, Answered

LEMMA SessionAnswerShorter ==
    ASSUME WholeInv, page \in AuthPages, gate # "unmounted", NEW c \in calls, c.op = "me",
           c.reply # "none", SessionAnswered(c), UNCHANGED server
    PROVE  Shorter
<1> DEFINE u == c.reply = "ok"
           cs == calls \ {c}
           T == Target(u, FALSE, gate)
<1>1. Render(u, FALSE, gate, form, cs) /\ u \in BOOLEAN /\ cs \in SUBSET Call /\ cs \subseteq calls
  BY WholeParts DEF SessionAnswered
<1>2. ~user /\ hydrated /\ (u => setup)
  BY WholeParts, OnlyOne DEF Placed, AuthOps, TrueReplies
<1>3. /\ \A op \in VisitorOps : ~InFlight(op) /\ \A r : ~Answered(op, r)
      /\ \A r : Answered("me", r) => r = c.reply
  BY OnlyOne DEF AuthOps, VisitorOps
<1>4. u => Answered("me", "ok")
  BY DEF Answered
<1>5. (Believed <=> u) /\ ~Checking
  BY <1>2, <1>3, <1>4 DEF Believed, Checking
<1>6. /\ session \in BOOLEAN /\ setup \in BOOLEAN /\ (session => setup) /\ gate \in Gates
      /\ gate = "needs" /\ page \in {"login", "app"} => ~setup
  BY WholeParts DEF TypeOK, Truthful
<1>7. gate = "done" => LostNews
  BY DEF LostNews
<1> HIDE DEF u, cs
<1>8. CASE page = "callback"
  <2>1. T = "root"
    BY <1>8 DEF Target, FormPages
  <2>2. TripsFrom("root") < Trips
    BY <1>8 DEF Trips, TripsFrom
  <2> QED BY <1>1, <1>3, <1>5, <1>8, <2>1, <2>2, WholeParts, RenderShorter DEF VisitorOps
<1>9. CASE page = "login"
  <2>1. T = IF u THEN "app" ELSE IF gate = "needs" THEN "signup" ELSE "stay"
    BY <1>6, <1>9 DEF Target, FormPages
  <2>2. u => TripsFrom("app") < Trips
    BY <1>2, <1>5, <1>6, <1>9 DEF Trips, TripsFrom, TripsFromLogin
  <2>3. gate = "needs" => TripsFrom("signup") < Trips
    BY <1>6, <1>9 DEF Trips, TripsFrom, TripsFromLogin
  <2> QED BY <1>1, <1>5, <1>9, <2>1, <2>2, <2>3, WholeParts, RenderShorter
<1>10. CASE page = "signup"
  <2>1. T = IF u THEN "app" ELSE IF gate = "done" THEN "login" ELSE "stay"
    BY <1>6, <1>10 DEF Target, FormPages
  <2>2. u => TripsFrom("app") < Trips
    BY <1>2, <1>5, <1>6, <1>10 DEF Trips, TripsFrom, TripsFromSignup
  <2>3. ~u /\ gate = "done" => TripsFrom("login") < Trips
    BY <1>3, <1>5, <1>6, <1>10 DEF Trips, TripsFrom, TripsFromSignup, VisitorOps
  <2> QED BY <1>1, <1>3, <1>5, <1>7, <1>10, <2>1, <2>2, <2>3, WholeParts, RenderShorter
          DEF VisitorOps
<1>11. CASE page = "app"
  <2>1. T = IF ~u /\ gate = "needs" THEN "signup"
            ELSE IF ~u /\ gate = "done" THEN "login" ELSE "stay"
    BY <1>6, <1>11 DEF Target, FormPages
  <2>2. ASSUME gate = "needs" PROVE TripsFrom("signup") < Trips
    <3>1. ~session /\ ~setup
      BY <1>6, <1>11, <2>2
    <3> QED BY <1>11, <3>1 DEF Trips, TripsFrom, TripsFromApp
  <2>3. ~u => TripsFrom("login") < Trips
    BY <1>5, <1>6, <1>11 DEF Trips, TripsFrom, TripsFromApp
  <2> QED BY <1>1, <1>5, <1>11, <2>1, <2>2, <2>3, WholeParts, RenderShorter
<1> QED BY <1>8, <1>9, <1>10, <1>11 DEF AuthPages, FormPages

LEMMA StatusShorter ==
    ASSUME WholeInv, page \in AuthPages, gate # "unmounted", hydrated, NEW c \in calls,
           c.op = "status", c.reply # "none", StatusAnswered(c), UNCHANGED server
    PROVE  Shorter
<1> DEFINE g == IF c.reply = "needs" THEN "needs" ELSE "done"
           cs == calls \ {c}
           T == Target(user, loading, g)
<1>1. /\ Render(user, loading, g, form, cs) /\ g \in {"needs", "done"}
      /\ cs \in SUBSET Call /\ cs \subseteq calls
  BY WholeParts DEF StatusAnswered
<1>2. /\ g = "needs" => ~setup
      /\ g = "done" /\ ~setup => Answered("status", "lost")
  BY WholeParts DEF TrueReplies, Answered
<1>3. /\ session \in BOOLEAN /\ setup \in BOOLEAN /\ session => setup
      /\ user \in BOOLEAN /\ loading \in BOOLEAN
      /\ page \in FormPages => ~user
  BY WholeParts DEF TypeOK, Truthful
<1>4. /\ Answered("signUp", "ok") => \E b \in cs : b.op = "signUp" /\ b.reply = "ok"
      /\ user => Believed
      /\ Believed \/ Checking =>
            user \/ ~hydrated \/ \E b \in cs : b.op = "me" /\ b.reply \in {"none", "ok"}
  BY DEF Answered, Believed, Checking
<1>5. ~setup /\ g = "done" => LostNews
  BY <1>2 DEF LostNews
<1>6. ASSUME ~loading, ~user
      PROVE  /\ ~Believed /\ ~Checking
             /\ ~Answered("signUp", "ok") /\ ~Answered("signUp", "none")
  BY <1>6, NoneInFlight DEF Believed, Checking, AuthOps, VisitorOps
<1> HIDE DEF g, cs
<1>7. ASSUME T # "stay" PROVE TripsFrom(T) < Trips
  <2>1. ~loading
    BY <1>7 DEF Target
  <2>2. CASE page = "callback"
    <3>1. T = "root"
      BY <1>1, <2>1, <2>2 DEF Target, FormPages
    <3> QED BY <2>2, <3>1 DEF Trips, TripsFrom
  <2>3. CASE page = "login"
    <3>1. T = "signup" /\ ~setup
      BY <1>1, <1>2, <1>3, <1>7, <2>1, <2>3 DEF Target, FormPages
    <3> QED BY <1>3, <2>3, <3>1 DEF Trips, TripsFrom, TripsFromLogin
  <2>4. CASE page = "signup"
    <3>1. T = "login" /\ ~user /\ g = "done"
      BY <1>1, <1>3, <1>7, <2>1, <2>4 DEF Target, FormPages
    <3> QED BY <1>2, <1>3, <1>6, <2>1, <2>4, <3>1 DEF Trips, TripsFrom, TripsFromSignup
  <2>5. CASE page = "app"
    <3>1. ~user /\ (T = "login" \/ (T = "signup" /\ ~setup))
      BY <1>1, <1>2, <1>3, <1>7, <2>1, <2>5 DEF Target, FormPages
    <3> QED BY <1>3, <1>6, <2>1, <2>5, <3>1 DEF Trips, TripsFrom, TripsFromApp
  <2> QED BY <2>2, <2>3, <2>4, <2>5 DEF AuthPages, FormPages
<1>8. g \in Gates /\ g # "unmounted"
  BY <1>1 DEF Gates
<1> HIDE DEF T
<1>9. Target(user, loading, g) # "stay" => TripsFrom(Target(user, loading, g)) < Trips
  BY <1>7 DEF T
<1> QED BY <1>1, <1>4, <1>5, <1>8, <1>9, WholeParts, RenderShorter

LEMMA FirstRunShorter ==
    ASSUME WholeInv, page = "root", NEW c \in calls, c.op = "first", c.reply # "none",
           FirstRunAnswered(c), UNCHANGED server
    PROVE  Shorter
<1>1. /\ c.reply \in {"lost", "needs", "done"}
      /\ c.reply = "needs" => ~setup
      /\ c.reply = "done" => setup
  BY WholeParts DEF TrueReplies, Placed
<1>2. session \in BOOLEAN /\ setup \in BOOLEAN /\ (session => setup)
  BY WholeParts DEF TypeOK, Truthful
<1>3. CASE c.reply = "needs"
  <2>1. Go("signup") /\ TripsFrom("signup") < Trips
    BY <1>1, <1>2, <1>3 DEF FirstRunAnswered, Trips, TripsFrom
  <2> QED BY <2>1, GoShorter DEF AuthPages, FormPages
<1>4. CASE c.reply = "done"
  <2>1. Go("login") /\ TripsFrom("login") < Trips
    BY <1>1, <1>2, <1>4 DEF FirstRunAnswered, Trips, TripsFrom
  <2> QED BY <2>1, GoShorter DEF AuthPages, FormPages
<1>5. CASE c.reply = "lost"
  <2>1. Answered("first", "lost")
    BY <1>5 DEF Answered
  <2>2. Go("root") /\ TripsFrom("root") < Trips
    BY <1>5, <2>1 DEF FirstRunAnswered, Trips, TripsFrom
  <2> QED BY <2>2, GoShorter
<1> QED BY <1>1, <1>3, <1>4, <1>5

LEMMA BootstrapShorter ==
    ASSUME WholeInv, page = "signup", gate # "unmounted", hydrated, NEW c \in calls,
           c.op = "first", c.reply # "none", BootstrapAnswered(c), UNCHANGED server
    PROVE  Shorter
<1> DEFINE cs == calls \ {c}
<1>1. /\ session \in BOOLEAN /\ setup \in BOOLEAN /\ session => setup
      /\ cs \in SUBSET Call /\ cs \subseteq calls /\ page \in AuthPages /\ ~user
  BY WholeParts DEF TypeOK, Truthful, AuthPages, FormPages
<1>2. /\ Answered("signUp", "ok") => \E b \in cs : b.op = "signUp" /\ b.reply = "ok"
      /\ Believed \/ Checking => \E b \in cs : b.op = "me" /\ b.reply \in {"none", "ok"}
  BY <1>1 DEF Answered, Believed, Checking
<1>3. gate = "done" => LostNews
  BY DEF LostNews
<1>4. CASE ~c.alive /\ Render(user, loading, gate, form, cs)
  <2> HIDE DEF cs
  <2>1. Target(user, loading, gate) = "stay"
    BY WholeParts DEF Rendered
  <2> QED BY <1>1, <1>2, <1>3, <1>4, <2>1, WholeParts, RenderShorter
<1>5. CASE /\ calls' = cs
           /\ UNCHANGED <<page, user, loading, hydrated, gate, form, history>>
  <2>1. \A op, r : Answered(op, r)' => Answered(op, r)
    BY <1>5 DEF Answered
  <2>2. \A op : InFlight(op)' => InFlight(op)
    BY <1>5 DEF InFlight
  <2>3. Answered("signUp", "ok") => Answered("signUp", "ok")'
    BY <1>2, <1>5 DEF Answered
  <2>4. Believed' => Believed
    BY <1>5, <2>1 DEF Believed
  <2>5. Believed \/ Checking => Believed' \/ Checking'
    BY <1>2, <1>5 DEF Believed, Checking, Answered
  <2>6. LostNews' => LostNews
    BY <1>5, <2>1 DEF LostNews
  <2>7. Trips' <= Trips
    BY <1>5, <2>1, <2>2, <2>3, <2>4, <2>5, <2>6, WholeParts, TripsSteady DEF server
  <2> QED BY <1>5, <2>7, StayShorter
<1>6. CASE c.alive /\ c.reply # "needs" /\ Go("login")
  <2>1. ~loading
    BY <1>6, WholeParts DEF FirstAwaited
  <2>2. ~Believed /\ ~Checking /\ ~Answered("signUp", "ok") /\ ~Answered("signUp", "none")
    BY <1>1, <2>1, NoneInFlight DEF Believed, Checking, AuthOps, VisitorOps
  <2>3. ~setup => c.reply = "lost"
    BY <1>6, WholeParts DEF TrueReplies
  <2>4. ~setup => \E b \in calls : b.op = "first" /\ b.reply = "lost" /\ b.alive
    BY <1>6, <2>3
  <2>5. TripsFrom("login") < Trips
    BY <1>1, <2>2, <2>4 DEF Trips, TripsFrom, TripsFromSignup
  <2> QED BY <1>6, <2>5, GoShorter DEF AuthPages, FormPages
<1> QED BY <1>4, <1>5, <1>6 DEF BootstrapAnswered

LEMMA FailureShorter ==
    ASSUME WholeInv, page \in AuthPages, gate # "unmounted", NEW c \in calls,
           c.op \in {"signIn", "signUp", "oauth"}, c.reply # "ok",
           SubmissionFailed(c), UNCHANGED server
    PROVE  Shorter
<1> DEFINE cs == calls \ {c}
<1>1. /\ Commit(user, FALSE, gate, FormAfter(c), cs) /\ UNCHANGED <<session, setup>>
      /\ hydrated' = hydrated
  BY DEF SubmissionFailed, server
<1>2. cs \in SUBSET Call /\ \A b \in cs : b \in calls
  BY WholeParts
<1>3. /\ Answered("signUp", "ok") => \E b \in cs : b.op = "signUp" /\ b.reply = "ok"
      /\ user => Believed
      /\ Believed \/ Checking =>
            user \/ ~hydrated \/ \E b \in cs : b.op = "me" /\ b.reply \in {"none", "ok"}
  BY DEF Answered, Believed, Checking
<1>4. gate = "done" => LostNews
  BY DEF LostNews
<1>5. gate' = gate
  BY <1>1 DEF Commit
<1> HIDE DEF cs
<1>6. Trips' <= Trips
  BY <1>1, <1>2, <1>3, <1>4, WholeParts, CommitTrips
<1> QED BY <1>5, <1>6, StayShorter

\* The four operations of the visitor, once answered.
LEMMA OperationShorter ==
    ASSUME WholeInv, page \in AuthPages, gate # "unmounted", NEW c \in calls,
           UNCHANGED server,
           \/ c.op = "signIn" /\ SignInAnswered(c)
           \/ c.op = "signUp" /\ SignUpAnswered(c)
           \/ c.op = "oauth" /\ OAuthAnswered(c)
           \/ c.op = "signOut" /\ SignOutAnswered(c)
    PROVE  Shorter
<1>1. session \in BOOLEAN /\ setup \in BOOLEAN /\ (session => setup)
  BY WholeParts DEF TypeOK, Truthful
<1>2. /\ c.op \in {"signIn", "signUp"} /\ c.reply = "ok" => setup
      /\ c.op \in {"signIn", "oauth"} => page = "login"
      /\ c.op = "signUp" => page = "signup"
      /\ c.op = "signOut" => page = "app"
  BY WholeParts DEF TrueReplies, Placed
<1>3. Answered(c.op, c.reply) /\ InFlight(c.op)
  BY DEF Answered, InFlight
<1>4. CASE c.op \in {"signIn", "signUp", "oauth"} /\ c.reply # "ok" /\ SubmissionFailed(c)
  BY <1>4, FailureShorter
<1>5. CASE c.op = "signIn" /\ c.reply = "ok" /\ Go("app")
  <2>1. TripsFrom("app") < Trips
    BY <1>1, <1>2, <1>3, <1>5 DEF Trips, TripsFrom, TripsFromLogin
  <2> QED BY <1>5, <2>1, GoShorter DEF AuthPages
<1>6. CASE c.op = "signUp" /\ c.reply = "ok" /\ Go("app")
  <2>1. TripsFrom("app") < Trips
    BY <1>1, <1>2, <1>3, <1>6 DEF Trips, TripsFrom, TripsFromSignup
  <2> QED BY <1>6, <2>1, GoShorter DEF AuthPages
<1>7. CASE c.op = "oauth" /\ Go("provider")
  <2>1. TripsFrom("provider") < Trips
    BY <1>1, <1>2, <1>3, <1>7 DEF Trips, TripsFrom, TripsFromLogin
  <2> QED BY <1>7, <2>1, GoShorter
<1>8. CASE c.op = "signOut" /\ Go("login")
  <2>1. TripsFrom("login") < Trips
    BY <1>1, <1>2, <1>3, <1>8 DEF Trips, TripsFrom, TripsFromApp
  <2> QED BY <1>8, <2>1, GoShorter DEF AuthPages, FormPages
<1> QED BY <1>4, <1>5, <1>6, <1>7, <1>8
        DEF SignInAnswered, SignUpAnswered, OAuthAnswered, SignOutAnswered

LEMMA DeliverShorter == WholeInv /\ Deliver => Shorter
<1> SUFFICES ASSUME WholeInv, Deliver PROVE Shorter
  OBVIOUS
<1>1. PICK c \in calls :
        /\ c.reply # "none"
        /\ \/ c.op = "me" /\ SessionAnswered(c)
           \/ c.op = "status" /\ StatusAnswered(c)
           \/ c.op = "first" /\ page = "root" /\ FirstRunAnswered(c)
           \/ c.op = "first" /\ page = "signup" /\ BootstrapAnswered(c)
           \/ c.op = "signIn" /\ SignInAnswered(c)
           \/ c.op = "signUp" /\ SignUpAnswered(c)
           \/ c.op = "oauth" /\ OAuthAnswered(c)
           \/ c.op = "signOut" /\ SignOutAnswered(c)
  BY DEF Deliver
<1>2. /\ UNCHANGED server
      /\ page \in AuthPages => hydrated /\ gate # "unmounted"
  BY DEF Deliver
<1>3. c.op # "first" => page \in AuthPages
  BY DEF WholeInv, SessionInv, TypeOK, Landing
<1>4. CASE c.op = "me" /\ SessionAnswered(c)
  BY <1>1, <1>2, <1>3, <1>4, SessionAnswerShorter
<1>5. CASE c.op = "status" /\ StatusAnswered(c)
  BY <1>1, <1>2, <1>3, <1>5, StatusShorter
<1>6. CASE c.op = "first" /\ page = "root" /\ FirstRunAnswered(c)
  BY <1>1, <1>2, <1>6, FirstRunShorter
<1>7. CASE c.op = "first" /\ page = "signup" /\ BootstrapAnswered(c)
  BY <1>1, <1>2, <1>7, BootstrapShorter DEF AuthPages, FormPages
<1>8. CASE \/ c.op = "signIn" /\ SignInAnswered(c)
           \/ c.op = "signUp" /\ SignUpAnswered(c)
           \/ c.op = "oauth" /\ OAuthAnswered(c)
           \/ c.op = "signOut" /\ SignOutAnswered(c)
  BY <1>2, <1>3, <1>8, OperationShorter
<1> QED BY <1>1, <1>4, <1>5, <1>6, <1>7, <1>8

LEMMA ServeShorter == WholeInv /\ Serve => Shorter
<1> SUFFICES ASSUME WholeInv, Serve PROVE Shorter
  OBVIOUS
<1> PICK c \in calls :
      /\ c.reply = "none"
      /\ \/ c.op = "me" /\ ServeMe(c)
         \/ c.op \in {"status", "first"} /\ ServeStatus(c)
         \/ c.op \in {"signIn", "signUp"} /\ ServeCredentials(c)
         \/ c.op = "oauth" /\ ServeAuthorize(c)
         \/ c.op = "signOut" /\ ServeSignOut(c)
  BY DEF Serve
<1>1. UNCHANGED <<page, user, loading, hydrated, gate, inner, form>>
  BY DEF Serve
<1>2. /\ c \in Call /\ session \in BOOLEAN /\ setup \in BOOLEAN /\ (session => setup)
      /\ TypeOK
  BY WholeParts DEF TypeOK, Truthful
<1>3. SUFFICES Trips' <= Trips
  BY <1>1, StayShorter
<1>4. Answered(c.op, "none") /\ InFlight(c.op)
  BY DEF Answered, InFlight
\* An answer that decides nothing for the way: refused, or about the set-up.
<1>5. ASSUME NEW r \in Replies, Answer(c, r), UNCHANGED <<session, setup>>,
             r \notin {"none", "lost"},
             c.op \in {"signIn", "signUp"} => r # "ok",
             c.op = "me" => (session <=> r = "ok")
      PROVE  Trips' <= Trips
  <2> DEFINE d == [c EXCEPT !.reply = r]
  <2>1. d.op = c.op /\ d.reply = r /\ d.alive = c.alive /\ calls' = (calls \ {c}) \cup {d}
    BY <1>2, <1>5 DEF Call, Answer
  <2> HIDE DEF d
  <2>2. \A op \in {"signIn", "signUp"}, s \in {"none", "ok"} :
            Answered(op, s)' => Answered(op, s)
    BY <1>5, <2>1 DEF Answered
  <2>3. \A op \in {"oauth", "signOut"} : InFlight(op)' => InFlight(op)
    BY <2>1 DEF InFlight
  <2>4. Answered("signUp", "ok") => Answered("signUp", "ok")'
    BY <2>1 DEF Answered
  <2>5. ~session => (Believed' => Believed)
    BY <1>1, <1>5, <2>1 DEF Believed, Answered
  <2>6. session /\ (Believed \/ Checking) => Believed' \/ Checking'
    BY <1>1, <1>5, <2>1 DEF Believed, Checking, Answered
  <2>7. \A op : Answered(op, "lost")' => Answered(op, "lost")
    BY <1>5, <2>1 DEF Answered
  <2>8. LostNews' => LostNews
    BY <1>1, <1>5, <2>1, <2>7 DEF LostNews
  <2> QED BY <1>1, <1>2, <1>5, <2>2, <2>3, <2>4, <2>5, <2>6, <2>7, <2>8, TripsSteady
<1>6. CASE c.op = "me" /\ ServeMe(c)
  BY <1>2, <1>5, <1>6 DEF ServeMe, Replies
<1>7. CASE c.op \in {"status", "first"} /\ ServeStatus(c)
  BY <1>2, <1>5, <1>7 DEF ServeStatus, Replies
<1>8. CASE c.op = "oauth" /\ ServeAuthorize(c)
  BY <1>2, <1>5, <1>8 DEF ServeAuthorize, Replies
<1>9. CASE c.op \in {"signIn", "signUp"} /\ ServeCredentials(c)
  <2>1. CASE Answer(c, "refused") /\ UNCHANGED <<session, setup, vouched>>
    BY <1>5, <1>9, <2>1 DEF Replies
  <2>2. CASE /\ c.op = "signUp" \/ setup
             /\ session' = TRUE /\ setup' = TRUE /\ Answer(c, "ok")
    <3> DEFINE d == [c EXCEPT !.reply = "ok"]
    <3>1. d.op = c.op /\ d.reply = "ok" /\ d \in calls'
      BY <1>2, <2>2 DEF Call, Answer
    <3> HIDE DEF d
    <3>2. Answered(c.op, "ok")'
      BY <3>1 DEF Answered
    <3>3. CASE c.op = "signIn"
      <4>1. page = "login" /\ page' = "login"
        BY <1>1, <3>3, WholeParts DEF Placed
      <4>2. Trips' = 1
        BY <2>2, <4>1 DEF Trips, TripsFromLogin
      <4>3. Trips >= 1
        BY <1>2, <1>4, <3>3, <4>1 DEF Trips, TripsFromLogin
      <4> QED BY <1>2, <4>2, <4>3, TripsRange
    <3>4. CASE c.op = "signUp"
      <4>1. page = "signup" /\ page' = "signup"
        BY <1>1, <3>4, WholeParts DEF Placed
      <4>2. Trips' = 1
        BY <2>2, <3>2, <3>4, <4>1 DEF Trips, TripsFromSignup
      <4>3. Trips >= 1
        BY <1>2, <1>4, <3>4, <4>1 DEF Trips, TripsFromSignup
      <4> QED BY <1>2, <4>2, <4>3, TripsRange
    <3> QED BY <1>9, <3>3, <3>4
  <2> QED BY <1>9, <2>1, <2>2 DEF ServeCredentials
<1>10. CASE c.op = "signOut" /\ ServeSignOut(c)
  <2>1. page = "app" /\ page' = "app" /\ session' = FALSE /\ setup' = setup
    BY <1>1, <1>10, WholeParts DEF Placed, ServeSignOut
  <2>2. Trips' = IF setup THEN 1 ELSE 2
    BY <2>1 DEF Trips, TripsFromApp
  <2>3. Trips >= IF setup THEN 1 ELSE 2
    BY <1>2, <1>4, <1>10, <2>1 DEF Trips, TripsFromApp
  <2> QED BY <1>2, <2>2, <2>3, TripsRange
<1> QED BY <1>6, <1>7, <1>8, <1>9, <1>10

-----------------------------------------------------------------------------
(* The theorems.                                                           *)

\* Store, gates, forms and calls of a page keep their type.
THEOREM SessionTypeOK == Spec => []TypeOK
<1>1. SessionInv => TypeOK
  BY DEF SessionInv
<1> QED BY <1>1, SessionAlways, PTL

\* The store holds a user only after the server confirmed him to this page load.
THEOREM SessionStoreVouched == Spec => []StoreVouched
<1>1. SessionInv => StoreVouched
  BY DEF SessionInv, StoreVouched
<1> QED BY <1>1, SessionAlways, PTL

\* No sign-in, sign-up or sign-out overlaps another one or the session check.
THEOREM SessionNoOverlap == Spec => []NoOverlappingAuthCalls
<1>1. SessionInv => NoOverlappingAuthCalls
  BY DEF SessionInv, Alone, AuthOps, NoOverlappingAuthCalls
<1> QED BY <1>1, SessionAlways, PTL

\* A form is offered only once the session check of its page load is over.
THEOREM SessionNoFormFlash == Spec => []NoFormFlash
<1>1. ASSUME SessionInv, FormShown
      PROVE  hydrated /\ ~ \E c \in calls : c.op \in {"me", "signOut"}
  <2>1. hydrated /\ ~loading
    BY <1>1, FormIsSettled
  <2> QED BY <1>1, <2>1 DEF SessionInv, Flagged, AuthOps, VisitorOps
<1>2. SessionInv => NoFormFlash
  BY <1>1 DEF NoFormFlash
<1> QED BY <1>2, SessionAlways, PTL

\* A page that shows nothing has an effect to run or an answer to take.
THEOREM SessionBlankMeansBusy == Spec => []BlankMeansBusy
<1>1. ASSUME WholeInv, ~Settled, page \in AuthPages => hydrated, gate # "unmounted"
      PROVE  \E c \in calls : c.op = "first" => page \in {"root", "signup"}
  <2>1. /\ page \in AuthPages \cup {"root"}
        /\ page = "root" => \E c \in calls : c.op = "first"
        /\ loading => \E c \in calls : c.op \in AuthOps
        /\ gate = "unknown" /\ AsksStatus(user, loading) => \E c \in calls : c.op = "status"
        /\ inner = "waiting" => \E c \in calls : c.op = "first"
        /\ gate \in {"unknown", "needs", "done"} /\ inner \in {"off", "waiting", "open"}
    BY <1>1, WholeParts DEF TypeOK, Settled, Awaited, FirstAwaited
  <2>2. \A c \in calls : c.op = "first" => page \in {"root", "signup"}
    BY <1>1, WholeParts DEF Placed
  <2> SUFFICES ASSUME calls = {} PROVE FALSE
    BY <2>2
  <2>3. page \in AuthPages /\ ~loading /\ inner # "waiting"
    BY <2>1
  <2>4. gate = "unknown" => ~AsksStatus(user, loading)
    BY <2>1
  <2>5. Target(user, loading, gate) = "stay" /\ (page \in FormPages => ~user)
    BY <1>1, WholeParts DEF Rendered
  <2>6. page # "callback"
    BY <1>1, <2>3, <2>5 DEF Target
  <2>7. CASE page = "app"
    BY <1>1, <2>1, <2>3, <2>4, <2>5, <2>7
       DEF Target, AsksStatus, Settled, ShowsApp, FormPages
  <2>8. CASE page = "login"
    BY <1>1, <2>1, <2>3, <2>4, <2>5, <2>8
       DEF Target, AsksStatus, Settled, FormShown, ShowsPublic, FormPages
  <2>9. CASE page = "signup"
    <3>1. gate = "needs"
      BY <1>1, <2>1, <2>3, <2>4, <2>5, <2>9 DEF Target, AsksStatus, FormPages
    <3>2. ShowsPublic(user, loading, gate)
      BY <2>3, <2>5, <2>9, <3>1 DEF ShowsPublic, FormPages
    <3>3. inner = "open"
      BY <1>1, <2>1, <2>3, <2>9, <3>2, WholeParts DEF Rendered
    <3> QED BY <1>1, <3>2, <3>3 DEF Settled, FormShown
  <2> QED BY <2>3, <2>6, <2>7, <2>8, <2>9 DEF AuthPages, FormPages
<1>2. WholeInv => BlankMeansBusy
  BY <1>1 DEF BlankMeansBusy
<1> QED BY <1>2, WholeAlways, PTL

\* Unless something more is lost or expires, a page load on the way to a page
\* that waits for the visitor shortens the way, and no other step lengthens it;
\* three page loads are the most it takes (TripsRange).
THEOREM SessionRedirectsConverge == Spec => RedirectsConverge
<1>1. ASSUME WholeInv, Next, ~Settled, faults' = faults
      PROVE  Shorter
  <2>1. faults \in Nat
    BY <1>1, WholeParts, FaultsAssumption DEF TypeOK
  <2>2. ~Lose /\ ~Expire
    BY <1>1, <2>1 DEF Lose, Expire
  <2>3. ~SubmitLogin /\ ~GoogleSignIn /\ ~SubmitSignup /\ ~ClickLogout
    BY <1>1 DEF SubmitLogin, GoogleSignIn, SubmitSignup, ClickLogout, Settled
  <2>4. ~ProviderAnswers /\ \A p : ~Visit(p)
    BY <1>1 DEF ProviderAnswers, Visit, Settled
  <2>5. Browser
    BY <1>1, <2>2, <2>3, <2>4 DEF Next
  <2> QED
    BY <1>1, <2>5, HydrateShorter, MountGateShorter, MountFirstRunGateShorter,
       ServeShorter, DeliverShorter DEF Browser
<1>2. WholeInv /\ [Next]_vars =>
          [~Settled /\ faults' = faults =>
              Trips' <= Trips /\ (PageLoads => Trips' < Trips)]_vars
  BY <1>1 DEF Shorter
<1> QED BY <1>2, WholeAlways, PTL DEF Spec, RedirectsConverge
=============================================================================
