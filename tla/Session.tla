------------------------------- MODULE Session -------------------------------
(***************************************************************************)
(* The browser's side of a session: the auth store, the auth service, the  *)
(* gates that decide what a page shows, the two sign-in forms and the page *)
(* loads between them.  Every navigation is a full page load, so it drops  *)
(* all of the page's JavaScript state and the requests it had in flight;   *)
(* the cookie and the `users` table stay.                                  *)
(*                                                                         *)
(* A request is served and its answer delivered in two steps, and either   *)
(* the request or the answer can get lost.  The client (better-fetch, no   *)
(* `throw` option) rejects only when an answer is lost: a refused request  *)
(* resolves without data.  The two mount effects of a page run in either   *)
(* order, both before the first answer.  nginx serves index.html for a     *)
(* path without a page, so `/login` and `/en/error` load "root".           *)
(***************************************************************************)
EXTENDS Naturals, FiniteSets

CONSTANT MaxFaults      \* bound on lost messages and expired sessions

ASSUME FaultsAssumption == MaxFaults \in Nat

VARIABLES
    page,       \* the page loaded, or "provider" while Google has the browser
    user,       \* $user # null
    loading,    \* $isAuthLoading
    hydrated,   \* AuthProvider's effect has run
    gate,       \* what the page's gate knows of the bootstrap status
    inner,      \* BootstrapGate around the sign-up form
    form,       \* the sign-in or sign-up form
    calls,      \* requests in flight
    session,    \* the cookie names a live session
    setup,      \* the `users` table has an active user
    faults,     \* faults so far
    vouched,    \* history: the server has confirmed a session to this page
    outcome     \* history: how the last submission of this page ended

client == <<page, user, loading, hydrated, gate, inner, form, calls>>
server == <<session, setup, faults>>
history == <<vouched, outcome>>
vars == <<client, server, history>>

FormPages == {"login", "signup"}
AuthPages == FormPages \cup {"callback", "app"}
VisitorOps == {"signIn", "signUp", "oauth", "signOut"}
Ops == VisitorOps \cup {"me", "status", "first"}
Replies == {"none", "lost", "refused", "ok", "needs", "done"}

\* alive: the component that awaits the answer is still mounted.
Call == [op : Ops, n : {1, 2}, reply : Replies, alive : BOOLEAN]
Blank == [busy |-> "no", error |-> FALSE]

TypeOK ==
    /\ page \in AuthPages \cup {"root", "provider"}
    /\ user \in BOOLEAN /\ loading \in BOOLEAN /\ hydrated \in BOOLEAN
    /\ gate \in {"unmounted", "unknown", "needs", "done"}
    /\ inner \in {"off", "waiting", "open"}
    /\ form \in [busy : {"no"} \cup VisitorOps, error : BOOLEAN]
    /\ calls \subseteq Call
    /\ session \in BOOLEAN /\ setup \in BOOLEAN /\ faults \in 0..MaxFaults
    /\ vouched \in BOOLEAN /\ outcome \in {"none", "failed"}

(***************************************************************************)
(* Pages                                                                   *)
(***************************************************************************)
Go(p) ==
    /\ page' = p
    /\ user' = FALSE /\ loading' = FALSE /\ hydrated' = FALSE
    /\ gate' = "unmounted" /\ inner' = "off" /\ form' = Blank
    /\ calls' = {}
    /\ vouched' = FALSE /\ outcome' = "none"

\* ProtectedRoute's children, rendered for these values of store and gate.
ShowsApp(u, l, g) == page = "app" /\ g # "unmounted" /\ ~l /\ u

ShowsPublic_Mutant(u, l, g) ==
    /\ ~u
    /\ \/ page = "login" /\ g = "done"
       \/ page = "signup" /\ g = "needs"

\* PublicOnlyRoute's children.
ShowsPublic(u, l, g) ==
    /\ ~l /\ ~u
    /\ \/ page = "login" /\ g = "done"
       \/ page = "signup" /\ g = "needs"

\* Where the page's gate sends the browser, or "stay".
Target(u, l, g) ==
    IF g = "unmounted" \/ l THEN "stay"
    ELSE CASE page = "callback" -> "root"
           [] page \in FormPages /\ u -> "app"
           [] page = "app" /\ ~u /\ g = "needs" -> "signup"
           [] page = "app" /\ ~u /\ g = "done" -> "login"
           [] page = "login" /\ ~u /\ g = "needs" -> "signup"
           [] page = "signup" /\ ~u /\ g = "done" -> "login"
           [] OTHER -> "stay"

Asks_Mutant(u, l, g) ==
    /\ g = "unknown" /\ ~u /\ gate = "unmounted"
    /\ page \in FormPages \/ (page = "app" /\ ~l)

\* The gate's first effect, re-run when a value it depends on changes.
Asks(u, l, g) ==
    /\ g = "unknown" /\ ~u
    /\ \/ page \in FormPages /\ (gate = "unmounted" \/ u # user)
       \/ page = "app" /\ ~l /\ (gate = "unmounted" \/ u # user \/ l # loading)

Request(op) ==
    [op |-> op, reply |-> "none", alive |-> TRUE,
     n |-> IF \E c \in calls : c.op = op /\ c.n = 1 THEN 2 ELSE 1]

\* BootstrapGate mounts with the public children of the sign-up page.
BootstrapGateMounts(u, l, g) ==
    page = "signup" /\ ShowsPublic(u, l, g) /\ inner = "off"

\* The answer to a form, or to the gate around it, once these are unmounted.
Unheard(c) ==
    IF c.op \in {"me", "status", "signOut"} THEN c ELSE [c EXCEPT !.alive = FALSE]

(***************************************************************************)
(* One render: store and gate take new values, the gates' effects run.     *)
(* Children that are no longer rendered lose their state, and what they    *)
(* await is answered to nobody.                                            *)
(***************************************************************************)
Commit(u, l, g, f, cs) ==
    LET shown == ShowsPublic(u, l, g)
        kept  == IF shown THEN cs ELSE {Unheard(c) : c \in cs}
    IN /\ user' = u /\ loading' = l /\ gate' = g
       /\ form' = IF shown THEN f ELSE Blank
       /\ inner' = IF BootstrapGateMounts(u, l, g) THEN "waiting"
                   ELSE IF shown THEN inner ELSE "off"
       /\ calls' = kept
            \cup (IF Asks(u, l, g) THEN {Request("status")} ELSE {})
            \cup (IF BootstrapGateMounts(u, l, g) THEN {Request("first")} ELSE {})
       /\ UNCHANGED <<page, vouched>>

Render(u, l, g, f, cs) ==
    IF Target(u, l, g) = "stay"
    THEN Commit(u, l, g, f, cs) /\ UNCHANGED <<hydrated, outcome>>
    ELSE Go(Target(u, l, g))

(***************************************************************************)
(* Mount effects                                                           *)
(***************************************************************************)
\* AuthProvider: getSession() once per page load, setAuthLoading(true).
HydrateOnce ==
    /\ page \in AuthPages /\ ~hydrated
    /\ hydrated' = TRUE
    /\ Commit(user, TRUE, gate, form, calls \cup {Request("me")})
    /\ UNCHANGED <<server, outcome>>

MountGate ==
    /\ page \in AuthPages /\ gate = "unmounted"
    /\ Render(user, loading, "unknown", form, calls)
    /\ UNCHANGED server

MountFirstRunGate ==
    /\ page = "root" /\ gate = "unmounted"
    /\ gate' = "unknown"
    /\ calls' = {Request("first")}
    /\ UNCHANGED <<page, user, loading, hydrated, inner, form, server, history>>

(***************************************************************************)
(* What the visitor does                                                   *)
(***************************************************************************)
FormShown == ShowsPublic(user, loading, gate) /\ (page = "signup" => inner = "open")

Begin_Mutant(op) ==
    /\ outcome' = "none"
    /\ Commit(user, loading, gate, [busy |-> op, error |-> FALSE],
              calls \cup {Request(op)})
    /\ UNCHANGED <<hydrated, server>>

Begin(op) ==
    /\ outcome' = "none"
    /\ Commit(user, TRUE, gate, [busy |-> op, error |-> FALSE],
              calls \cup {Request(op)})
    /\ UNCHANGED <<hydrated, server>>

SubmitLogin ==
    /\ page = "login" /\ FormShown /\ form.busy = "no"
    /\ Begin("signIn")

GoogleSignIn ==
    /\ page = "login" /\ FormShown /\ form.busy = "no"
    /\ Begin("oauth")

SubmitSignup ==
    /\ page = "signup" /\ FormShown /\ form.busy = "no"
    /\ Begin("signUp")

ClickLogout ==
    /\ ShowsApp(user, loading, gate)
    /\ Begin("signOut")

\* The page waits for the visitor.
Settled == FormShown \/ ShowsApp(user, loading, gate) \/ page = "provider"

\* The visitor follows a link or types an address.
Visit(p) ==
    /\ Settled
    /\ Go(p)
    /\ UNCHANGED server

\* Google asks the visitor; the backend's callback sets the cookie or not.
ProviderAnswers ==
    /\ page = "provider"
    /\ Go("callback")
    /\ \/ session' = TRUE /\ setup' = TRUE
       \/ UNCHANGED <<session, setup>>
    /\ UNCHANGED faults

(***************************************************************************)
(* The server, and the network between                                     *)
(***************************************************************************)
Answer(c, r) ==
    calls' = (calls \ {c}) \cup {[c EXCEPT !.reply = r]}

ServeMe(c) ==
    /\ Answer(c, IF session THEN "ok" ELSE "refused")
    /\ vouched' = (vouched \/ session)
    /\ UNCHANGED <<session, setup>>

ServeStatus(c) ==
    /\ Answer(c, IF setup THEN "done" ELSE "needs")
    /\ UNCHANGED <<session, setup, vouched>>

ServeCredentials(c) ==
    \/ /\ c.op = "signUp" \/ setup
       /\ session' = TRUE /\ setup' = TRUE /\ vouched' = TRUE
       /\ Answer(c, "ok")
    \/ /\ Answer(c, "refused")
       /\ UNCHANGED <<session, setup, vouched>>

ServeAuthorize(c) ==
    /\ \E r \in {"ok", "refused"} : Answer(c, r)
    /\ UNCHANGED <<session, setup, vouched>>

ServeSignOut(c) ==
    /\ session' = FALSE
    /\ Answer(c, "ok")
    /\ UNCHANGED <<setup, vouched>>

Serve ==
    /\ \E c \in calls :
        /\ c.reply = "none"
        /\ \/ c.op = "me" /\ ServeMe(c)
           \/ c.op \in {"status", "first"} /\ ServeStatus(c)
           \/ c.op \in {"signIn", "signUp"} /\ ServeCredentials(c)
           \/ c.op = "oauth" /\ ServeAuthorize(c)
           \/ c.op = "signOut" /\ ServeSignOut(c)
    /\ UNCHANGED <<page, user, loading, hydrated, gate, inner, form, faults, outcome>>

Lose ==
    /\ faults < MaxFaults
    /\ faults' = faults + 1
    /\ \E c \in calls : c.reply # "lost" /\ Answer(c, "lost")
    /\ UNCHANGED <<page, user, loading, hydrated, gate, inner, form, session, setup, history>>

Expire ==
    /\ session /\ faults < MaxFaults
    /\ session' = FALSE
    /\ faults' = faults + 1
    /\ UNCHANGED <<client, setup, history>>

(***************************************************************************)
(* Continuations after an await                                            *)
(***************************************************************************)
SessionAnswered_Mutant(c) ==
    Render(c.reply # "refused", FALSE, gate, form, calls \ {c})

\* getSession: any failure reads as signed out; the flag falls in `finally`.
SessionAnswered(c) ==
    Render(c.reply = "ok", FALSE, gate, form, calls \ {c})

StatusAnswered_Mutant(c) ==
    Render(user, loading, c.reply, form, calls \ {c})

StatusAnswered_FailsOpen(c) ==
    Render(user, loading, IF c.reply = "done" THEN "done" ELSE "needs",
           form, calls \ {c})

\* The gates take a failed status query as "set up".
StatusAnswered(c) ==
    Render(user, loading, IF c.reply = "needs" THEN "needs" ELSE "done",
           form, calls \ {c})

FirstRunAnswered(c) ==
    CASE c.reply = "needs" -> Go("signup")
      [] c.reply = "done" -> Go("login")
      [] OTHER -> Go("root")

BootstrapAnswered_Mutant(c) ==
    \/ /\ ~c.alive \/ c.reply # "needs"
       /\ inner' = "open"
       /\ calls' = calls \ {c}
       /\ UNCHANGED <<page, user, loading, hydrated, gate, form, history>>
    \/ /\ c.alive /\ c.reply = "needs"
       /\ Go("login")

BootstrapAnswered(c) ==
    \/ /\ ~c.alive
       /\ Render(user, loading, gate, form, calls \ {c})
    \/ /\ c.alive /\ c.reply = "needs"
       /\ inner' = "open"
       /\ calls' = calls \ {c}
       /\ UNCHANGED <<page, user, loading, hydrated, gate, form, history>>
    \/ /\ c.alive /\ c.reply # "needs"
       /\ Go("login")

\* The catch block of the form that submitted, if it is still mounted.
FormAfter(c) == IF c.alive THEN [busy |-> "no", error |-> TRUE] ELSE form

SubmissionFailed(c) ==
    /\ outcome' = "failed"
    /\ Commit(user, FALSE, gate, FormAfter(c), calls \ {c})
    /\ UNCHANGED hydrated

SignInAnswered(c) ==
    \/ c.reply = "ok" /\ Go("app")
    \/ c.reply # "ok" /\ SubmissionFailed(c)

SignUpAnswered(c) ==
    \/ c.reply = "ok" /\ Go("app")
    \/ c.reply # "ok" /\ SubmissionFailed(c)

OAuthAnswered(c) ==
    \/ c.reply = "ok" /\ Go("provider")
    \/ c.reply # "ok" /\ SubmissionFailed(c)

\* Best effort: the local user goes whatever the server said.
SignOutAnswered(c) == Go("login")

Deliver ==
    /\ page \in AuthPages => hydrated /\ gate # "unmounted"
    /\ \E c \in calls :
        /\ c.reply # "none"
        /\ \/ c.op = "me" /\ SessionAnswered(c)
           \/ c.op = "status" /\ StatusAnswered(c)
           \/ c.op = "first" /\ page = "root" /\ FirstRunAnswered(c)
           \/ c.op = "first" /\ page = "signup" /\ BootstrapAnswered(c)
           \/ c.op = "signIn" /\ SignInAnswered(c)
           \/ c.op = "signUp" /\ SignUpAnswered(c)
           \/ c.op = "oauth" /\ OAuthAnswered(c)
           \/ c.op = "signOut" /\ SignOutAnswered(c)
    /\ UNCHANGED server

(***************************************************************************)
(* The specification                                                       *)
(***************************************************************************)
Init ==
    /\ page \in AuthPages \cup {"root"}
    /\ user = FALSE /\ loading = FALSE /\ hydrated = FALSE
    /\ gate = "unmounted" /\ inner = "off" /\ form = Blank
    /\ calls = {}
    /\ session \in BOOLEAN /\ setup \in BOOLEAN /\ (session => setup)
    /\ faults = 0
    /\ vouched = FALSE /\ outcome = "none"

\* What happens without the visitor.
Browser == HydrateOnce \/ MountGate \/ MountFirstRunGate \/ Serve \/ Deliver

Next ==
    \/ Browser
    \/ SubmitLogin \/ GoogleSignIn \/ SubmitSignup \/ ClickLogout
    \/ \E p \in AuthPages \cup {"root"} : Visit(p)
    \/ ProviderAnswers
    \/ Lose \/ Expire

Spec == Init /\ [][Next]_vars
FairSpec == Spec /\ WF_vars(Browser)

(***************************************************************************)
(* Properties                                                              *)
(***************************************************************************)
\* The store never holds a user whom no answer to this page load confirmed:
\* a lost or refused GET /me reads as signed out (service.ts:79-88).
StoreVouched == user => vouched

\* One boolean serves all auth operations (stores/auth.ts:31), yet no two of
\* them overlap: while a sign-in or a sign-out is in flight there is neither
\* a second one nor a session refresh whose late answer overwrites the store.
NoOverlappingAuthCalls ==
    \A c \in calls : c.op \in VisitorOps =>
        ~ \E d \in calls \ {c} : d.op \in VisitorOps \cup {"me"}

\* A form is offered only after the session check of its page load, to a
\* visitor it found signed out (PublicOnlyRoute.tsx:47-50).
NoFormFlash ==
    FormShown => /\ hydrated
                 /\ ~ \E c \in calls : c.op \in {"me", "signOut"}

\* The gates' redirects never chase each other for ever: every page load
\* leads to a form, the app or the provider, whatever is lost on the way.
RedirectsSettle == []<>Settled

\* A page that shows neither a form nor the app has an effect still to run, or
\* has asked something whose answer it will take: no interleaving of the two
\* mount effects, the session check and the status query leaves it blank for
\* good (`return null` in PublicOnlyRoute.tsx:47-50 and ProtectedRoute.tsx).
BlankMeansBusy ==
    ~Settled => \/ page \in AuthPages /\ ~hydrated
                \/ gate = "unmounted"
                \/ \E c \in calls : c.op = "first" => page \in {"root", "signup"}

InFlight(op) == \E c \in calls : c.op = op
Answered(op, r) == \E c \in calls : c.op = op /\ c.reply = r

\* This page load has taken the visitor for signed in, or still may.
Believed == user \/ Answered("me", "ok")
Checking == ~hydrated \/ Answered("me", "none")

\* Page loads from a freshly loaded page to one that waits for the visitor, if
\* nothing more gets lost.
TripsFrom(p) ==
    CASE p = "provider" -> 0
      [] p = "root" -> IF session THEN 2 ELSE 1
      [] p = "callback" -> IF session THEN 3 ELSE 2
      [] p = "login" -> IF session \/ ~setup THEN 1 ELSE 0
      [] p = "signup" -> IF setup THEN 1 ELSE 0
      [] p = "app" -> IF session THEN 0 ELSE IF setup THEN 1 ELSE 2

TripsFromLogin ==
    CASE session \/ ~setup -> 1
      [] OTHER -> IF Believed \/ Answered("signIn", "ok") THEN 2
                  ELSE IF Answered("signIn", "none") \/ InFlight("oauth") THEN 1 ELSE 0

TripsFromSignup ==
    CASE session -> IF Believed \/ Checking \/ Answered("signUp", "ok") THEN 1 ELSE 2
      [] ~session /\ setup -> IF Believed \/ Answered("signUp", "ok") THEN 2 ELSE 1
      [] OTHER -> IF \/ gate = "done" \/ Answered("status", "lost")
                     \/ \E c \in calls : c.op = "first" /\ c.reply = "lost" /\ c.alive
                  THEN 2 ELSE IF Answered("signUp", "none") THEN 1 ELSE 0

TripsFromApp ==
    CASE session -> IF (Believed \/ Checking) /\ ~InFlight("signOut") THEN 0 ELSE 2
      [] OTHER -> IF setup THEN 1 ELSE 2

\* The same from the page as it stands, with what it knows and waits for.
Trips ==
    CASE page = "login" -> TripsFromLogin
      [] page = "signup" -> TripsFromSignup
      [] page = "app" -> TripsFromApp
      [] page = "root" /\ Answered("first", "lost") -> TripsFrom("root") + 1
      [] OTHER -> TripsFrom(page)

PageLoads == gate # "unmounted" /\ gate' = "unmounted"

\* The redirects of the gates converge: unless something more gets lost or
\* expires, every page load on the way to a page that waits for the visitor
\* shortens the way that is left, and nothing else lengthens it.
RedirectsConverge ==
    [][~Settled /\ faults' = faults =>
          Trips' <= Trips /\ (PageLoads => Trips' < Trips)]_vars

\* "on failure the API error message is shown to the user"
\* (LoginForm.tsx:52-53).
FailureIsShown == FormShown /\ outcome = "failed" => form.error
=============================================================================
