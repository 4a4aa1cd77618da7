------------------------------- MODULE Profile -------------------------------
(***************************************************************************)
(* The profile page: two islands, the sidebar's user card and the profile  *)
(* view, each with its own useProfileService, which asks for the profile   *)
(* and the device count at once.  The sidebar card stands on every page    *)
(* and is modelled here only; its sign-out button is in module Session.    *)
(***************************************************************************)
EXTENDS Browser

Islands == {"main", "side"}

\* The hook's state: profile and deviceCount are null or not.
Card == [loading : BOOLEAN, error : BOOLEAN, profile : BOOLEAN, count : BOOLEAN]

ProfilePageView == [Islands -> Card]

Pending(i) == {c \in calls : c.put = i}

(***************************************************************************)
(* What is rendered                                                        *)
(***************************************************************************)
\* Without a profile it is a skeleton, loading or not, unless there is an error to show.
ProfileShows ==
    LET v == view["main"]
    IN IF v.profile THEN "profile" ELSE IF v.error /\ ~v.loading THEN "error" ELSE "skeleton"

\* The error comes with the one button of the view.
ProfileView ==
    IF ProfileShows = "error" THEN Button("retry", view["main"].loading) ELSE {}

\* What stands for the name of the user.
SidebarUserCard ==
    LET v == view["side"]
    IN IF v.profile THEN "name" ELSE IF v.loading THEN "dots" ELSE "fallback"

(***************************************************************************)
(* refresh()                                                               *)
(***************************************************************************)
Ask(i) == {Message("me", None, i, 1), Message("count", None, i, 1)}

RetryProfile ==
    /\ "retry" \in ProfileView
    /\ calls' = calls \cup Ask("main")
    /\ view' = [view EXCEPT !["main"].loading = TRUE, !["main"].error = FALSE]
    /\ UNCHANGED <<page, table, doubt, faults>>

\* Promise.all is through; what it waited for is answered to nobody.
Resolve(i, v) ==
    /\ calls' = calls \ Pending(i)
    /\ view' = [view EXCEPT ![i] = v]
    /\ UNCHANGED <<page, table, doubt, faults>>

\* A refused request leaves what was there, and sets no error: without a profile the
\* skeleton stays, with nothing in flight and nothing to click.
Refreshed(i) ==
    /\ Pending(i) # {} /\ \A c \in Pending(i) : c.reply \in {"ok", "refused"}
    /\ LET got(op) == \E c \in Pending(i) : c.op = op /\ c.reply = "ok"
       IN Resolve(i, [loading |-> FALSE, error |-> FALSE,
                      profile |-> view[i].profile \/ got("me"),
                      count |-> view[i].count \/ got("count")])

\* The first lost answer rejects.
RefreshFailed(i) ==
    /\ \E c \in Pending(i) : c.reply = "lost"
    /\ Resolve(i, [view[i] EXCEPT !.loading = FALSE, !.error = TRUE])

(***************************************************************************)
(* The screen                                                              *)
(***************************************************************************)
ProfileInit ==
    /\ table = NoRows
    /\ view = [i \in Islands |->
                 [loading |-> TRUE, error |-> FALSE, profile |-> FALSE, count |-> FALSE]]
    /\ calls = UNION {Ask(i) : i \in Islands}

ProfileServer ==
    \E c \in calls : Unserved(c) /\
        \/ Respond(c, "ok", None, table) /\ UNCHANGED doubt
        \/ Refuse(c)

ProfileAnswers == \E i \in Islands : Refreshed(i) \/ RefreshFailed(i)

ProfileVisitor == RetryProfile
=============================================================================
