-------------------------------- MODULE Pages --------------------------------
(***************************************************************************)
(* The five screens of the app behind one page loader, and what they all   *)
(* promise.  A page load is an initial state: its table is whatever the    *)
(* loads before it have left on the server.                                *)
(***************************************************************************)
EXTENDS DeviceTable, UserTable, KeyTable, DevicePage, Profile

Screens == {"devices", "users", "keys", "device", "profile"}

Init ==
    /\ page \in Screens
    /\ \/ page = "devices" /\ DeviceTableInit
       \/ page = "users" /\ UserTableInit
       \/ page = "keys" /\ KeyTableInit
       \/ page = "device" /\ DevicePageInit
       \/ page = "profile" /\ ProfileInit
    /\ doubt = {} /\ faults = 0

\* What happens without the visitor and without faults.
Progress ==
    \/ page = "devices" /\ (DeviceTableServer \/ DeviceTableAnswers)
    \/ page = "users" /\ (UserTableServer \/ UserTableAnswers)
    \/ page = "keys" /\ (KeyTableServer \/ KeyTableAnswers)
    \/ page = "device" /\ (DevicePageServer \/ DevicePageAnswers)
    \/ page = "profile" /\ (ProfileServer \/ ProfileAnswers)

Visitor ==
    \/ page = "devices" /\ DeviceTableVisitor
    \/ page = "users" /\ UserTableVisitor
    \/ page = "keys" /\ KeyTableVisitor
    \/ page = "device" /\ DevicePageVisitor
    \/ page = "profile" /\ ProfileVisitor

Elsewhere ==
    \/ page \in {"devices", "users"} /\ ElsewhereInList
    \/ page = "keys" /\ ElsewhereInKeys
    \/ page = "device" /\ ElsewhereOnDevice

Next == Progress \/ Visitor \/ Lose \/ Elsewhere

Spec == Init /\ [][Next]_vars
FairSpec == Spec /\ WF_vars(Progress)

(***************************************************************************)
(* Properties                                                              *)
(***************************************************************************)
\* The loading flag, the rows and the dialogs of each screen have their type.
TypeOK ==
    /\ page \in Screens /\ doubt \subseteq Ids \cup Keys /\ faults \in 0..MaxFaults
    /\ page = "devices" => view \in DeviceView
    /\ page = "users" => view \in UserView
    /\ page = "keys" => view \in KeyView /\ table \in KeyServer
    /\ page = "device" => view \in DevicePageView /\ table \in DeviceServer
    /\ page = "profile" => view \in ProfilePageView

\* The requests that raise a screen's loading flag.
HookCalls == {c \in calls : c.op \notin {"devices", "latest"}}

\* A hook has one loading flag for all its requests, and each of them lowers it in its
\* own `finally`.  The flag of a list hook tells of its one request: the list it computes
\* starts from the rows of the render that submitted (`[new, ...devices]`,
\* deviceService.ts:165), so two of them must not overlap.  Those of the keys page can, and
\* the first answer lowers the flag; but no flag is ever up without a request to lower it.
FlagsTellOfRequests ==
    /\ page \in {"devices", "users", "device"} =>
        /\ view.loading <=> HookCalls # {}
        /\ \A c, d \in HookCalls : c = d
    /\ page = "keys" => (view.loading => HookCalls # {})
    /\ page = "profile" => \A i \in Islands : view[i].loading <=> Pending(i) # {}

\* With nothing in flight the page shows what the server has, except for rows
\* it cannot know about (lost answers, failed loads, refused deletes, changes
\* made elsewhere since the load) and, on the devices page, those beyond the first
\* page of the listing, which the app never asks for.  There is no such row while the
\* devices fit on one page.  The keys page may miss a key (one it issued is
\* listed after Done only), but until requests overlap it lists no dead one.
ListFaithful ==
    HookCalls = {} =>
        /\ page \in {"devices", "users"} =>
              \A i \in Ids \ doubt : view.rows[i] = Listing[i]
        /\ page = "device" /\ view.device # None =>
              \A u \in Ids \ doubt : u \in view.device.users <=> u \in table.viewers
        /\ page = "keys" /\ ~view.tangled =>
              \A d \in Ids :
                 view.rows[d] \in {None, table.active[d]} \cup doubt \cup view.strayed

\* A delete or a revocation is only ever sent for the row whose own dialog had
\* the confirmation typed into it, by the gate of its button; two rows may bear the
\* same name, and all revocations ask for the same phrase.
DeletionsVetted ==
    page # "keys" => \A c \in calls : c.op \in {"delete", "revoke"} => c.vetted

\* The key the visitor is told to flash onto the board opens the API, also when
\* the modal was closed before the answer came: this page never shows a key it
\* has itself revoked.  Once a Done overlaps another request it may: the hook
\* gives no such promise.
RevealedKeyLive ==
    page = "keys" /\ KeyTableShown /\ view.createOpen /\ view.issued # None /\ ~view.tangled =>
        view.issued \in {table.active[d] : d \in Ids} \cup doubt

\* The flag behind a screen's skeleton and its disabled buttons, and what the sidebar
\* renders of its own.
Loading == IF page = "profile" THEN SidebarUserCard = "dots" ELSE view.loading

ProfileSkeleton == page = "profile" /\ ProfileShows = "skeleton"

\* The case its hook leaves out: neither a profile nor an error comes of it.
MeRefused == \E c \in Pending("main") : c.op = "me" /\ c.reply = "refused"

\* Every path of every hook, refusals and lost answers included, takes its screen out of
\* the loading state, with one exception: the profile view comes to show the profile, or
\* the error with its retry, unless `/users/me` was refused.  Then the skeleton stays for
\* good, against profileService.ts:36-39 and 49-51 (a retry, failures surfaced).
LoadingEnds ==
    /\ Loading ~> ~Loading
    /\ (ProfileSkeleton /\ Pending("main") # {}) ~> (~ProfileSkeleton \/ MeRefused)

\* "Resolves when the device is deleted and state is updated"
\* (deviceService.ts:216): the screen says deleted only of rows that are.
DeletedMeansDeleted ==
    [][\A c \in calls :
          /\ page \in {"devices", "users"} /\ c.op = "delete"
          /\ calls' = calls \ {c} /\ view'.said = "deleted"
          => table[c.id] \notin Names]_vars
==============================================================================
