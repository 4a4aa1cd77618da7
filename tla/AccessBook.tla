----------------------------- MODULE AccessBook -----------------------------
(***************************************************************************)
(* What device sharing promises, without requests or SQL statements:       *)
(* whoever registers a device owns it for good, and others see it for as   *)
(* long as it is shared with them.                                         *)
(***************************************************************************)
CONSTANTS Users, NoUser, Devices

VARIABLES
    owner,      \* the owner of each device, NoUser before it is registered
    viewers,    \* whom each device is shared with
    retired     \* the devices that were deleted

bookVars == <<owner, viewers, retired>>

BookInit ==
    /\ owner = [d \in Devices |-> NoUser]
    /\ viewers = [d \in Devices |-> {}]
    /\ retired = {}

Register(u, d) ==
    /\ owner[d] = NoUser
    /\ owner' = [owner EXCEPT ![d] = u]
    /\ UNCHANGED <<viewers, retired>>

Share(u, d) ==
    /\ owner[d] \notin {NoUser, u}
    /\ viewers' = [viewers EXCEPT ![d] = @ \cup {u}]
    /\ UNCHANGED <<owner, retired>>

Unshare(u, d) ==
    /\ viewers' = [viewers EXCEPT ![d] = @ \ {u}]
    /\ UNCHANGED <<owner, retired>>

Retire(d) ==
    /\ owner[d] # NoUser
    /\ retired' = retired \cup {d}
    /\ UNCHANGED <<owner, viewers>>

BookNext == \E d \in Devices : \/ Retire(d)
                               \/ \E u \in Users : Register(u, d) \/ Share(u, d) \/ Unshare(u, d)

BookSpec == BookInit /\ [][BookNext]_bookVars
=============================================================================
