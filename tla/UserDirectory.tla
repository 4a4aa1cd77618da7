---------------------------- MODULE UserDirectory ----------------------------
(***************************************************************************)
(* What the users service promises, without requests, statements or        *)
(* Authula: addresses join once and leave for good, and one of them holds  *)
(* the super_admin role from the moment it is given, for ever.             *)
(***************************************************************************)
CONSTANTS Emails, NoEmail

VARIABLES
    standing,   \* "absent", "active" or "deleted", per email
    admin       \* the holder of the super_admin role, NoEmail before the election

dirVars == <<standing, admin>>

DirInit ==
    /\ standing = [e \in Emails |-> "absent"]
    /\ admin = NoEmail

Join(e) ==
    /\ standing[e] = "absent"
    /\ standing' = [standing EXCEPT ![e] = "active"]
    /\ admin' \in {admin} \cup (IF admin = NoEmail THEN {e} ELSE {})

Elect(e) ==
    /\ admin = NoEmail
    /\ standing[e] = "active"
    /\ admin' = e
    /\ UNCHANGED standing

Leave(e) ==
    /\ standing[e] = "active"
    /\ standing' = [standing EXCEPT ![e] = "deleted"]
    /\ UNCHANGED admin

DirNext == \E e \in Emails : Join(e) \/ Elect(e) \/ Leave(e)

DirSpec == DirInit /\ [][DirNext]_dirVars
=============================================================================
