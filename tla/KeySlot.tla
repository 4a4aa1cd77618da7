------------------------------- MODULE KeySlot -------------------------------
(***************************************************************************)
(* What issuing keys promises, without requests or SQL statements: a       *)
(* device has no key or one, and a key that was given up is never used     *)
(* again, by this device or any other.                                     *)
(***************************************************************************)
CONSTANTS Devices, Keys, NoKey

VARIABLES
    slot,       \* the key of each device, or NoKey
    spent       \* the keys that were ever issued

slotVars == <<slot, spent>>

SlotInit ==
    /\ slot = [d \in Devices |-> NoKey]
    /\ spent = {}

Issue(d, k) ==
    /\ slot[d] = NoKey
    /\ k \notin spent
    /\ slot' = [slot EXCEPT ![d] = k]
    /\ spent' = spent \cup {k}

GiveUp(d) ==
    /\ slot' = [slot EXCEPT ![d] = NoKey]
    /\ UNCHANGED spent

SlotNext == \E d \in Devices : GiveUp(d) \/ \E k \in Keys : Issue(d, k)

SlotSpec == SlotInit /\ [][SlotNext]_slotVars
=============================================================================
