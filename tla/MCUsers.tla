------------------------------ MODULE MCUsers ------------------------------
(* Users on small sets of addresses and request slots, for TLC. *)
EXTENDS Users, TLC

\* Addresses and request slots are interchangeable.
Symmetry == Permutations(Emails) \cup Permutations(Requests)
=============================================================================
