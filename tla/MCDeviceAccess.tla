-------------------------- MODULE MCDeviceAccess --------------------------
(* DeviceAccess on a few users, devices and request slots, for TLC. *)
EXTENDS DeviceAccess, TLC

\* Users, devices and request slots are interchangeable.
Symmetry == Permutations(Users) \cup Permutations(Devices) \cup Permutations(Requests)
=============================================================================
