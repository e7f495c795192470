---------------------------- MODULE MCDeviceCode ----------------------------
(* Instances of DeviceCode for TLC. *)
EXTENDS DeviceCode, TLC

(* Accounts, and request slots, are interchangeable in safety runs. *)
Symmetry == Permutations(Accounts) \cup Permutations(Polls) \cup Permutations(Callbacks)
=============================================================================
