-------------------------- MODULE MCPlayerSession --------------------------
(* Instances of PlayerSession for TLC. *)
EXTENDS PlayerSession, TLC

(* Sockets, and handler invocations, are interchangeable in safety runs. *)
Symmetry == Permutations(Sockets) \cup Permutations(Handlers)
=============================================================================
