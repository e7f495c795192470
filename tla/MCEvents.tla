------------------------------ MODULE MCEvents ------------------------------
(* Instances of Events for TLC. *)
EXTENDS Events, TLC

(* Players, and request slots, are interchangeable in safety runs. *)
Symmetry == Permutations(Players) \cup Permutations(Requests)
=============================================================================
