---------------------------- MODULE MCInventory -----------------------------
(* Instances of Inventory for TLC. *)
EXTENDS Inventory, TLC

Symmetry == Permutations(Requests)
=============================================================================
