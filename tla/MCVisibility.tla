---------------------------- MODULE MCVisibility ----------------------------
(* Instances of Visibility for TLC. *)
EXTENDS Visibility, TLC

ManagerSymmetry == Permutations(Managers)
=============================================================================
