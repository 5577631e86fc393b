---------------------------- MODULE MCBroadcast ----------------------------
(* Instances of Broadcast for TLC: one employee in each of the branches.   *)
EXTENDS Broadcast, TLC

CONSTANTS e1, e2, m1

OneInEach == [e \in Staff |-> IF e = e1 THEN 1 ELSE 2]
PressSymmetry == Permutations(Presses)
=============================================================================
