----------------------------- MODULE MCRefresh -----------------------------
(* Instances of Refresh for TLC: two employees of one branch, together   *)
(* or one alone; or two branches that two reports lock in other orders.   *)
EXTENDS Refresh, TLC

SameBranch  == [e \in Staff |-> 1]
OneAndThree == [e \in Staff |-> IF e = 2 THEN 2 ELSE 1]

OneByOne == {<<{1, 2}, "branch">>, <<{1}, "employee">>}
ByBranch == {<<{1, 2, 3}, "branch">>, <<{2, 3}, "branch">>}

TaskSymmetry == Permutations(Tasks)
=============================================================================
