------------------------------- MODULE MCSync -------------------------------
(* Two branches: one with two employees and a service, one that is empty.  *)
EXTENDS Sync
CONSTANTS job, person, nobody
MCBranches == 1..2
MCStaff == {1, 2}
MCServices == {3}
MCBranchOf == [i \in {1, 2, 3} |-> 1]

(* All is there, or only one employee.                                     *)
MCInit == Init /\ remote \in {{1}, {1, 2, 3}}
MCSpec == MCInit /\ [][Next]_vars /\ Fairness
=============================================================================
