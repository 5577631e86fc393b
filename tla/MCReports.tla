----------------------------- MODULE MCReports -----------------------------
(* Instances of Reports for TLC: two employees, one KPI screen beside the   *)
(* job, three texts that switch a rule off and on again and repeat a line.  *)
EXTENDS Reports

CONSTANTS e1, e2

Defaults == <<<<0, 0>>, <<1, 1>>, <<2, 2>>>>
Steep    == <<<<2, 1>>, <<2, 3>>>>
Flat     == <<<<1, 2>>>>

SomeTexts == {Defaults, Steep, Flat}
EmployeeSymmetry == Permutations(Employees)
=============================================================================
