---------------------------- MODULE MCConnection ----------------------------
(* Instances of Connection for TLC: with the codes c1 and c2, both are for *)
(* the employee e1, so that one employee can hold two live codes.          *)
EXTENDS Connection, TLC

CONSTANTS e1, g1, g2, g3, p1, p2

AllForOne == [c \in Codes |-> e1]
=============================================================================
