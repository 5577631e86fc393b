------------------------------ MODULE MCAccess ------------------------------
(* Instances of Access for TLC. *)
EXTENDS Access, TLC

CONSTANTS t1, t2

Accounts == {t1, t2}
AccountSymmetry == Permutations(Accounts)
=============================================================================
