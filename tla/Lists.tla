-------------------------------- MODULE Lists --------------------------------
(***************************************************************************)
(* The lists that an ORDER BY, sorted() or a list comprehension make of    *)
(* the rows of a table or of a list.                                       *)
(*                                                                         *)
(* A list is given by the place of each of its members, the number of      *)
(* those before it.  SetToSortSeq and SelectSeq, which say the same, are   *)
(* defined by recursion, and the provers do not follow them.               *)
(***************************************************************************)
EXTENDS Integers, Sequences, FiniteSets

\* The members of a set in an order, a set of pairs.
InOrder(S, order) ==
    [n \in 1 .. Cardinality(S) |->
        CHOOSE x \in S : Cardinality({y \in S : <<y, x>> \in order}) = n - 1]

\* A set of numbers, ascending.
Ascending(S) == InOrder(S, {p \in S \X S : p[1] < p[2]})

\* What a sequence has at some of its places, in the order of the sequence.
Picked(s, places) ==
    LET at == Ascending(places)
    IN  [n \in DOMAIN at |-> s[at[n]]]
=============================================================================
