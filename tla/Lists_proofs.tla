----------------------------- MODULE Lists_proofs -----------------------------
(***************************************************************************)
(* What the proofs of several components need of numbers, lists and folds: *)
(* induction over the naturals, the members and the order of a list, and   *)
(* the steps a fold takes.                                                 *)
(***************************************************************************)
EXTENDS Lists, SequencesExt, FiniteSetTheorems, WellFoundedInduction, SequenceTheorems, TLAPS

(* A set of naturals with a member has a least one.                        *)
LEMMA LeastOf ==
  ASSUME NEW S \in SUBSET Nat, S # {}
  PROVE  \E x \in S : \A y \in S : x <= y
<1> DEFINE Less == {p \in Nat \X Nat : p[1] < p[2]}
<1>1. IsWellFoundedOn(Less, Nat)
  BY NatLessThanWellFounded DEF OpToRel
<1>2. PICK x \in S : \A y \in S : ~ (<<y, x>> \in Less)
  <2> HIDE DEF Less
  <2>. QED
    BY <1>1, WFMin
<1>3. ASSUME NEW y \in S PROVE x <= y
  <2>1. x \in Nat /\ y \in Nat /\ ~ (y < x)
    BY <1>2
  <2>. QED
    BY <2>1
<1>. QED
  BY <1>3

(* A set with 0 and with every successor has all naturals.                 *)
LEMMA Induct ==
  ASSUME NEW T, 0 \in T, \A n \in Nat : n \in T => n + 1 \in T
  PROVE  Nat \subseteq T
<1>. SUFFICES ASSUME Nat \ T # {} PROVE FALSE
  OBVIOUS
<1>1. PICK x \in Nat \ T : \A y \in Nat \ T : x <= y
  BY LeastOf
<1>2. x # 0 /\ x - 1 \in Nat
  BY <1>1
<1>3. x - 1 \in T
  BY <1>1, <1>2
<1>. QED
  BY <1>1, <1>2, <1>3

(* Numbers below a bound have a greatest one among them, which Max is.     *)
LEMMA MaxIsMember ==
  ASSUME NEW S \in SUBSET Nat, S # {}, NEW b \in Nat, \A x \in S : x <= b
  PROVE  Max(S) \in S /\ \A y \in S : y <= Max(S)
<1> DEFINE Gaps == {n \in Nat : b - n \in S}
<1>1. Gaps # {}
  <2>1. PICK x \in S : TRUE
    OBVIOUS
  <2>2. b - x \in Nat /\ b - (b - x) = x
    BY <2>1
  <2>. QED
    BY <2>1, <2>2
<1>2. PICK n \in Gaps : \A m \in Gaps : n <= m
  BY <1>1, LeastOf
<1>3. b - n \in S
  BY <1>2
<1>4. ASSUME NEW y \in S PROVE y <= b - n
  <2>1. b - y \in Nat /\ b - (b - y) = y /\ y \in Nat
    OBVIOUS
  <2>2. n <= b - y
    BY <1>2, <2>1
  <2>. QED
    BY <1>2, <2>1, <2>2
<1>5. \E x \in S : \A y \in S : x >= y
  BY <1>3, <1>4
<1>. QED
  BY <1>5 DEF Max

(* And every set of naturals with a member has the one Min is.             *)
LEMMA MinIsMember ==
  ASSUME NEW S \in SUBSET Nat, S # {}
  PROVE  Min(S) \in S /\ \A y \in S : Min(S) <= y
BY LeastOf DEF Min

-----------------------------------------------------------------------------
(* Lists.                                                                  *)

(* An order that tells every two members of a set apart.                   *)
Orders(order, S) ==
  /\ \A x \in S : <<x, x>> \notin order
  /\ \A x, y, z \in S : <<x, y>> \in order /\ <<y, z>> \in order => <<x, z>> \in order
  /\ \A x, y \in S : x = y \/ <<x, y>> \in order \/ <<y, x>> \in order

Ahead(x, S, order) == {y \in S : <<y, x>> \in order}

LEMMA AheadGrows ==
  ASSUME NEW S, IsFiniteSet(S), NEW order, Orders(order, S), NEW x \in S
  PROVE  /\ Cardinality(Ahead(x, S, order)) \in 0 .. Cardinality(S) - 1
         /\ \A y \in S : <<x, y>> \in order =>
              Cardinality(Ahead(x, S, order)) < Cardinality(Ahead(y, S, order))
<1> DEFINE A(y) == Ahead(y, S, order)
<1>1. \A y \in S : /\ A(y) \in SUBSET S /\ IsFiniteSet(A(y)) /\ Cardinality(A(y)) \in Nat
                   /\ Cardinality(A(y)) <= Cardinality(S) /\ y \notin A(y)
                   /\ Cardinality(A(y)) = Cardinality(S) => S = A(y)
  <2> SUFFICES ASSUME NEW y \in S
               PROVE  /\ A(y) \in SUBSET S /\ IsFiniteSet(A(y)) /\ Cardinality(A(y)) \in Nat
                      /\ Cardinality(A(y)) <= Cardinality(S) /\ y \notin A(y)
                      /\ Cardinality(A(y)) = Cardinality(S) => S = A(y)
    OBVIOUS
  <2>1. A(y) \in SUBSET S /\ y \notin A(y)
    BY DEF Ahead, Orders
  <2> HIDE DEF A
  <2>. QED
    BY <2>1, FS_Subset, FS_CardinalityType
<1>2. Cardinality(S) \in Nat
  BY FS_CardinalityType
<1>3. ASSUME NEW y \in S, <<x, y>> \in order
      PROVE  Cardinality(A(x)) < Cardinality(A(y))
  <2>1. A(x) \in SUBSET A(y) /\ x \in A(y) /\ x \notin A(x)
    BY <1>3 DEF Ahead, Orders
  <2> HIDE DEF A
  <2>2. Cardinality(A(x)) <= Cardinality(A(y)) /\ Cardinality(A(x)) # Cardinality(A(y))
    BY <1>1, <2>1, FS_Subset
  <2>. QED
    BY <1>1, <2>2
<1> HIDE DEF A
<1>4. Cardinality(A(x)) \in 0 .. Cardinality(S) - 1
  <2>1. Cardinality(A(x)) # Cardinality(S)
    BY <1>1
  <2>. QED
    BY <1>1, <1>2, <2>1
<1>. QED
  BY <1>3, <1>4 DEF A

(* A list has every member of the set at one place, and in the order.      *)
LEMMA InOrderIs ==
  ASSUME NEW S, IsFiniteSet(S), NEW order, Orders(order, S)
  PROVE  /\ Cardinality(S) \in Nat
         /\ InOrder(S, order) \in [1 .. Cardinality(S) -> S]
         /\ \A x \in S : \E n \in 1 .. Cardinality(S) : InOrder(S, order)[n] = x
         /\ \A m, n \in 1 .. Cardinality(S) :
              <<InOrder(S, order)[m], InOrder(S, order)[n]>> \in order <=> m < n
<1> DEFINE N == Cardinality(S)
           R(x) == Cardinality(Ahead(x, S, order))
           place == [x \in S |-> R(x) + 1]
           list == InOrder(S, order)
<1>1. N \in Nat
  BY FS_CardinalityType
<1>2. \A x \in S : R(x) \in 0 .. N - 1
  BY AheadGrows
<1>3. \A x, y \in S : <<x, y>> \in order => R(x) < R(y)
  BY AheadGrows
<1> HIDE DEF N, R
<1>4. \A x, y \in S : /\ <<x, y>> \in order <=> R(x) < R(y)
                      /\ R(x) = R(y) => x = y
  <2> SUFFICES ASSUME NEW x \in S, NEW y \in S
               PROVE  /\ <<x, y>> \in order <=> R(x) < R(y)
                      /\ R(x) = R(y) => x = y
    OBVIOUS
  <2>1. R(x) \in Int /\ R(y) \in Int
    BY <1>1, <1>2
  <2>2. x = y \/ <<x, y>> \in order \/ <<y, x>> \in order
    BY DEF Orders
  <2>. QED
    BY <1>3, <2>1, <2>2
<1>5. place \in Surjection(S, 1 .. N)
  <2>1. place \in Injection(S, 1 .. N)
    <3>1. \A x \in S : R(x) + 1 \in 1 .. N
      BY <1>1, <1>2
    <3>2. ASSUME NEW x \in S, NEW y \in S, R(x) + 1 = R(y) + 1 PROVE x = y
      <4>1. R(x) \in Int /\ R(y) \in Int
        BY <1>1, <1>2
      <4>2. R(x) = R(y)
        BY <3>2, <4>1
      <4>. QED
        BY <1>4, <4>2
    <3>. QED
      BY <3>1, <3>2 DEF Injection, IsInjective
  <2>2. IsFiniteSet(1 .. N) /\ Cardinality(1 .. N) = N
    BY <1>1, FS_Interval
  <2> HIDE DEF place
  <2>. QED
    BY <2>1, <2>2, FS_Injection DEF N
<1>6. \A n \in 1 .. N : \E x \in S : R(x) = n - 1
  <2> SUFFICES ASSUME NEW n \in 1 .. N PROVE \E x \in S : R(x) = n - 1
    OBVIOUS
  <2>1. PICK x \in S : R(x) + 1 = n
    BY <1>5 DEF Surjection
  <2>2. R(x) \in Int /\ n \in Int
    BY <1>1, <1>2
  <2>. QED
    BY <2>1, <2>2
<1>7. list = [n \in 1 .. N |-> CHOOSE x \in S : R(x) = n - 1]
  BY DEF InOrder, N, R, Ahead
<1> HIDE DEF list
<1>8. \A n \in 1 .. N : list[n] \in S /\ R(list[n]) = n - 1
  BY <1>6, <1>7
<1>9. list \in [1 .. N -> S]
  BY <1>7, <1>8
<1>10. \A x \in S : \E n \in 1 .. N : list[n] = x
  <2> SUFFICES ASSUME NEW x \in S PROVE \E n \in 1 .. N : list[n] = x
    OBVIOUS
  <2>1. R(x) + 1 \in 1 .. N /\ (R(x) + 1) - 1 = R(x)
    BY <1>1, <1>2
  <2>. QED
    BY <1>4, <1>8, <2>1
<1>11. \A m, n \in 1 .. N : <<list[m], list[n]>> \in order <=> m < n
  BY <1>1, <1>4, <1>8
<1>. QED
  BY <1>1, <1>9, <1>10, <1>11 DEF N, list

LEMMA AscendingIs ==
  ASSUME NEW S \in SUBSET Int, IsFiniteSet(S)
  PROVE  /\ Cardinality(S) \in Nat
         /\ Ascending(S) \in [1 .. Cardinality(S) -> S]
         /\ \A x \in S : \E n \in 1 .. Cardinality(S) : Ascending(S)[n] = x
         /\ \A m, n \in 1 .. Cardinality(S) : Ascending(S)[m] < Ascending(S)[n] <=> m < n
<1> DEFINE order == {p \in S \X S : p[1] < p[2]}
<1>1. \A x, y \in S : <<x, y>> \in order <=> x < y
  OBVIOUS
<1>2. Orders(order, S)
  <2> HIDE DEF order
  <2>. QED
    BY <1>1 DEF Orders
<1>3. Ascending(S) = InOrder(S, order)
  BY DEF Ascending
<1> HIDE DEF order
<1>4. /\ Cardinality(S) \in Nat
      /\ Ascending(S) \in [1 .. Cardinality(S) -> S]
      /\ \A x \in S : \E n \in 1 .. Cardinality(S) : Ascending(S)[n] = x
      /\ \A m, n \in 1 .. Cardinality(S) :
           <<Ascending(S)[m], Ascending(S)[n]>> \in order <=> m < n
  BY <1>2, <1>3, InOrderIs
<1>5. \A m, n \in 1 .. Cardinality(S) : Ascending(S)[m] \in S /\ Ascending(S)[n] \in S
  BY <1>4
<1>. QED
  BY <1>1, <1>4, <1>5

(* What is picked of a list is at ascending places of it, at all of them.  *)
LEMMA PickedIs ==
  ASSUME NEW A, NEW s \in Seq(A), NEW places \in SUBSET DOMAIN s
  PROVE  /\ Picked(s, places) \in Seq(A)
         /\ Len(Picked(s, places)) = Cardinality(places)
         /\ \E at \in [1 .. Len(Picked(s, places)) -> places] :
              /\ \A i \in places : \E n \in DOMAIN at : at[n] = i
              /\ \A m, n \in DOMAIN at : at[m] < at[n] <=> m < n
              /\ \A n \in DOMAIN at : Picked(s, places)[n] = s[at[n]]
<1> DEFINE at == Ascending(places)
           N == Cardinality(places)
<1>1. places \in SUBSET Int /\ IsFiniteSet(places)
  <2>1. DOMAIN s = 1 .. Len(s) /\ Len(s) \in Nat
    OBVIOUS
  <2>2. IsFiniteSet(1 .. Len(s))
    BY <2>1, FS_Interval
  <2>. QED
    BY <2>1, <2>2, FS_Subset
<1>2. /\ N \in Nat /\ at \in [1 .. N -> places]
      /\ \A i \in places : \E n \in 1 .. N : at[n] = i
      /\ \A m, n \in 1 .. N : at[m] < at[n] <=> m < n
  BY <1>1, AscendingIs
<1> HIDE DEF at, N
<1>3. Picked(s, places) = [n \in 1 .. N |-> s[at[n]]]
  BY <1>2 DEF Picked, at
<1>4. \A n \in 1 .. N : s[at[n]] \in A
  BY <1>2
<1>5. Picked(s, places) \in Seq(A) /\ Len(Picked(s, places)) = N
  BY <1>2, <1>3, <1>4, IsASeq, LenProperties
<1>6. /\ at \in [1 .. Len(Picked(s, places)) -> places] /\ DOMAIN at = 1 .. N
      /\ \A n \in 1 .. N : Picked(s, places)[n] = s[at[n]]
  BY <1>2, <1>3, <1>5
<1>7. \E w \in [1 .. Len(Picked(s, places)) -> places] :
        /\ \A i \in places : \E n \in DOMAIN w : w[n] = i
        /\ \A m, n \in DOMAIN w : w[m] < w[n] <=> m < n
        /\ \A n \in DOMAIN w : Picked(s, places)[n] = s[w[n]]
  BY <1>2, <1>6
<1>. QED
  BY <1>5, <1>7 DEF N

-----------------------------------------------------------------------------
(* Folds.                                                                  *)

(* The places of a list up to one of them.                                 *)
LEMMA UpTo ==
  ASSUME NEW A, NEW s \in Seq(A), NEW k \in 1 .. Len(s)
  PROVE  /\ 1 .. k \in SUBSET DOMAIN s /\ 1 .. k # {}
         /\ Max(1 .. k) = k /\ (1 .. k) \ {k} = 1 .. k - 1
<1>1. k \in Nat /\ k >= 1 /\ Len(s) \in Nat /\ DOMAIN s = 1 .. Len(s)
  OBVIOUS
<1>2. Max(1 .. k) \in 1 .. k /\ \A y \in 1 .. k : y <= Max(1 .. k)
  <2>1. 1 .. k \in SUBSET Nat /\ k \in 1 .. k /\ \A x \in 1 .. k : x <= k
    BY <1>1
  <2>. QED
    BY <1>1, <2>1, MaxIsMember
<1>. QED
  BY <1>1, <1>2

(* The greatest of some places, and the places without it.                 *)
LEMMA WithoutMax ==
  ASSUME NEW k \in Nat, NEW t \in SUBSET (1 .. k + 1), t # {}
  PROVE  Max(t) \in t /\ t \ {Max(t)} \in SUBSET (1 .. k)
<1>1. t \in SUBSET Nat /\ k + 1 \in Nat /\ \A x \in t : x <= k + 1
  OBVIOUS
<1>2. Max(t) \in t /\ \A y \in t : y <= Max(t)
  BY <1>1, MaxIsMember
<1>3. ASSUME NEW y \in t, y # Max(t) PROVE y \in 1 .. k
  <2>1. Max(t) \in 1 .. k + 1 /\ y \in 1 .. k + 1
    BY <1>2
  <2>2. y <= Max(t)
    BY <1>2
  <2>. QED
    BY <1>3, <2>1, <2>2
<1>. QED
  BY <1>2, <1>3

(* The places of a list without the last.                                  *)
LEMMA WithoutLast ==
  ASSUME NEW A, NEW s \in Seq(A), NEW t \in SUBSET DOMAIN s, t # {}
  PROVE  Max(t) \in DOMAIN s /\ s[Max(t)] \in A /\ t \ {Max(t)} \in SUBSET DOMAIN s
<1>1. DOMAIN s = 1 .. Len(s) /\ Len(s) \in Nat
  OBVIOUS
<1>2. t \in SUBSET Nat /\ \A x \in t : x <= Len(s)
  BY <1>1
<1>3. Max(t) \in t
  BY <1>1, <1>2, MaxIsMember
<1>. QED
  BY <1>3

(* A function that folds an operation, taken as a function, over every set *)
(* of places of a list, as FoldLeft does.                                  *)
Folding(h, op, base, s) ==
  h = [t \in SUBSET DOMAIN s |->
         IF t = {} THEN base ELSE op[<<h[t \ {Max(t)}], s[Max(t)]>>]]

(* There is one for an operation on the values of a set.                   *)
LEMMA FoldExists ==
  ASSUME NEW A, NEW B, NEW op \in [B \X A -> B], NEW base \in B, NEW s \in Seq(A)
  PROVE  \E h \in [SUBSET DOMAIN s -> B] : Folding(h, op, base, s)
<1> DEFINE D == DOMAIN s
           Body(g, t) == IF t = {} THEN base ELSE op[<<g[t \ {Max(t)}], s[Max(t)]>>]
           Good(g, k) == \A t \in SUBSET D : t \subseteq 1 .. k => g[t] = Body(g, t)
           T == {k \in Nat : \E g \in [SUBSET D -> B] : Good(g, k)}
<1>1. D = 1 .. Len(s) /\ Len(s) \in Nat
  OBVIOUS
<1>2. 0 \in T
  <2> DEFINE g == [t \in SUBSET D |-> base]
  <2>1. \A t \in SUBSET D : t \subseteq 1 .. 0 => t = {}
    OBVIOUS
  <2>2. Good(g, 0) /\ g \in [SUBSET D -> B]
    BY <2>1
  <2>. QED
    BY <2>2
<1>3. ASSUME NEW k \in Nat, k \in T PROVE k + 1 \in T
  <2>1. PICK g \in [SUBSET D -> B] : Good(g, k)
    BY <1>3
  <2> DEFINE h == [t \in SUBSET D |-> Body(g, t)]
  <2>2. \A t \in SUBSET D : t # {} => Max(t) \in t /\ t \ {Max(t)} \in SUBSET D
    <3> SUFFICES ASSUME NEW t \in SUBSET D, t # {}
                 PROVE  Max(t) \in t /\ t \ {Max(t)} \in SUBSET D
      OBVIOUS
    <3>1. t \in SUBSET Nat /\ \A x \in t : x <= Len(s)
      BY <1>1
    <3>. QED
      BY <1>1, <3>1, MaxIsMember
  <2>3. h \in [SUBSET D -> B]
    BY <2>2
  <2>4. ASSUME NEW t \in SUBSET D, t \subseteq 1 .. k + 1 PROVE h[t] = Body(h, t)
    <3>1. CASE t = {}
      BY <3>1
    <3>2. CASE t # {}
      <4>1. t \ {Max(t)} \subseteq 1 .. k /\ t \ {Max(t)} \in SUBSET D
        BY <2>2, <2>4, <3>2, WithoutMax
      <4>2. g[t \ {Max(t)}] = h[t \ {Max(t)}]
        <5> HIDE DEF Body
        <5>. QED
          BY <2>1, <4>1
      <4>. QED
        BY <3>2, <4>2
    <3>. QED
      BY <3>1, <3>2
  <2> HIDE DEF h
  <2>5. Good(h, k + 1)
    BY <2>4
  <2>6. k + 1 \in Nat
    OBVIOUS
  <2> HIDE DEF Good
  <2>. QED
    BY <2>3, <2>5, <2>6
<1>4. Len(s) \in T
  <2> HIDE DEF T
  <2>. QED
    BY <1>1, <1>2, <1>3, Induct
<1>5. PICK g \in [SUBSET D -> B] : Good(g, Len(s))
  BY <1>4
<1>6. \A t \in SUBSET D : g[t] = Body(g, t)
  BY <1>1, <1>5
<1>. QED
  BY <1>6 DEF Folding

-----------------------------------------------------------------------------
(* FlattenSeq joins one list after the other.                              *)
LEMMA FlattenIs ==
  ASSUME NEW A, NEW seqs \in Seq(Seq(A)), Len(seqs) > 0
  PROVE  \E f \in [1 .. Len(seqs) -> Seq(A)] :
           /\ f[1] = seqs[1]
           /\ \A i \in 1 .. Len(seqs) : i > 1 => f[i] = f[i - 1] \o seqs[i]
           /\ FlattenSeq(seqs) = f[Len(seqs)]
<1>. DEFINE B == Seq(A)
            n == Len(seqs)
            op == [x \in B \X B |-> x[1] \o x[2]]
            Is(f) == f = [i \in 1 .. n |-> IF i = 1 THEN seqs[i] ELSE f[i - 1] \o seqs[i]]
<1>1. n \in Nat /\ n > 0 /\ DOMAIN seqs = 1 .. n /\ seqs \in Seq(B)
  OBVIOUS
<1>2. op \in [B \X B -> B] /\ <<>> \in B
  OBVIOUS
<1>3. PICK h \in [SUBSET DOMAIN seqs -> B] : Folding(h, op, <<>>, seqs)
  <2>. HIDE DEF op, B
  <2>. QED
    BY <1>1, <1>2, FoldExists
<1>4. ASSUME NEW i \in 1 .. n
      PROVE  h[1 .. i] = h[1 .. i - 1] \o seqs[i] /\ h[1 .. i - 1] \in B /\ seqs[i] \in B
  <2>1. /\ 1 .. i \in SUBSET DOMAIN seqs /\ 1 .. i # {}
        /\ Max(1 .. i) = i /\ (1 .. i) \ {i} = 1 .. i - 1
    BY UpTo
  <2>2. 1 .. i - 1 \in SUBSET DOMAIN seqs
    BY <2>1
  <2>3. h[1 .. i - 1] \in B /\ seqs[i] \in B
    BY <1>1, <2>2
  <2>4. h[1 .. i] = op[<<h[1 .. i - 1], seqs[i]>>]
    <3>. HIDE DEF op
    <3>. QED
      BY <1>3, <2>1 DEF Folding
  <2>5. op[<<h[1 .. i - 1], seqs[i]>>] = h[1 .. i - 1] \o seqs[i]
    <3>. HIDE DEF B
    <3>. QED
      BY <2>3
  <2>. QED
    BY <2>3, <2>4, <2>5
<1>5. h[{}] = <<>>
  BY <1>3 DEF Folding
<1>. DEFINE j == [i \in 1 .. n |-> h[1 .. i]]
<1>6. Is(j)
  <2>1. ASSUME NEW i \in 1 .. n PROVE j[i] = IF i = 1 THEN seqs[i] ELSE j[i - 1] \o seqs[i]
    <3>1. CASE i = 1
      <4>1. 1 .. i - 1 = {}
        BY <3>1
      <4>2. h[1 .. i] = <<>> \o seqs[i] /\ seqs[i] \in Seq(A)
        BY <1>4, <1>5, <4>1
      <4>. QED
        BY <3>1, <4>2
    <3>2. CASE i # 1
      <4>1. i - 1 \in 1 .. n
        BY <1>1, <3>2
      <4>. QED
        BY <1>4, <3>2, <4>1
    <3>. QED
      BY <3>1, <3>2
  <2>. QED
    BY <2>1
<1>. DEFINE f == CHOOSE f : Is(f)
<1>. HIDE DEF j
<1>7. Is(f)
  BY <1>6
<1>8. FlattenSeq(seqs) = f[n]
  BY <1>1 DEF FlattenSeq
<1>. HIDE DEF f
<1>9. /\ f[1] = seqs[1] /\ DOMAIN f = 1 .. n
      /\ \A i \in 1 .. n : i > 1 => f[i] = f[i - 1] \o seqs[i]
  <2>1. DOMAIN f = 1 .. n
    BY <1>7
  <2>2. 1 \in 1 .. n
    BY <1>1
  <2>3. f[1] = seqs[1]
    BY <1>7, <2>2
  <2>4. \A i \in 1 .. n : i > 1 => i # 1
    OBVIOUS
  <2>5. \A i \in 1 .. n : i # 1 => f[i] = f[i - 1] \o seqs[i]
    <3>. HIDE DEF n
    <3>. QED
      BY <1>7
  <2>. QED
    BY <2>1, <2>3, <2>4, <2>5
<1>. DEFINE T == {k \in Nat : k + 1 <= n => f[k + 1] \in B}
<1>10. 0 \in T
  BY <1>1, <1>9
<1>11. ASSUME NEW k \in Nat, k \in T PROVE k + 1 \in T
  <2>. SUFFICES ASSUME (k + 1) + 1 <= n PROVE f[(k + 1) + 1] \in B
    OBVIOUS
  <2>1. f[k + 1] \in Seq(A)
    BY <1>1, <1>11
  <2>2. (k + 1) + 1 \in 1 .. n /\ (k + 1) + 1 > 1 /\ ((k + 1) + 1) - 1 = k + 1
    BY <1>1
  <2>3. seqs[(k + 1) + 1] \in Seq(A)
    BY <1>1, <2>2
  <2>4. f[(k + 1) + 1] = f[k + 1] \o seqs[(k + 1) + 1]
    BY <1>9, <2>2
  <2>. QED
    BY <2>1, <2>3, <2>4
<1>12. \A k \in Nat : k \in T
  <2>. HIDE DEF T
  <2>. QED
    BY <1>10, <1>11, Induct
<1>13. ASSUME NEW i \in 1 .. n PROVE f[i] \in Seq(A)
  <2>1. PICK k \in Nat : k = i - 1
    OBVIOUS
  <2>2. k + 1 = i /\ k + 1 <= n
    BY <1>1, <2>1
  <2>. QED
    BY <1>12, <2>2
<1>14. f = [i \in 1 .. n |-> f[i]]
  BY <1>7
<1>15. f \in [1 .. n -> Seq(A)]
  BY <1>13, <1>14
<1>. QED
  BY <1>8, <1>9, <1>15

LEMMA FlattenEmpty == FlattenSeq(<<>>) = <<>>
BY DEF FlattenSeq

LEMMA FlattenAppend ==
  ASSUME NEW A, NEW seqs \in Seq(Seq(A)), NEW s \in Seq(A)
  PROVE  /\ FlattenSeq(seqs) \in Seq(A)
         /\ FlattenSeq(Append(seqs, s)) = FlattenSeq(seqs) \o s
<1>. DEFINE n == Len(seqs)
            more == Append(seqs, s)
<1>1. /\ n \in Nat /\ more \in Seq(Seq(A)) /\ Len(more) = n + 1
      /\ \A i \in 1 .. n : more[i] = seqs[i]
      /\ more[n + 1] = s
  OBVIOUS
<1>. HIDE DEF more
<1>2. Len(more) > 0
  BY <1>1
<1>3. PICK f \in [1 .. Len(more) -> Seq(A)] :
        /\ f[1] = more[1]
        /\ \A i \in 1 .. Len(more) : i > 1 => f[i] = f[i - 1] \o more[i]
        /\ FlattenSeq(more) = f[Len(more)]
  BY <1>1, <1>2, FlattenIs
<1>4. CASE n = 0
  <2>1. seqs = <<>> /\ FlattenSeq(seqs) = <<>>
    BY <1>4, FlattenEmpty
  <2>2. Len(more) = 1 /\ more[1] = s
    BY <1>1, <1>4
  <2>3. FlattenSeq(more) = s
    BY <1>3, <2>2
  <2>4. <<>> \in Seq(A) /\ <<>> \o s = s
    OBVIOUS
  <2>. QED
    BY <2>1, <2>3, <2>4 DEF more
<1>5. ASSUME n # 0
      PROVE  /\ FlattenSeq(seqs) \in Seq(A)
             /\ FlattenSeq(more) = FlattenSeq(seqs) \o s
  <2>0. Len(seqs) > 0
    BY <1>1, <1>5
  <2>. HIDE DEF n
  <2>11. n \in Nat /\ n > 0
    BY <1>1, <1>5
  <2>1. PICK g \in [1 .. n -> Seq(A)] :
          /\ g[1] = seqs[1]
          /\ \A i \in 1 .. n : i > 1 => g[i] = g[i - 1] \o seqs[i]
          /\ FlattenSeq(seqs) = g[n]
    BY <2>0, FlattenIs DEF n
  <2>. DEFINE T == {k \in Nat : k + 1 <= n => f[k + 1] = g[k + 1]}
  <2>2. 0 \in T
    BY <1>1, <1>3, <2>0, <2>1
  <2>3. ASSUME NEW k \in Nat, k \in T PROVE k + 1 \in T
    <3>. SUFFICES ASSUME (k + 1) + 1 <= n PROVE f[(k + 1) + 1] = g[(k + 1) + 1]
      OBVIOUS
    <3>1. f[k + 1] = g[k + 1]
      BY <1>1, <2>3
    <3>2. /\ (k + 1) + 1 \in 1 .. n /\ (k + 1) + 1 \in 1 .. Len(more)
          /\ (k + 1) + 1 > 1 /\ ((k + 1) + 1) - 1 = k + 1
      BY <1>1
    <3>3. f[(k + 1) + 1] = f[k + 1] \o more[(k + 1) + 1] /\ g[(k + 1) + 1] = g[k + 1] \o seqs[(k + 1) + 1]
      BY <1>3, <2>1, <3>2
    <3>. QED
      BY <1>1, <3>1, <3>2, <3>3
  <2>4. \A k \in Nat : k \in T
    <3>. HIDE DEF T
    <3>. QED
      BY <2>2, <2>3, Induct
  <2>5. PICK k \in Nat : k = n - 1
    BY <2>11, <1>1, <2>0
  <2>6. k + 1 = n
    BY <2>11, <1>1, <2>5
  <2>7. f[n] = g[n]
    <3>1. k \in T
      BY <2>4
    <3>2. k + 1 <= n => f[k + 1] = g[k + 1]
      BY <3>1
    <3>. QED
      BY <2>6, <2>11, <3>2
  <2>8. n + 1 \in 1 .. Len(more) /\ n + 1 > 1 /\ (n + 1) - 1 = n
    BY <2>11, <1>1, <2>0
  <2>9. f[n + 1] = f[n] \o more[n + 1]
    BY <1>3, <2>8
  <2>10. g[n] \in Seq(A)
    BY <2>11, <2>0, <2>1
  <2>. QED
    BY <1>1, <1>3, <2>1, <2>7, <2>9, <2>10
<1>. QED
  BY <1>4, <1>5 DEF more
=============================================================================
