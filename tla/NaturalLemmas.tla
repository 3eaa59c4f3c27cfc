---------------------------- MODULE NaturalLemmas ----------------------------
(***************************************************************************)
(* Least numbers and induction over the naturals, in the form of           *)
(* statements about sets: the provers can instantiate these, which they    *)
(* cannot do with a theorem that has an operator for a parameter.  To      *)
(* prove P(n) for all n, take the set {n \in Nat : P(n)}.                  *)
(***************************************************************************)
EXTENDS Integers, WellFoundedInduction, TLAPS

LOCAL INSTANCE FiniteSetsExt

\* A set of naturals has a least element: what `the first that ...' of the
\* code rests on, as in _extract_one_frame() and in the sorting of registers.
LEMMA Least ==
  ASSUME NEW S \in SUBSET Nat, S # {}
  PROVE  \E x \in S : \A y \in S : x <= y
<1>1. PICK x \in S : \A y \in S : <<y, x>> \notin OpToRel(<, Nat)
  BY NatLessThanWellFounded, WFMin
<1>2. \A y \in S : y < x => <<y, x>> \in OpToRel(<, Nat)
  BY DEF OpToRel
<1>3. \A y \in S : ~(y < x)
  BY <1>1, <1>2, Zenon
<1>4. QED BY <1>3

\* Induction, for the set of the numbers that have the property.
LEMMA Induction ==
  ASSUME NEW S \in SUBSET Nat, 0 \in S, \A n \in S : n + 1 \in S
  PROVE  S = Nat
<1>1. SUFFICES ASSUME Nat \ S # {} PROVE FALSE
  OBVIOUS
<1>2. PICK x \in Nat \ S : \A y \in Nat \ S : x <= y
  BY <1>1, Least
<1>3. QED BY <1>2

\* Min of the community modules finds the least element.
LEMMA MinIsLeast ==
  ASSUME NEW S \in SUBSET Nat, S # {}
  PROVE  Min(S) \in S /\ \A y \in S : Min(S) <= y
BY Least DEF Min

\* A set of naturals that has a bound has a greatest element.
LEMMA Greatest ==
  ASSUME NEW S \in SUBSET Nat, S # {}, NEW b \in Nat, \A y \in S : y <= b
  PROVE  \E x \in S : \A y \in S : x >= y
<1> DEFINE T == {n \in Nat : \A y \in S : y <= n}
<1>0. b \in T
  OBVIOUS
<1>1. PICK m \in T : \A n \in T : m <= n
  BY <1>0, Least
<1>2. m \in S
  <2>1. SUFFICES ASSUME m \notin S PROVE FALSE
    OBVIOUS
  <2>2. m # 0
    <3>1. PICK y \in S : y <= m /\ y # m
      BY <2>1
    <3>2. QED BY <3>1
  <2>3. m - 1 \in T
    BY <1>1, <2>1, <2>2
  <2>4. QED BY <1>1, <2>3
<1>3. QED BY <1>1, <1>2

LEMMA MaxIsGreatest ==
  ASSUME NEW S \in SUBSET Nat, S # {}, NEW b \in Nat, \A y \in S : y <= b
  PROVE  Max(S) \in S /\ \A y \in S : Max(S) >= y
BY Greatest DEF Max

-----------------------------------------------------------------------------
(* Functions defined by recursion on their argument. *)

\* f is what n steps of g make of a; g[i] is step number i.
Iterates(A, a, g, n, f) ==
  /\ f \in [0..n -> A]
  /\ f[0] = a
  /\ \A i \in 0..(n - 1) : f[i + 1] = g[i][f[i]]

LEMMA IteratesUnique ==
  ASSUME NEW A, NEW a \in A, NEW g \in [Nat -> [A -> A]],
         NEW n \in Nat, NEW e, Iterates(A, a, g, n, e),
         NEW m \in Nat, NEW f, Iterates(A, a, g, m, f),
         NEW k \in Nat, k <= n, k <= m
  PROVE  e[k] = f[k]
<1> DEFINE S == {i \in Nat : i <= k => e[i] = f[i]}
<1>1. 0 \in S
  BY DEF Iterates
<1>2. ASSUME NEW i \in S PROVE i + 1 \in S
  <2>1. SUFFICES ASSUME i + 1 <= k PROVE e[i + 1] = f[i + 1]
    OBVIOUS
  <2>2. e[i] = f[i] /\ i \in 0..(n - 1) /\ i \in 0..(m - 1)
    BY <1>2, <2>1
  <2>3. QED BY <2>2 DEF Iterates
<1>3. S = Nat
  <2> HIDE DEF S
  <2>1. S \in SUBSET Nat
    BY DEF S
  <2>2. QED BY <1>1, <1>2, <2>1, Induction
<1>4. QED BY <1>3

LEMMA IteratesExists ==
  ASSUME NEW A, NEW a \in A, NEW g \in [Nat -> [A -> A]], NEW n \in Nat
  PROVE  \E f : Iterates(A, a, g, n, f)
<1> DEFINE S == {i \in Nat : \E f : Iterates(A, a, g, i, f)}
<1>1. 0 \in S
  <2>1. Iterates(A, a, g, 0, [i \in 0..0 |-> a])
    BY DEF Iterates
  <2>2. QED BY <2>1
<1>2. ASSUME NEW i \in S PROVE i + 1 \in S
  <2>1. PICK f : Iterates(A, a, g, i, f)
    BY <1>2
  <2> DEFINE h == [j \in 0..(i + 1) |-> IF j = i + 1 THEN g[i][f[i]] ELSE f[j]]
  <2>2. i \in Nat /\ f[i] \in A
    BY <1>2, <2>1 DEF Iterates
  <2>3. g[i][f[i]] \in A
    BY <2>2
  <2>4. h \in [0..(i + 1) -> A] /\ h[0] = a
    BY <2>1, <2>2, <2>3 DEF Iterates
  <2>5. ASSUME NEW j \in 0..(i + 1 - 1) PROVE h[j + 1] = g[j][h[j]]
    <3>1. h[j] = f[j]
      BY <2>2, <2>5
    <3>2. CASE j = i
      BY <3>1, <3>2, <2>2
    <3>3. CASE j # i
      <4>1. j \in 0..(i - 1) /\ j + 1 \in 0..(i + 1) /\ j + 1 # i + 1
        BY <2>2, <2>5, <3>3
      <4>2. h[j + 1] = f[j + 1]
        BY <4>1
      <4>3. f[j + 1] = g[j][f[j]]
        BY <4>1, <2>1 DEF Iterates
      <4>4. QED BY <3>1, <4>2, <4>3
    <3>4. QED BY <3>2, <3>3
  <2> HIDE DEF h
  <2>6. Iterates(A, a, g, i + 1, h)
    <3>1. \A j \in 0..((i + 1) - 1) : h[j + 1] = g[j][h[j]]
      BY <2>5
    <3>2. QED BY <2>4, <3>1 DEF Iterates
  <2>7. QED BY <2>2, <2>6
<1>3. S = Nat
  <2> HIDE DEF S
  <2>1. S \in SUBSET Nat
    BY DEF S
  <2>2. QED BY <1>1, <1>2, <2>1, Induction
<1>4. QED BY <1>3

\* The recursive function: for every start and every step there is a function
\* that follows it, so a definition by recursion is not a
\* choice among nothing.
FollowsRule(A, a, g, f) ==
  /\ f \in [Nat -> A]
  /\ f[0] = a
  /\ \A n \in Nat : f[n + 1] = g[n][f[n]]

Recursion(A, a, g) == [n \in Nat |-> (CHOOSE f : Iterates(A, a, g, n, f))[n]]

LEMMA PrimitiveRecursion ==
  ASSUME NEW A, NEW a \in A, NEW g \in [Nat -> [A -> A]]
  PROVE  FollowsRule(A, a, g, Recursion(A, a, g))
<1> DEFINE P(n) == CHOOSE f : Iterates(A, a, g, n, f)
           F == Recursion(A, a, g)
<1>0. F = [n \in Nat |-> P(n)[n]]
  BY DEF Recursion
<1>1. ASSUME NEW n \in Nat PROVE Iterates(A, a, g, n, P(n))
  BY IteratesExists, Zenon
<1> HIDE DEF P, F
<1>2. F \in [Nat -> A]
  BY <1>0, <1>1 DEF Iterates
<1>3. F[0] = a
  BY <1>0, <1>1 DEF Iterates
<1>4. ASSUME NEW n \in Nat PROVE F[n + 1] = g[n][F[n]]
  <2>1. Iterates(A, a, g, n, P(n)) /\ Iterates(A, a, g, n + 1, P(n + 1))
    BY <1>1
  <2>2. P(n + 1)[n + 1] = g[n][P(n + 1)[n]]
    BY <2>1 DEF Iterates
  <2>3. P(n + 1)[n] = P(n)[n]
    BY <2>1, IteratesUnique
  <2>4. QED BY <1>0, <2>2, <2>3
<1>5. QED BY <1>2, <1>3, <1>4 DEF F, FollowsRule
=============================================================================
