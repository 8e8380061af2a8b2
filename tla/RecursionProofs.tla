--------------------------- MODULE RecursionProofs ---------------------------
(***************************************************************************)
(* Induction and recursion over numbers.  The library states them with an  *)
(* operator as parameter, for which nothing can be substituted in a proof; *)
(* here a set of numbers stands for the claim and a function for the step. *)
(***************************************************************************)
EXTENDS Integers, WellFoundedInduction, NaturalsInduction, TLAPS

\* A set of numbers that is not empty has a least one: what every induction rests
\* on.
LEMMA Least ==
  ASSUME NEW T \in SUBSET Nat, T # {}
  PROVE  \E x \in T : \A y \in T : x <= y
<1>1. PICK R : R = OpToRel(<, Nat)
  OBVIOUS
<1>2. IsWellFoundedOn(R, Nat)
  BY <1>1, NatLessThanWellFounded
<1>3. PICK x \in T : \A y \in T : ~(<<y, x>> \in R)
  BY <1>2, WFMin
<1>4. \A y, z \in Nat : y < z => <<y, z>> \in R
  BY <1>1 DEF OpToRel
<1>5. ASSUME NEW y \in T
      PROVE  x <= y
  <2>1. x \in Nat /\ y \in Nat
    OBVIOUS
  <2>2. ~(y < x)
    BY <1>3, <1>4, <2>1
  <2> QED
    BY <2>1, <2>2
<1> QED
  BY <1>5

\* A set with 0 and the successor of each member up to N has all numbers up to N.
LEMMA Induction ==
  ASSUME NEW N \in Nat, NEW T, 0 \in T, \A n \in 1..N : n - 1 \in T => n \in T
  PROVE  \A n \in 0..N : n \in T
<1>1. SUFFICES ASSUME NEW m \in 0..N, m \notin T
               PROVE  FALSE
  OBVIOUS
<1>2. PICK F : F = {n \in 0..N : n \notin T}
  OBVIOUS
<1>3. F \in SUBSET Nat /\ F # {}
  BY <1>1, <1>2
<1>4. PICK x \in F : \A y \in F : x <= y
  BY <1>3, Least
<1>5. x \in 1..N
  BY <1>2, <1>4
<1>6. x - 1 \in 0..N /\ x - 1 \notin F
  BY <1>4, <1>5
<1>7. x - 1 \in T
  BY <1>2, <1>6
<1> QED
  BY <1>2, <1>4, <1>5, <1>7

\* f starts with a and continues with g.
Iterates(f, N, S, a, g) ==
  f \in [0..N -> S] /\ f[0] = a /\ \A n \in 1..N : f[n] = g[<<n, f[n - 1]>>]

\* What a function that is defined by recursion needs to exist.
LEMMA Recursion ==
  ASSUME NEW N \in Nat, NEW S, NEW a \in S, NEW g \in [(1..N) \X S -> S]
  PROVE  \E f : Iterates(f, N, S, a, g)
<1> DEFINE Upto(h, n) == /\ h \in [0..n -> S] /\ h[0] = a
                         /\ \A i \in 1..n : h[i] = g[<<i, h[i - 1]>>]
<1> DEFINE T == {n \in 0..N : \E h : Upto(h, n)}
<1>1. 0 \in T
  <2>1. PICK h : h = [i \in 0..0 |-> a]
    OBVIOUS
  <2>2. Upto(h, 0)
    BY <2>1
  <2> QED
    BY <2>2
<1>2. ASSUME NEW n \in 1..N, n - 1 \in T
      PROVE  n \in T
  <2>1. PICK h : Upto(h, n - 1)
    BY <1>2
  <2>2. PICK v : v = g[<<n, h[n - 1]>>]
    OBVIOUS
  <2>3. v \in S
    <3>1. h[n - 1] \in S
      BY <2>1
    <3> QED
      BY <2>2, <3>1
  <2>4. PICK k : k = [i \in 0..n |-> IF i = n THEN v ELSE h[i]]
    OBVIOUS
  <2>5. k \in [0..n -> S] /\ k[0] = a
    BY <2>1, <2>3, <2>4
  <2>6. ASSUME NEW i \in 1..n
        PROVE  k[i] = g[<<i, k[i - 1]>>]
    <3>1. k[i - 1] = h[i - 1]
      BY <2>4
    <3>2. CASE i = n
      <4>1. k[i] = v
        BY <2>4, <3>2
      <4>2. v = g[<<i, h[i - 1]>>]
        BY <2>2, <3>2
      <4> QED
        BY <3>1, <4>1, <4>2
    <3>3. CASE i # n
      <4>1. i \in 1..(n - 1)
        BY <3>3
      <4>2. k[i] = h[i]
        BY <2>4, <3>3
      <4> QED
        BY <2>1, <3>1, <4>1, <4>2
    <3> QED
      BY <3>2, <3>3
  <2>7. Upto(k, n)
    BY <2>5, <2>6
  <2> QED
    BY <2>7
<1>3. N \in T
  <2> HIDE DEF T
  <2> QED
    BY <1>1, <1>2, Induction
<1> QED
  BY <1>3 DEF Iterates
==============================================================================
