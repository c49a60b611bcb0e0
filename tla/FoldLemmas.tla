------------------------------- MODULE FoldLemmas -------------------------------
(***************************************************************************)
(* Induction over the natural numbers, stated about sets instead of        *)
(* predicates so that first-order provers can use it, the existence of     *)
(* functions defined by recursion, and what every step of a fold over a    *)
(* sequence keeps, the fold keeps.                                         *)
(*                                                                         *)
(* A lemma can not be applied to an operator, a module can: a proof        *)
(* instantiates this one with the step, Op, whose first argument is fixed  *)
(* during the fold, and with what is kept, Good.                           *)
(***************************************************************************)
EXTENDS Integers, Sequences, SequencesExt, WellFoundedInduction, TLAPS

CONSTANTS Op(_, _, _), Good(_, _)

\* A relation without infinite descent has minimal elements.
LEMMA Minimal ==
    ASSUME NEW R, IsWellFoundedOn(R, Nat), NEW T, T \subseteq Nat, T # {}
    PROVE  \E x \in T : \A y \in T : ~ (<<y, x>> \in R)
  BY WFMin, Zenon

\* A set of naturals that has an element has a least one.
LEMMA Least ==
    ASSUME NEW T, T \subseteq Nat, T # {}
    PROVE  \E x \in T : \A y \in T : x <= y
<1> DEFINE R == OpToRel(<, Nat)
<1>1. IsWellFoundedOn(R, Nat)
  BY NatLessThanWellFounded, Zenon
<1>2. \A y, x \in Nat : y < x => <<y, x>> \in R
  BY DEF OpToRel
<1> HIDE DEF R
<1>3. PICK x \in T : \A y \in T : ~ (<<y, x>> \in R)
  BY <1>1, Minimal, Zenon
<1>4. x \in Nat /\ \A y \in T : y \in Nat /\ ~(y < x)
  BY <1>2, <1>3
<1> QED
  BY <1>4

\* Induction.
LEMMA Induction ==
    ASSUME NEW S, 0 \in S, \A n \in Nat : n \in S => n + 1 \in S
    PROVE  Nat \subseteq S
<1> SUFFICES ASSUME Nat \ S # {} PROVE FALSE
  OBVIOUS
<1>1. PICK x \in Nat \ S : \A y \in Nat \ S : x <= y
  BY Least
<1>2. x - 1 \in Nat
  BY <1>1
<1>3. x - 1 \in S
  BY <1>1, <1>2
<1> QED
  BY <1>1, <1>2, <1>3

-----------------------------------------------------------------------------
(* Recursion                                                               *)

\* the first values of the function that starts with a and goes on by g
Begins(h, n, D, a, g) ==
    /\ h \in [0 .. n -> D] /\ h[0] = a
    /\ \A i \in 0 .. n - 1 : h[i + 1] = g[h[i]]

\* Two beginnings agree as far as both go.
LEMMA BeginningsAgree ==
    ASSUME NEW D, NEW a, NEW g, NEW n \in Nat, NEW m \in Nat, n <= m,
           NEW h, NEW k, Begins(h, n, D, a, g), Begins(k, m, D, a, g)
    PROVE  \A i \in 0 .. n : h[i] = k[i]
<1> DEFINE S == {i \in Nat : i <= n => h[i] = k[i]}
<1>1. 0 \in S
  BY DEF Begins
<1>2. ASSUME NEW i \in Nat, i \in S PROVE i + 1 \in S
  <2>1. CASE i + 1 <= n
    <3>1. i \in 0 .. n - 1 /\ i \in 0 .. m - 1 /\ h[i] = k[i]
      BY <1>2, <2>1
    <3> QED
      BY <3>1 DEF Begins
  <2> QED
    BY <2>1
<1> HIDE DEF S
<1>3. Nat \subseteq S
  BY <1>1, <1>2, Induction
<1> QED
  BY <1>3 DEF S

\* A function of the naturals may be defined by its first value and the step
\* from each value to the next.
LEMMA Recursion ==
    ASSUME NEW D, NEW a \in D, NEW g \in [D -> D]
    PROVE  \E f \in [Nat -> D] : f[0] = a /\ \A n \in Nat : f[n + 1] = g[f[n]]
<1> DEFINE S == {n \in Nat : \E h : Begins(h, n, D, a, g)}
<1>1. 0 \in S
  <2>1. Begins([i \in 0 .. 0 |-> a], 0, D, a, g)
    BY DEF Begins
  <2> QED
    BY <2>1
<1>2. ASSUME NEW n \in Nat, n \in S PROVE n + 1 \in S
  <2>1. PICK h : Begins(h, n, D, a, g)
    BY <1>2
  <2> DEFINE k == [i \in 0 .. n + 1 |-> IF i <= n THEN h[i] ELSE g[h[n]]]
  <2>2. h[n] \in D /\ \A i \in 0 .. n : h[i] \in D
    BY <2>1 DEF Begins
  <2>3. k \in [0 .. n + 1 -> D] /\ k[0] = a
    BY <2>1, <2>2 DEF Begins
  <2>4. ASSUME NEW i \in 0 .. n PROVE k[i + 1] = g[k[i]]
    <3>1. CASE i = n
      BY <3>1
    <3>2. CASE i # n
      <4>1. i \in 0 .. n - 1 /\ i + 1 \in 0 .. n
        BY <3>2
      <4> QED
        BY <2>1, <4>1 DEF Begins
    <3> QED
      BY <3>1, <3>2
  <2> HIDE DEF k
  <2>5. Begins(k, n + 1, D, a, g)
    BY <2>3, <2>4 DEF Begins
  <2> QED
    BY <2>5
<1> HIDE DEF S
<1>3. Nat \subseteq S
  BY <1>1, <1>2, Induction
<1>4. \A n \in Nat : \E h : Begins(h, n, D, a, g)
  BY <1>3 DEF S
<1> DEFINE H(n) == CHOOSE h : Begins(h, n, D, a, g)
           f == [n \in Nat |-> H(n)[n]]
<1>5. \A n \in Nat : Begins(H(n), n, D, a, g)
  BY <1>4
<1> HIDE DEF H
<1>6. f \in [Nat -> D] /\ f[0] = a
  <2>1. \A n \in Nat : H(n)[n] \in D
    BY <1>5 DEF Begins
  <2>2. H(0)[0] = a
    BY <1>5 DEF Begins
  <2> QED
    BY <2>1, <2>2
<1>7. ASSUME NEW n \in Nat PROVE f[n + 1] = g[f[n]]
  <2>1. Begins(H(n), n, D, a, g) /\ Begins(H(n + 1), n + 1, D, a, g)
    BY <1>5
  <2>2. H(n)[n] = H(n + 1)[n]
    BY <2>1, BeginningsAgree
  <2>3. H(n + 1)[n + 1] = g[H(n + 1)[n]]
    BY <2>1 DEF Begins
  <2> QED
    BY <2>2, <2>3
<1> QED
  BY <1>6, <1>7

-----------------------------------------------------------------------------
(* Folds                                                                   *)

Fold(arg, b, seq) == FoldLeft(LAMBDA c, x : Op(arg, c, x), b, seq)

\* A non-empty set of naturals that has a bound has a greatest element.
LEMMA Greatest ==
    ASSUME NEW n \in Nat, NEW s \in SUBSET (1 .. n), s # {}
    PROVE  Max(s) \in s /\ \A y \in s : Max(s) >= y
<1> DEFINE T == {k \in Nat : \A y \in s : y <= k}
<1>1. n \in T
  OBVIOUS
<1>2. PICK k \in T : \A j \in T : k <= j
  BY <1>1, Least
<1>3. k \in s
  <2> SUFFICES ASSUME k \notin s PROVE FALSE
    OBVIOUS
  <2>1. \A y \in s : y <= k - 1
    BY <1>2
  <2>2. PICK y \in s : TRUE
    OBVIOUS
  <2>3. k - 1 \in T
    BY <1>2, <2>1, <2>2
  <2> QED
    BY <1>2, <2>3
<1>4. \E k0 \in s : \A y \in s : k0 >= y
  BY <1>2, <1>3
<1> QED
  BY <1>4 DEF Max

\* Without it, the set fits a smaller bound.
LEMMA Shrinks ==
    ASSUME NEW m \in Nat, NEW s \in SUBSET (1 .. m + 1), s # {}
    PROVE  Max(s) \in s /\ s \ {Max(s)} \in SUBSET (1 .. m)
<1>1. m + 1 \in Nat
  OBVIOUS
<1>2. Max(s) \in s /\ \A y \in s : Max(s) >= y
  BY <1>1, Greatest
<1>3. ASSUME NEW y \in s \ {Max(s)} PROVE y \in 1 .. m
  <2> DEFINE x == Max(s)
  <2>1. x \in 1 .. m + 1 /\ y \in 1 .. m + 1 /\ y <= x /\ y # x
    BY <1>2
  <2> HIDE DEF x
  <2> QED
    BY <2>1
<1> QED
  BY <1>2, <1>3

\* What the first step of a fold brings about and the others keep, it brings
\* about.
THEOREM FoldedOnce ==
    ASSUME NEW a, NEW arg, NEW b, NEW seq, NEW n \in Nat, DOMAIN seq = 1 .. n,
           n = 0 => Good(a, b),
           \A k \in 1 .. n : Good(a, Op(arg, b, seq[k])),
           \A c : \A k \in 1 .. n : Good(a, c) => Good(a, Op(arg, c, seq[k]))
    PROVE  Good(a, Fold(arg, b, seq))
<1> DEFINE Value(f, s) == IF s = {} THEN b ELSE Op(arg, f[s \ {Max(s)}], seq[Max(s)])
           Iterates(f, m) == f = [s \in SUBSET (1 .. m) |-> Value(f, s)]
<1>1. \A m \in Nat : \E f : Iterates(f, m)
  <2> DEFINE S == {m \in Nat : \E f : Iterates(f, m)}
  <2>1. 0 \in S
    <3>1. Iterates([s \in SUBSET (1 .. 0) |-> b], 0)
      <4>1. \A s \in SUBSET (1 .. 0) : s = {}
        OBVIOUS
      <4> QED
        BY <4>1
    <3> QED
      BY <3>1
  <2>2. ASSUME NEW m \in Nat, m \in S PROVE m + 1 \in S
    <3>1. PICK f : Iterates(f, m)
      BY <2>2
    <3> DEFINE g == [s \in SUBSET (1 .. m + 1) |-> Value(f, s)]
    <3>2. ASSUME NEW s \in SUBSET (1 .. m + 1), s # {}
          PROVE  s \ {Max(s)} \in SUBSET (1 .. m)
      BY <3>2, Shrinks
    <3>3. ASSUME NEW s \in SUBSET (1 .. m) PROVE g[s] = f[s]
      <4>1. s \in SUBSET (1 .. m + 1)
        OBVIOUS
      <4>2. f[s] = Value(f, s)
        BY <3>1
      <4> QED
        BY <4>1, <4>2
    <3>4. ASSUME NEW s \in SUBSET (1 .. m + 1) PROVE Value(g, s) = Value(f, s)
      <4>1. CASE s = {}
        BY <4>1
      <4>2. CASE s # {}
        BY <3>2, <3>3, <4>2
      <4> QED
        BY <4>1, <4>2
    <3>5. Iterates(g, m + 1)
      <4> HIDE DEF Value
      <4> QED
        BY <3>4
    <3> HIDE DEF Iterates, g
    <3> QED
      BY <3>5
  <2> HIDE DEF S
  <2>3. Nat \subseteq S
    BY <2>1, <2>2, Induction
  <2> QED
    BY <2>3 DEF S
<1> DEFINE it == CHOOSE f : Iterates(f, n)
<1>2. Iterates(it, n)
  BY <1>1
<1>3. Fold(arg, b, seq) = it[1 .. n]
  BY DEF Fold, FoldLeft, MapThenFoldSet
<1>4. \A m \in Nat : m <= n => \A s \in SUBSET (1 .. m) : s # {} => Good(a, it[s])
  <2> HIDE DEF it
  <2> DEFINE S == {m \in Nat : m <= n => \A s \in SUBSET (1 .. m) : s # {} => Good(a, it[s])}
  <2>1. 0 \in S
    <3>1. \A s \in SUBSET (1 .. 0) : s = {}
      OBVIOUS
    <3> QED
      BY <3>1
  <2>2. ASSUME NEW m \in Nat, m \in S, m + 1 <= n, NEW s \in SUBSET (1 .. m + 1), s # {}
        PROVE  Good(a, it[s])
    <3>1. s \in SUBSET (1 .. n)
      <4>1. \A x \in 1 .. m + 1 : x \in 1 .. n
        BY <2>2
      <4> QED
        BY <4>1
    <3>2. it[s] = Value(it, s)
      BY <1>2, <3>1
    <3> DEFINE t == s \ {Max(s)}
    <3>0. m <= n
      BY <2>2
    <3>3. Max(s) \in 1 .. n /\ t \in SUBSET (1 .. m) /\ m <= n
      BY <2>2, <3>0, <3>1, Shrinks
    <3>4. it[s] = Op(arg, it[t], seq[Max(s)])
      BY <2>2, <3>2
    <3>5. CASE t = {}
      <4>1. {} \in SUBSET (1 .. n)
        OBVIOUS
      <4>2. it[t] = b
        BY <1>2, <3>5, <4>1
      <4> QED
        BY <3>3, <3>4, <4>2
    <3>6. CASE t # {}
      <4>1. Good(a, it[t])
        BY <2>2, <3>3, <3>6
      <4> QED
        BY <3>3, <3>4, <4>1
    <3> QED
      BY <3>5, <3>6
  <2>3. ASSUME NEW m \in Nat, m \in S PROVE m + 1 \in S
    <3>1. m + 1 <= n => \A s \in SUBSET (1 .. m + 1) : s # {} => Good(a, it[s])
      BY <2>2, <2>3
    <3>2. m + 1 \in Nat
      OBVIOUS
    <3> QED
      BY <3>1, <3>2
  <2> HIDE DEF S
  <2>4. Nat \subseteq S
    BY <2>1, <2>3, Induction
  <2> QED
    BY <2>4 DEF S
<1>5. CASE n = 0
  <2>1. 1 .. n = {} /\ {} \in SUBSET (1 .. n)
    BY <1>5
  <2>2. it[1 .. n] = b
    BY <1>2, <2>1
  <2> QED
    BY <1>3, <1>5, <2>2
<1>6. CASE n # 0
  <2>1. 1 .. n # {} /\ 1 .. n \in SUBSET (1 .. n) /\ n <= n
    BY <1>6
  <2> HIDE DEF it
  <2> QED
    BY <1>3, <1>4, <2>1
<1> QED
  BY <1>5, <1>6

\* The fold of a sequence keeps what its steps keep.
THEOREM Folded ==
    ASSUME NEW a, NEW arg, NEW b, NEW seq, NEW n \in Nat, DOMAIN seq = 1 .. n,
           Good(a, b),
           \A c : \A k \in 1 .. n : Good(a, c) => Good(a, Op(arg, c, seq[k]))
    PROVE  Good(a, Fold(arg, b, seq))
  BY FoldedOnce
=============================================================================
