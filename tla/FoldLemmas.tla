----------------------------- MODULE FoldLemmas -----------------------------
(***************************************************************************)
(* Induction over naturals and finite sets, and what a fold of the         *)
(* community modules computes.  A fold is the value of a recursive function *)
(* over subsets, written with CHOOSE; that such a function exists is the    *)
(* first thing to prove about it.  The principles are stated about sets    *)
(* (of numbers, of subsets) rather than about predicates, so that a proof  *)
(* cites them with a set it has defined.                                   *)
(***************************************************************************)
EXTENDS Integers, FiniteSets, FiniteSetsExt, FiniteSetTheorems, TLAPS

\* A set of naturals has a least element.
LEMMA LeastOf ==
  ASSUME NEW T, T \subseteq Nat, T # {}
  PROVE  \E n \in T : \A m \in T : ~(m < n)
  <1> DEFINE R == {ss \in Nat \X Nat : ss[1] < ss[2]}
  <1>1. IsWellFoundedOn(R, Nat)
    BY NatLessThanWellFounded DEF OpToRel
  <1>2. PICK n \in T : \A m \in T : ~(<<m, n>> \in R)
    <2> HIDE DEF R
    <2> QED BY <1>1, WFMin
  <1>3. \A m \in T : m < n => <<m, n>> \in R
    OBVIOUS
  <1> QED
    BY <1>2, <1>3

\* Induction over the naturals.
LEMMA AllNat ==
  ASSUME NEW T, T \subseteq Nat, 0 \in T, \A n \in T : n + 1 \in T
  PROVE  T = Nat
  <1> DEFINE U == Nat \ T
  <1> SUFFICES ASSUME U # {} PROVE FALSE
    OBVIOUS
  <1>1. PICK n \in U : \A m \in U : ~(m < n)
    BY LeastOf
  <1>2. n # 0 /\ n - 1 \in Nat
    BY <1>1
  <1>3. n - 1 \in T
    BY <1>1, <1>2
  <1> QED
    BY <1>1, <1>2, <1>3

\* Taking an element out of a finite set leaves a smaller one.
LEMMA Smaller ==
  ASSUME NEW D, IsFiniteSet(D), NEW s \in SUBSET D, NEW x \in s
  PROVE  /\ s \ {x} \in SUBSET D
         /\ Cardinality(s) \in Nat /\ Cardinality(s \ {x}) \in Nat
         /\ Cardinality(s \ {x}) = Cardinality(s) - 1
  <1>1. IsFiniteSet(s)
    BY FS_Subset
  <1> QED
    BY <1>1, FS_RemoveElement, FS_CardinalityType

\* Induction over the subsets of a finite set, by their size.
LEMMA AllSubsets ==
  ASSUME NEW D, IsFiniteSet(D), NEW P,
         {} \in P,
         \A s \in SUBSET D : (\A x \in s : s \ {x} \in P) => s \in P
  PROVE  SUBSET D \subseteq P
  <1> DEFINE T == {n \in Nat : \A s \in SUBSET D : Cardinality(s) = n => s \in P}
  <1>1. 0 \in T
    <2> SUFFICES ASSUME NEW s \in SUBSET D, Cardinality(s) = 0 PROVE s \in P
      OBVIOUS
    <2>1. s = {}
      BY FS_Subset, FS_EmptySet
    <2> QED
      BY <2>1
  <1>2. ASSUME NEW n \in T PROVE n + 1 \in T
    <2> SUFFICES ASSUME NEW s \in SUBSET D, Cardinality(s) = n + 1 PROVE s \in P
      OBVIOUS
    <2>1. ASSUME NEW x \in s PROVE s \ {x} \in P
      BY Smaller
    <2> QED
      BY <2>1
  <1>3. T = Nat
    <2> HIDE DEF T
    <2>1. T \subseteq Nat
      BY DEF T
    <2> QED
      BY <1>1, <1>2, <2>1, AllNat
  <1>4. \A s \in SUBSET D : Cardinality(s) \in Nat
    BY FS_Subset, FS_CardinalityType
  <1> QED
    BY <1>3, <1>4

\* The smaller and the larger of two numbers.
LEMMA MinOf == \A x, y \in Int : Min({x, y}) = IF x =< y THEN x ELSE y
  <1> SUFFICES ASSUME NEW x \in Int, NEW y \in Int
               PROVE  Min({x, y}) = IF x =< y THEN x ELSE y
    OBVIOUS
  <1>1. \E z \in {x, y} : \A w \in {x, y} : z =< w
    OBVIOUS
  <1>2. Min({x, y}) \in {x, y} /\ \A w \in {x, y} : Min({x, y}) =< w
    BY <1>1 DEF Min
  <1> QED
    BY <1>2

LEMMA MaxOf == \A x, y \in Int : Max({x, y}) = IF x >= y THEN x ELSE y
  <1> SUFFICES ASSUME NEW x \in Int, NEW y \in Int
               PROVE  Max({x, y}) = IF x >= y THEN x ELSE y
    OBVIOUS
  <1>1. \E z \in {x, y} : \A w \in {x, y} : z >= w
    OBVIOUS
  <1>2. Max({x, y}) \in {x, y} /\ \A w \in {x, y} : Max({x, y}) >= w
    BY <1>1 DEF Max
  <1> QED
    BY <1>2

\* A finite set of naturals has a largest element.
LEMMA MaxIn ==
  ASSUME NEW D, IsFiniteSet(D), D \subseteq Nat
  PROVE  \A s \in SUBSET D : s # {} => Max(s) \in s /\ \A n \in s : n =< Max(s)
  <1> DEFINE P == {s \in SUBSET D : s # {} => \E m \in s : \A n \in s : n =< m}
  <1>1. {} \in P
    OBVIOUS
  <1>2. ASSUME NEW s \in SUBSET D, \A x \in s : s \ {x} \in P PROVE s \in P
    <2> SUFFICES ASSUME s # {} PROVE \E m \in s : \A n \in s : n =< m
      OBVIOUS
    <2>1. PICK x \in s : TRUE
      OBVIOUS
    <2>2. CASE s \ {x} = {}
      BY <2>1, <2>2
    <2>3. CASE s \ {x} # {}
      <3>1. PICK m \in s \ {x} : \A n \in s \ {x} : n =< m
        BY <1>2, <2>1, <2>3
      <3>2. x =< m \/ m =< x
        BY <2>1, <3>1
      <3> QED
        BY <2>1, <3>1, <3>2
    <2> QED
      BY <2>2, <2>3
  <1>3. SUBSET D \subseteq P
    <2> HIDE DEF P
    <2> QED
      BY <1>1, <1>2, AllSubsets
  <1> SUFFICES ASSUME NEW s \in SUBSET D, s # {}
               PROVE  Max(s) \in s /\ \A n \in s : n =< Max(s)
    OBVIOUS
  <1>4. \E m \in s : \A n \in s : m >= n
    BY <1>3
  <1> QED
    BY <1>4 DEF Max

\* What holds of the empty set and is kept as one element is taken in, holds of all.
LEMMA StaysIn ==
  ASSUME NEW D, IsFiniteSet(D), NEW V, NEW g, g[{}] \in V,
         \A s \in SUBSET D : s # {} => \E x \in s : g[s \ {x}] \in V => g[s] \in V
  PROVE  \A s \in SUBSET D : g[s] \in V
  <1> DEFINE P == {s \in SUBSET D : g[s] \in V}
  <1>1. {} \in P
    OBVIOUS
  <1>2. \A s \in SUBSET D : (\A x \in s : s \ {x} \in P) => s \in P
    OBVIOUS
  <1>3. SUBSET D \subseteq P
    <2> HIDE DEF P
    <2> QED
      BY <1>1, <1>2, AllSubsets
  <1> QED
    BY <1>3

\* Recursion over the subsets of a finite set: from base, an element (the one c
\* names) is taken in at a time, and H says what becomes of the value.
Recursion(D, base, c, H, g) ==
  \A s \in SUBSET D : g[s] = IF s = {} THEN base ELSE H[<<s, g[s \ {c[s]}]>>]

LEMMA RecursionExists ==
  ASSUME NEW D, IsFiniteSet(D), NEW V, NEW base \in V, NEW c, NEW H,
         \A s \in SUBSET D : s # {} => c[s] \in s,
         \A s \in SUBSET D : \A v \in V : s # {} => H[<<s, v>>] \in V
  PROVE  \E g \in [SUBSET D -> V] : Recursion(D, base, c, H, g)
  <1> DEFINE Up(n, g) == \A s \in SUBSET D : Cardinality(s) =< n =>
                            g[s] = IF s = {} THEN base ELSE H[<<s, g[s \ {c[s]}]>>]
             T == {n \in Nat : \E g \in [SUBSET D -> V] : Up(n, g)}
  <1>0. \A s \in SUBSET D : Cardinality(s) \in Nat /\ (Cardinality(s) = 0 => s = {})
    BY FS_Subset, FS_CardinalityType, FS_EmptySet
  <1>1. 0 \in T
    <2> DEFINE g == [s \in SUBSET D |-> base]
    <2>1. g \in [SUBSET D -> V] /\ Up(0, g)
      BY <1>0
    <2> QED
      BY <2>1
  <1>2. ASSUME NEW n \in T PROVE n + 1 \in T
    <2>1. PICK g \in [SUBSET D -> V] : Up(n, g)
      OBVIOUS
    <2> DEFINE h == [s \in SUBSET D |-> IF Cardinality(s) =< n THEN g[s]
                                        ELSE IF s = {} THEN base ELSE H[<<s, g[s \ {c[s]}]>>]]
    <2>2. h \in [SUBSET D -> V]
      <3> SUFFICES ASSUME NEW s \in SUBSET D PROVE h[s] \in V
        OBVIOUS
      <3>1. s # {} => s \ {c[s]} \in SUBSET D
        OBVIOUS
      <3> QED
        BY <3>1
    <2>3. Up(n + 1, h)
      <3> SUFFICES ASSUME NEW s \in SUBSET D, Cardinality(s) =< n + 1
                   PROVE  h[s] = IF s = {} THEN base ELSE H[<<s, h[s \ {c[s]}]>>]
        OBVIOUS
      <3>1. CASE s = {}
        BY <2>1, <3>1
      <3>2. CASE s # {}
        <4>1. /\ s \ {c[s]} \in SUBSET D /\ Cardinality(s \ {c[s]}) =< n
          BY <1>0, <3>2, Smaller
        <4>2. h[s \ {c[s]}] = g[s \ {c[s]}]
          BY <4>1
        <4>3. h[s] = H[<<s, g[s \ {c[s]}]>>]
          BY <2>1, <3>2
        <4> QED
          BY <3>2, <4>2, <4>3
      <3> QED
        BY <3>1, <3>2
    <2>4. n + 1 \in Nat
      OBVIOUS
    <2> HIDE DEF h, Up
    <2> QED
      BY <2>2, <2>3, <2>4
  <1>3. T = Nat
    <2>1. T \subseteq Nat
      OBVIOUS
    <2> HIDE DEF T
    <2> QED
      BY <1>1, <1>2, <2>1, AllNat
  <1>4. Cardinality(D) \in T
    BY <1>3, FS_CardinalityType
  <1>5. PICK g \in [SUBSET D -> V] : Up(Cardinality(D), g)
    BY <1>4
  <1>6. \A s \in SUBSET D : Cardinality(s) =< Cardinality(D)
    BY FS_Subset
  <1> QED
    BY <1>5, <1>6 DEF Recursion

-----------------------------------------------------------------------------
(* Sums over a finite set: MapThenSumSet of FiniteSetsExt, of a function.   *)

SumOf(f, D) == MapThenSumSet(LAMBDA d : f[d], D)

\* What is summed stays in any set of numbers that contains 0 and is closed under +.
LEMMA SumIn ==
  ASSUME NEW D, IsFiniteSet(D), NEW f, NEW V, 0 \in V, \A d \in D : f[d] \in V,
         \A v, w \in V : v + w \in V
  PROVE  SumOf(f, D) \in V
  <1> DEFINE Rec(g) == g = [s \in SUBSET D |->
                              IF s = {} THEN 0
                              ELSE f[CHOOSE x \in s : TRUE] + g[s \ {CHOOSE x \in s : TRUE}]]
             c == [s \in SUBSET D |-> CHOOSE x \in s : TRUE]
             H == [p \in (SUBSET D) \X V |-> f[c[p[1]]] + p[2]]
  <1>1. \A s \in SUBSET D : s # {} => c[s] \in s
    OBVIOUS
  <1>2. \A s \in SUBSET D : \A v \in V : s # {} => H[<<s, v>>] = f[c[s]] + v /\ H[<<s, v>>] \in V
    OBVIOUS
  <1>3. PICK g \in [SUBSET D -> V] : Recursion(D, 0, c, H, g)
    <2> HIDE DEF c, H
    <2> QED
      BY <1>1, <1>2, RecursionExists
  <1>4. Rec(g)
    <2>1. ASSUME NEW s \in SUBSET D
          PROVE  g[s] = IF s = {} THEN 0
                        ELSE f[CHOOSE x \in s : TRUE] + g[s \ {CHOOSE x \in s : TRUE}]
      <3>1. CASE s = {}
        BY <1>3, <3>1 DEF Recursion
      <3>2. CASE s # {}
        <4>1. s \ {c[s]} \in SUBSET D /\ g[s \ {c[s]}] \in V
          OBVIOUS
        <4>2. g[s] = H[<<s, g[s \ {c[s]}]>>]
          BY <1>3, <3>2 DEF Recursion
        <4>3. g[s] = f[c[s]] + g[s \ {c[s]}]
          BY <1>2, <3>2, <4>1, <4>2
        <4>4. c[s] = CHOOSE x \in s : TRUE
          OBVIOUS
        <4> HIDE DEF c
        <4> QED
          BY <3>2, <4>3, <4>4
      <3> QED
        BY <3>1, <3>2
    <2>2. g = [s \in SUBSET D |-> g[s]]
      OBVIOUS
    <2> QED
      BY <2>1, <2>2
  <1> DEFINE iter == CHOOSE h : Rec(h)
  <1>5. SumOf(f, D) = iter[D]
    BY DEF SumOf, MapThenSumSet, MapThenFoldSet
  <1>6. Rec(iter)
    BY <1>4
  <1>7. iter[D] \in V
    <2> HIDE DEF iter
    <2>1. iter[{}] \in V
      BY <1>6
    <2>2. \A s \in SUBSET D : s # {} => \E x \in s : iter[s \ {x}] \in V => iter[s] \in V
      <3> SUFFICES ASSUME NEW s \in SUBSET D, s # {}
                   PROVE  \E x \in s : iter[s \ {x}] \in V => iter[s] \in V
        OBVIOUS
      <3> DEFINE x == CHOOSE y \in s : TRUE
      <3>1. x \in s /\ f[x] \in V
        OBVIOUS
      <3>2. iter[s] = f[x] + iter[s \ {x}]
        BY <1>6
      <3> HIDE DEF x
      <3> QED
        BY <3>1, <3>2
    <2> QED
      BY <2>1, <2>2, StaysIn
  <1> QED
    BY <1>5, <1>7
=============================================================================
