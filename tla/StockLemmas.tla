------------------------------ MODULE StockLemmas -----
(***************************************************************************)
(* Lemmas about the operators the document modules are built from.         *)
(*                                                                         *)
(* SumFunctionOnSet, the community modules' sum of a function over a       *)
(* finite set: the units on the shelves, on the road, on the items of a    *)
(* request.  Applied, the fold of a transaction's stock changes, and what  *)
(* they add up to.  The items and the lines of an order.                   *)
(*                                                                         *)
(* The library's induction theorems speak of an operator that is a         *)
(* parameter; the two inductions here speak of a set instead, which every  *)
(* prover can instantiate.                                                 *)
(***************************************************************************)
EXTENDS OrderLines, FiniteSetTheorems, SequenceTheorems, WellFoundedInduction, TLAPS

(* A relation that is well founded on a set of numbers has a least element  *)
(* in every part of it.                                                     *)
LEMMA LeastInPart ==
    ASSUME NEW R, NEW T, T \subseteq Nat, T # {}, IsWellFoundedOn(R, Nat)
    PROVE  \E n \in T : \A m \in T : ~(<<m, n>> \in R)
  BY WFMin, Zenon

(* Induction over the naturals, the property being membership in a set. *)
LEMMA NatSetInduction ==
    ASSUME NEW S, 0 \in S, \A n \in Nat : n \in S => n + 1 \in S
    PROVE  \A n \in Nat : n \in S
  <1> DEFINE T == Nat \ S
  <1> SUFFICES ASSUME T # {} PROVE FALSE
    OBVIOUS
  <1>1. \E R : /\ IsWellFoundedOn(R, Nat)
               /\ \A m, n \in Nat : m < n => <<m, n>> \in R
    <2> DEFINE R == {ss \in Nat \X Nat : ss[1] < ss[2]}
    <2>1. IsWellFoundedOn(R, Nat)
      BY NatLessThanWellFounded, Zenon DEF OpToRel
    <2>2. \A m, n \in Nat : m < n => <<m, n>> \in R
      OBVIOUS
    <2> HIDE DEF R
    <2> QED
      BY <2>1, <2>2
  <1>2. PICK R : /\ IsWellFoundedOn(R, Nat)
                 /\ \A m, n \in Nat : m < n => <<m, n>> \in R
    BY <1>1
  <1>3. T \subseteq Nat
    OBVIOUS
  <1>4. \E n \in T : \A m \in T : ~(<<m, n>> \in R)
    <2> HIDE DEF T
    <2> QED
      BY <1>2, <1>3, LeastInPart
  <1>5. PICK n \in T : \A m \in T : ~(<<m, n>> \in R)
    BY <1>4
  <1>6. n \in Nat /\ n # 0 /\ n - 1 \in Nat /\ n - 1 < n
    OBVIOUS
  <1>7. n - 1 \notin T
    BY <1>2, <1>5, <1>6
  <1>8. n - 1 \in S /\ (n - 1) + 1 = n
    BY <1>6, <1>7
  <1> QED
    BY <1>6, <1>8

(* Induction over the subsets of a finite set: a property that a subset has *)
(* whenever all of its proper subsets have it.                              *)
LEMMA SubsetInduction ==
    ASSUME NEW S, IsFiniteSet(S), NEW P,
           \A T \in SUBSET S : (\A U \in SUBSET T : U # T => U \in P) => T \in P
    PROVE  S \in P
  <1> DEFINE Sizes == {n \in Nat : \A T \in SUBSET S : Cardinality(T) <= n => T \in P}
  <1>1. \A T \in SUBSET S : IsFiniteSet(T) /\ Cardinality(T) \in Nat
    BY FS_Subset, FS_CardinalityType
  <1>2. \A T \in SUBSET S : \A U \in SUBSET T : U # T => Cardinality(U) < Cardinality(T)
    <2> SUFFICES ASSUME NEW T \in SUBSET S, NEW U \in SUBSET T, U # T
                 PROVE  Cardinality(U) < Cardinality(T)
      OBVIOUS
    <2>1. IsFiniteSet(T) /\ Cardinality(T) \in Nat /\ Cardinality(U) \in Nat
      BY <1>1
    <2>2. Cardinality(U) <= Cardinality(T) /\ Cardinality(U) # Cardinality(T)
      BY <2>1, FS_Subset
    <2> QED
      BY <2>1, <2>2
  <1>3. 0 \in Sizes
    BY <1>1, <1>2
  <1>4. ASSUME NEW n \in Nat, n \in Sizes
        PROVE  n + 1 \in Sizes
    <2> SUFFICES ASSUME NEW T \in SUBSET S, Cardinality(T) <= n + 1
                 PROVE  T \in P
      OBVIOUS
    <2>1. \A U \in SUBSET T : U # T => U \in P
      BY <1>1, <1>2, <1>4
    <2> QED
      BY <2>1
  <1>5. \A n \in Nat : n \in Sizes
    <2> HIDE DEF Sizes
    <2> QED
      BY <1>3, <1>4, NatSetInduction
  <1> QED
    BY <1>1, <1>5

-----------------------------------------------------------------------------
(* The recursion behind the sum. *)

Pick(s) == CHOOSE x \in s : TRUE

UnfoldsAt(g, f, s) == g[s] = IF s = {} THEN 0 ELSE f[Pick(s)] + g[s \ {Pick(s)}]

Unfolds(g, f, S) ==
    g = [s \in SUBSET S |-> IF s = {} THEN 0 ELSE f[Pick(s)] + g[s \ {Pick(s)}]]

(* Recursion over the subsets of a finite set defines a function. *)
LEMMA UnfoldingExists ==
    ASSUME NEW f, NEW S, IsFiniteSet(S)
    PROVE  \E g : Unfolds(g, f, S)
  <1> DEFINE Up(n) == \E g : \A s \in SUBSET S : Cardinality(s) <= n => UnfoldsAt(g, f, s)
             Sizes == {n \in Nat : Up(n)}
  <1>0. \A s \in SUBSET S : IsFiniteSet(s) /\ Cardinality(s) \in Nat
    BY FS_Subset, FS_CardinalityType
  <1>1. 0 \in Sizes
    <2> DEFINE g == [s \in SUBSET S |-> 0]
    <2>1. \A s \in SUBSET S : Cardinality(s) <= 0 => s = {}
      BY <1>0, FS_EmptySet
    <2>2. \A s \in SUBSET S : Cardinality(s) <= 0 => UnfoldsAt(g, f, s)
      BY <2>1 DEF UnfoldsAt
    <2> QED
      BY <2>2
  <1>2. ASSUME NEW n \in Nat, n \in Sizes
        PROVE  n + 1 \in Sizes
    <2>1. PICK g : \A s \in SUBSET S : Cardinality(s) <= n => UnfoldsAt(g, f, s)
      BY <1>2
    <2> DEFINE h == [s \in SUBSET S |-> IF s = {} THEN 0 ELSE f[Pick(s)] + g[s \ {Pick(s)}]]
    <2>2. ASSUME NEW s \in SUBSET S, Cardinality(s) <= n + 1
          PROVE  UnfoldsAt(h, f, s)
      <3>1. CASE s = {}
        BY <3>1 DEF UnfoldsAt
      <3>2. CASE s # {}
        <4> DEFINE u == s \ {Pick(s)}
        <4>1. Pick(s) \in s
          BY <3>2 DEF Pick
        <4>2. u \in SUBSET S /\ Cardinality(u) <= n
          BY <1>0, <2>2, <4>1, FS_RemoveElement
        <4>3. h[u] = g[u]
          BY <2>1, <4>2 DEF UnfoldsAt
        <4> QED
          BY <3>2, <4>3 DEF UnfoldsAt
      <3> QED
        BY <3>1, <3>2
    <2> HIDE DEF h
    <2>3. Up(n + 1)
      BY <2>2
    <2> QED
      BY <2>3
  <1>3. \A n \in Nat : n \in Sizes
    <2> HIDE DEF Sizes
    <2> QED
      BY <1>1, <1>2, NatSetInduction
  <1>4. PICK g : \A s \in SUBSET S : Cardinality(s) <= Cardinality(S) => UnfoldsAt(g, f, s)
    BY <1>0, <1>3
  <1>5. \A s \in SUBSET S : UnfoldsAt(g, f, s)
    BY <1>4, FS_Subset
  <1> DEFINE h == [s \in SUBSET S |-> g[s]]
  <1>6. \A s \in SUBSET S : s \ {Pick(s)} \in SUBSET S
    OBVIOUS
  <1>7. \A s \in SUBSET S : h[s] = IF s = {} THEN 0 ELSE f[Pick(s)] + h[s \ {Pick(s)}]
    BY <1>5, <1>6 DEF UnfoldsAt
  <1>8. h = [s \in SUBSET S |-> IF s = {} THEN 0 ELSE f[Pick(s)] + h[s \ {Pick(s)}]]
    BY <1>7
  <1> QED
    BY <1>8 DEF Unfolds

AgreeOn(f, e, S) == \A x \in S : f[x] = e[x]

(* The unfoldings of two functions that agree on a set agree on its subsets, *)
(* whatever larger sets they were taken over.                                *)
LEMMA UnfoldingUnique ==
    ASSUME NEW f, NEW e, NEW S, NEW T, NEW U, IsFiniteSet(U), U \subseteq S, U \subseteq T,
           NEW g, Unfolds(g, f, S), NEW h, Unfolds(h, e, T), AgreeOn(f, e, U)
    PROVE  g[U] = h[U]
  <1>1. \A s \in SUBSET U : UnfoldsAt(g, f, s) /\ UnfoldsAt(h, e, s)
    BY DEF Unfolds, UnfoldsAt
  <1> DEFINE Sizes == {n \in Nat : \A s \in SUBSET U : Cardinality(s) = n => g[s] = h[s]}
  <1>0. \A s \in SUBSET U : IsFiniteSet(s) /\ Cardinality(s) \in Nat
    BY FS_Subset, FS_CardinalityType
  <1>2. 0 \in Sizes
    BY <1>0, <1>1, FS_EmptySet DEF UnfoldsAt
  <1>3. ASSUME NEW n \in Nat, n \in Sizes
        PROVE  n + 1 \in Sizes
    <2> SUFFICES ASSUME NEW s \in SUBSET U, Cardinality(s) = n + 1
                 PROVE  g[s] = h[s]
      OBVIOUS
    <2>1. s # {}
      BY FS_EmptySet
    <2>2. Pick(s) \in s
      BY <2>1 DEF Pick
    <2>3. s \ {Pick(s)} \in SUBSET U /\ Cardinality(s \ {Pick(s)}) = n
      <3>1. IsFiniteSet(s)
        BY <1>0
      <3>2. Cardinality(s \ {Pick(s)}) = Cardinality(s) - 1
        BY <2>2, <3>1, FS_RemoveElement
      <3> QED
        BY <3>2
    <2>4. g[s \ {Pick(s)}] = h[s \ {Pick(s)}]
      BY <1>3, <2>3
    <2> QED
      BY <1>1, <2>1, <2>2, <2>4 DEF UnfoldsAt, AgreeOn
  <1>4. \A n \in Nat : n \in Sizes
    <2> HIDE DEF Sizes
    <2> QED
      BY <1>2, <1>3, NatSetInduction
  <1> QED
    BY <1>0, <1>4

(* The sum is the value of an unfolding. *)
LEMMA SumIsUnfolding ==
    ASSUME NEW f, NEW S, IsFiniteSet(S)
    PROVE  \E g : Unfolds(g, f, S) /\ SumFunctionOnSet(f, S) = g[S]
  <1>1. SumFunctionOnSet(f, S) = (CHOOSE g : Unfolds(g, f, S))[S]
    BY DEF SumFunctionOnSet, FoldFunctionOnSet, MapThenFoldSet, Unfolds, Pick
  <1> QED
    BY <1>1, UnfoldingExists

-----------------------------------------------------------------------------
(* What the proofs use of a sum. *)

(* Nothing adds up to zero. *)
LEMMA SumEmpty == \A f : SumFunctionOnSet(f, {}) = 0
  <1> SUFFICES ASSUME NEW f PROVE SumFunctionOnSet(f, {}) = 0
    OBVIOUS
  <1>1. PICK g : Unfolds(g, f, {}) /\ SumFunctionOnSet(f, {}) = g[{}]
    BY SumIsUnfolding, FS_EmptySet
  <1> QED
    BY <1>1 DEF Unfolds

(* Sums of functions that agree on the set are the same. *)
LEMMA SumEqual ==
    ASSUME NEW S, IsFiniteSet(S), NEW f, NEW e, \A x \in S : f[x] = e[x]
    PROVE  SumFunctionOnSet(f, S) = SumFunctionOnSet(e, S)
  <1>1. PICK g : Unfolds(g, f, S) /\ SumFunctionOnSet(f, S) = g[S]
    BY SumIsUnfolding
  <1>2. PICK h : Unfolds(h, e, S) /\ SumFunctionOnSet(e, S) = h[S]
    BY SumIsUnfolding
  <1>3. S \subseteq S /\ AgreeOn(f, e, S)
    BY DEF AgreeOn
  <1>4. g[S] = h[S]
    BY <1>1, <1>2, <1>3, UnfoldingUnique
  <1> QED
    BY <1>1, <1>2, <1>4

(* A sum begins with the element the recursion picks. *)
LEMMA SumPick ==
    ASSUME NEW f, NEW S, IsFiniteSet(S), S # {}
    PROVE  /\ Pick(S) \in S
           /\ SumFunctionOnSet(f, S) = f[Pick(S)] + SumFunctionOnSet(f, S \ {Pick(S)})
  <1> DEFINE T == S \ {Pick(S)}
  <1>1. Pick(S) \in S
    BY DEF Pick
  <1>2. IsFiniteSet(T)
    BY FS_RemoveElement
  <1>3. PICK g : Unfolds(g, f, S) /\ SumFunctionOnSet(f, S) = g[S]
    BY SumIsUnfolding
  <1>4. PICK h : Unfolds(h, f, T) /\ SumFunctionOnSet(f, T) = h[T]
    BY <1>2, SumIsUnfolding
  <1>5. g[T] = h[T]
    BY <1>2, <1>3, <1>4, UnfoldingUnique DEF AgreeOn
  <1>6. g[S] = f[Pick(S)] + g[T]
    BY <1>3 DEF Unfolds
  <1> QED
    BY <1>1, <1>3, <1>4, <1>5, <1>6

(* A sum of integers is one. *)
LEMMA SumInt ==
    ASSUME NEW S, IsFiniteSet(S), NEW f, \A x \in S : f[x] \in Int
    PROVE  SumFunctionOnSet(f, S) \in Int
  <1> DEFINE P == {T \in SUBSET S : SumFunctionOnSet(f, T) \in Int}
  <1>1. ASSUME NEW T \in SUBSET S, \A U \in SUBSET T : U # T => U \in P
        PROVE  T \in P
    <2>1. CASE T = {}
      BY <2>1, SumEmpty
    <2>2. CASE T # {}
      <3>1. IsFiniteSet(T)
        BY FS_Subset
      <3>2. /\ Pick(T) \in T
            /\ SumFunctionOnSet(f, T) = f[Pick(T)] + SumFunctionOnSet(f, T \ {Pick(T)})
        BY <2>2, <3>1, SumPick
      <3>3. T \ {Pick(T)} \in P
        BY <1>1, <3>2
      <3> QED
        BY <3>2, <3>3
    <2> QED
      BY <2>1, <2>2
  <1>2. S \in P
    <2> HIDE DEF P
    <2> QED
      BY <1>1, SubsetInduction
  <1> QED
    BY <1>2

(* Any element may be taken out of a sum first. *)
LEMMA SumTake ==
    ASSUME NEW S, IsFiniteSet(S), NEW f, \A x \in S : f[x] \in Int, NEW y \in S
    PROVE  SumFunctionOnSet(f, S) = f[y] + SumFunctionOnSet(f, S \ {y})
  <1> DEFINE Sum(T) == SumFunctionOnSet(f, T)
             P == {T \in SUBSET S : \A x \in T : Sum(T) = f[x] + Sum(T \ {x})}
  <1>0. \A T \in SUBSET S : IsFiniteSet(T) /\ Sum(T) \in Int
    BY FS_Subset, SumInt
  <1>1. ASSUME NEW T \in SUBSET S, \A U \in SUBSET T : U # T => U \in P
        PROVE  T \in P
    <2> SUFFICES ASSUME NEW x \in T PROVE Sum(T) = f[x] + Sum(T \ {x})
      OBVIOUS
    <2> DEFINE c == Pick(T)
    <2>1. IsFiniteSet(T) /\ T # {}
      BY <1>0
    <2>2. c \in T /\ Sum(T) = f[c] + Sum(T \ {c})
      BY <2>1, SumPick
    <2>3. CASE x = c
      BY <2>2, <2>3
    <2>4. CASE x # c
      <3> DEFINE V == T \ {x, c}
      <3>1. T \ {c} \in P /\ T \ {x} \in P
        BY <1>1, <2>2
      <3>2. (T \ {c}) \ {x} = V /\ (T \ {x}) \ {c} = V
        OBVIOUS
      <3>3. Sum(T \ {c}) = f[x] + Sum(V)
        BY <2>4, <3>1, <3>2
      <3>4. Sum(T \ {x}) = f[c] + Sum(V)
        BY <2>2, <2>4, <3>1, <3>2
      <3>5. f[x] \in Int /\ f[c] \in Int /\ Sum(V) \in Int
        BY <1>0, <2>2
      <3> HIDE DEF Sum, V, c
      <3> QED
        BY <2>2, <3>3, <3>4, <3>5
    <2> QED
      BY <2>3, <2>4
  <1>2. S \in P
    <2> HIDE DEF P
    <2> QED
      BY <1>1, SubsetInduction
  <1> QED
    BY <1>2

(* Changing a function at one place changes the sum by the difference. *)
LEMMA SumUpdate ==
    ASSUME NEW S, IsFiniteSet(S), NEW y \in S,
           NEW f, \A x \in S : f[x] \in Int,
           NEW e, \A x \in S : e[x] \in Int,
           \A x \in S \ {y} : f[x] = e[x]
    PROVE  SumFunctionOnSet(e, S) = SumFunctionOnSet(f, S) - f[y] + e[y]
  <1>1. SumFunctionOnSet(f, S) = f[y] + SumFunctionOnSet(f, S \ {y})
    BY SumTake
  <1>2. SumFunctionOnSet(e, S) = e[y] + SumFunctionOnSet(e, S \ {y})
    BY SumTake
  <1>3. IsFiniteSet(S \ {y})
    BY FS_RemoveElement
  <1>4. SumFunctionOnSet(f, S \ {y}) = SumFunctionOnSet(e, S \ {y})
    BY <1>3, SumEqual
  <1>5. SumFunctionOnSet(f, S \ {y}) \in Int
    BY <1>3, SumInt
  <1> QED
    BY <1>1, <1>2, <1>4, <1>5

(* The sum of the differences is the difference of the sums. *)
LEMMA SumAdds ==
    ASSUME NEW S, IsFiniteSet(S),
           NEW f, \A x \in S : f[x] \in Int,
           NEW e, \A x \in S : e[x] \in Int,
           NEW h, \A x \in S : h[x] = f[x] + e[x]
    PROVE  SumFunctionOnSet(h, S) = SumFunctionOnSet(f, S) + SumFunctionOnSet(e, S)
  <1> DEFINE P == {T \in SUBSET S : SumFunctionOnSet(h, T)
                                      = SumFunctionOnSet(f, T) + SumFunctionOnSet(e, T)}
  <1>1. ASSUME NEW T \in SUBSET S, \A U \in SUBSET T : U # T => U \in P
        PROVE  T \in P
    <2>1. CASE T = {}
      BY <2>1, SumEmpty
    <2>2. CASE T # {}
      <3>1. PICK y \in T : TRUE
        BY <2>2
      <3> DEFINE U == T \ {y}
      <3>2. IsFiniteSet(T) /\ IsFiniteSet(U)
        BY FS_Subset
      <3>3. SumFunctionOnSet(f, T) = f[y] + SumFunctionOnSet(f, U)
        BY <3>2, SumTake
      <3>4. SumFunctionOnSet(e, T) = e[y] + SumFunctionOnSet(e, U)
        BY <3>2, SumTake
      <3>5. \A x \in T : h[x] \in Int
        OBVIOUS
      <3>6. SumFunctionOnSet(h, T) = h[y] + SumFunctionOnSet(h, U)
        BY <3>2, <3>5, SumTake
      <3>7. U \in P
        BY <1>1
      <3>8. SumFunctionOnSet(f, U) \in Int /\ SumFunctionOnSet(e, U) \in Int
        BY <3>2, SumInt
      <3> HIDE DEF U
      <3> QED
        BY <3>3, <3>4, <3>6, <3>7, <3>8
    <2> QED
      BY <2>1, <2>2
  <1>2. S \in P
    <2> HIDE DEF P
    <2> QED
      BY <1>1, SubsetInduction
  <1> QED
    BY <1>2

(* A sum of naturals is a natural, at least each of them, and none of them   *)
(* is positive if it is zero.                                                *)
LEMMA SumNat ==
    ASSUME NEW S, IsFiniteSet(S), NEW f, \A x \in S : f[x] \in Nat
    PROVE  /\ SumFunctionOnSet(f, S) \in Nat
           /\ \A x \in S : f[x] <= SumFunctionOnSet(f, S)
  <1> DEFINE P == {T \in SUBSET S : SumFunctionOnSet(f, T) \in Nat}
  <1>1. ASSUME NEW T \in SUBSET S, \A U \in SUBSET T : U # T => U \in P
        PROVE  T \in P
    <2>1. CASE T = {}
      BY <2>1, SumEmpty
    <2>2. CASE T # {}
      <3>1. IsFiniteSet(T)
        BY FS_Subset
      <3>2. /\ Pick(T) \in T
            /\ SumFunctionOnSet(f, T) = f[Pick(T)] + SumFunctionOnSet(f, T \ {Pick(T)})
        BY <2>2, <3>1, SumPick
      <3>3. T \ {Pick(T)} \in P
        BY <1>1, <3>2
      <3> QED
        BY <3>2, <3>3
    <2> QED
      BY <2>1, <2>2
  <1>2. \A T \in SUBSET S : T \in P
    <2> SUFFICES ASSUME NEW T \in SUBSET S PROVE T \in P
      OBVIOUS
    <2>1. IsFiniteSet(T)
      BY FS_Subset
    <2>2. \A V \in SUBSET T : (\A U \in SUBSET V : U # V => U \in P) => V \in P
      BY <1>1
    <2> HIDE DEF P
    <2> QED
      BY <2>1, <2>2, SubsetInduction
  <1>3. ASSUME NEW x \in S
        PROVE  f[x] <= SumFunctionOnSet(f, S)
    <2>1. SumFunctionOnSet(f, S) = f[x] + SumFunctionOnSet(f, S \ {x})
      BY SumTake
    <2>2. SumFunctionOnSet(f, S \ {x}) \in Nat
      BY <1>2
    <2> QED
      BY <2>1, <2>2
  <1> QED
    BY <1>2, <1>3

(* Nothing adds up to nothing. *)
LEMMA SumZero ==
    ASSUME NEW S, IsFiniteSet(S), NEW f, \A x \in S : f[x] = 0
    PROVE  SumFunctionOnSet(f, S) = 0
  <1> DEFINE h == [x \in S |-> 0]
  <1>1. SumFunctionOnSet(h, S) = SumFunctionOnSet(h, S) + SumFunctionOnSet(h, S)
    BY SumAdds
  <1>2. SumFunctionOnSet(h, S) \in Int
    BY SumInt
  <1>3. SumFunctionOnSet(f, S) = SumFunctionOnSet(h, S)
    BY SumEqual
  <1> QED
    BY <1>1, <1>2, <1>3

-----------------------------------------------------------------------------
(* The fold that applies the stock changes of a transaction one by one. *)

(* The largest of some numbers is one of them. *)
LEMMA MaxIsMember ==
    ASSUME NEW n \in Nat, NEW s \in SUBSET (1..n), s # {}
    PROVE  Max(s) \in s
  <1> DEFINE Sizes == {m \in Nat : \A t \in SUBSET (1..m) :
                                      t # {} => \E x \in t : \A y \in t : x >= y}
  <1>1. 0 \in Sizes
    <2>1. \A x : x \notin 1..0
      OBVIOUS
    <2> QED
      BY <2>1
  <1>2. ASSUME NEW m \in Nat, m \in Sizes
        PROVE  m + 1 \in Sizes
    <2> SUFFICES ASSUME NEW t \in SUBSET (1..(m + 1)), t # {}
                 PROVE  \E x \in t : \A y \in t : x >= y
      OBVIOUS
    <2>1. CASE m + 1 \in t
      BY <2>1
    <2>2. CASE m + 1 \notin t
      <3>1. t \in SUBSET (1..m)
        BY <2>2
      <3> QED
        BY <1>2, <3>1
    <2> QED
      BY <2>1, <2>2
  <1>3. \A m \in Nat : m \in Sizes
    <2> HIDE DEF Sizes
    <2> QED
      BY <1>1, <1>2, NatSetInduction
  <1>4. \E x \in s : \A y \in s : x >= y
    BY <1>3
  <1> QED
    BY <1>4 DEF Max

(* The last number of 1..n is n. *)
LEMMA MaxOfInterval == \A n \in Nat \ {0} : Max(1..n) = n
  <1> SUFFICES ASSUME NEW n \in Nat \ {0} PROVE Max(1..n) = n
    OBVIOUS
  <1>1. n \in 1..n /\ \A y \in 1..n : n >= y
    OBVIOUS
  <1>2. \A x \in 1..n : (\A y \in 1..n : x >= y) => x = n
    OBVIOUS
  <1> QED
    BY <1>1, <1>2 DEF Max

(* One stock change after those before it. *)
AfterOne(so_far, c) ==
    LET level == so_far.rows[c.pair] IN
    [rows |-> [so_far.rows EXCEPT ![c.pair] = RowAfter(c, level, level)],
     accepted |-> so_far.accepted /\ ~RefusedOn(c, level) /\ ~OutOfRange(c, level)]

FoldsAt(g, rows, changes, s) ==
    g[s] = IF s = {} THEN [rows |-> rows, accepted |-> TRUE]
           ELSE AfterOne(g[s \ {Max(s)}], changes[Max(s)])

Folds(g, rows, changes) ==
    g = [s \in SUBSET DOMAIN changes |->
           IF s = {} THEN [rows |-> rows, accepted |-> TRUE]
           ELSE AfterOne(g[s \ {Max(s)}], changes[Max(s)])]

(* A fold over the changes of a transaction exists: the recursion of Applied *)
(* is well defined for every number of changes. *)
LEMMA FoldExists ==
    ASSUME NEW rows, NEW changes, NEW n \in Nat, DOMAIN changes = 1..n
    PROVE  \E g : Folds(g, rows, changes)
  <1> DEFINE S == 1..n
             Up(m) == \E g : \A s \in SUBSET S :
                         Cardinality(s) <= m => FoldsAt(g, rows, changes, s)
             Sizes == {m \in Nat : Up(m)}
  <1>0. /\ IsFiniteSet(S)
        /\ \A s \in SUBSET S : IsFiniteSet(s) /\ Cardinality(s) \in Nat
    <2>1. IsFiniteSet(S)
      BY FS_Interval
    <2> HIDE DEF S
    <2> QED
      BY <2>1, FS_Subset, FS_CardinalityType
  <1>1. 0 \in Sizes
    <2> DEFINE g == [s \in SUBSET S |-> [rows |-> rows, accepted |-> TRUE]]
    <2>1. \A s \in SUBSET S : Cardinality(s) <= 0 => s = {}
      BY <1>0, FS_EmptySet
    <2>2. \A s \in SUBSET S : Cardinality(s) <= 0 => FoldsAt(g, rows, changes, s)
      BY <2>1 DEF FoldsAt
    <2> HIDE DEF g
    <2> QED
      BY <2>2
  <1>2. ASSUME NEW m \in Nat, m \in Sizes
        PROVE  m + 1 \in Sizes
    <2>1. PICK g : \A s \in SUBSET S : Cardinality(s) <= m => FoldsAt(g, rows, changes, s)
      BY <1>2
    <2> DEFINE h == [s \in SUBSET S |->
                       IF s = {} THEN [rows |-> rows, accepted |-> TRUE]
                       ELSE AfterOne(g[s \ {Max(s)}], changes[Max(s)])]
    <2>2. ASSUME NEW s \in SUBSET S, Cardinality(s) <= m + 1
          PROVE  FoldsAt(h, rows, changes, s)
      <3>1. CASE s = {}
        BY <3>1 DEF FoldsAt
      <3>2. CASE s # {}
        <4> DEFINE u == s \ {Max(s)}
        <4>1. Max(s) \in s
          BY <3>2, MaxIsMember
        <4>2. u \in SUBSET S /\ Cardinality(u) <= m
          <5>1. IsFiniteSet(s) /\ Cardinality(s) \in Nat
            BY <1>0
          <5>2. Cardinality(u) = Cardinality(s) - 1
            BY <4>1, <5>1, FS_RemoveElement
          <5>3. u \in SUBSET S
            OBVIOUS
          <5> HIDE DEF u, S
          <5> QED
            BY <2>2, <5>1, <5>2, <5>3
        <4>3. h[u] = g[u]
          BY <2>1, <4>2 DEF FoldsAt
        <4> QED
          BY <3>2, <4>3 DEF FoldsAt
      <3> QED
        BY <3>1, <3>2
    <2> HIDE DEF h
    <2>3. Up(m + 1)
      BY <2>2
    <2> QED
      BY <2>3
  <1>3. \A m \in Nat : m \in Sizes
    <2> HIDE DEF Sizes
    <2> QED
      BY <1>1, <1>2, NatSetInduction
  <1>4. PICK g : \A s \in SUBSET S : Cardinality(s) <= Cardinality(S) => FoldsAt(g, rows, changes, s)
    BY <1>0, <1>3
  <1>5. \A s \in SUBSET S : FoldsAt(g, rows, changes, s)
    BY <1>0, <1>4, FS_Subset
  <1> DEFINE h == [s \in SUBSET S |-> g[s]]
  <1>6. \A s \in SUBSET S : s \ {Max(s)} \in SUBSET S
    OBVIOUS
  <1>7. \A s \in SUBSET S : h[s] = IF s = {} THEN [rows |-> rows, accepted |-> TRUE]
                                   ELSE AfterOne(h[s \ {Max(s)}], changes[Max(s)])
    BY <1>5, <1>6 DEF FoldsAt
  <1>8. h = [s \in SUBSET S |-> IF s = {} THEN [rows |-> rows, accepted |-> TRUE]
                                ELSE AfterOne(h[s \ {Max(s)}], changes[Max(s)])]
    BY <1>7
  <1> HIDE DEF h
  <1> QED
    BY <1>8 DEF Folds

(* The stock changes of a transaction, one by one. *)
LEMMA AppliedUnfolds ==
    ASSUME NEW rows, NEW changes, NEW n \in Nat, DOMAIN changes = 1..n
    PROVE  \E run : /\ run[0] = [rows |-> rows, accepted |-> TRUE]
                    /\ \A i \in 1..n : run[i] = AfterOne(run[i - 1], changes[i])
                    /\ Applied(rows, changes) = run[n]
  <1>1. Applied(rows, changes) = (CHOOSE g : Folds(g, rows, changes))[DOMAIN changes]
    BY DEF Applied, FoldLeft, MapThenFoldSet, Folds, AfterOne
  <1>2. PICK g : Folds(g, rows, changes) /\ Applied(rows, changes) = g[1..n]
    BY <1>1, FoldExists
  <1> DEFINE run == [i \in 0..n |-> g[1..i]]
  <1>3. \A s \in SUBSET (1..n) : FoldsAt(g, rows, changes, s)
    BY <1>2 DEF Folds, FoldsAt
  <1>4. run[0] = [rows |-> rows, accepted |-> TRUE]
    <2>1. 1..0 = {}
      OBVIOUS
    <2>2. {} \in SUBSET (1..n)
      OBVIOUS
    <2>3. g[1..0] = [rows |-> rows, accepted |-> TRUE]
      BY <1>3, <2>1, <2>2, Zenon DEF FoldsAt
    <2> QED
      BY <2>3
  <1>5. ASSUME NEW i \in 1..n
        PROVE  run[i] = AfterOne(run[i - 1], changes[i])
    <2>1. 1..i \in SUBSET (1..n) /\ 1..i # {} /\ (1..i) \ {i} = 1..(i - 1)
      <3>1. \A x : x \in 1..i => x \in 1..n
        OBVIOUS
      <3>2. \A x : x \in (1..i) \ {i} <=> x \in 1..(i - 1)
        OBVIOUS
      <3>3. i \in 1..i
        OBVIOUS
      <3> QED
        BY <3>1, <3>2, <3>3
    <2>2. Max(1..i) = i
      BY MaxOfInterval
    <2>3. g[1..i] = AfterOne(g[1..(i - 1)], changes[i])
      BY <1>3, <2>1, <2>2 DEF FoldsAt
    <2> QED
      BY <2>3
  <1>6. run[n] = Applied(rows, changes)
    BY <1>2
  <1> HIDE DEF run
  <1> QED
    BY <1>4, <1>5, <1>6

-----------------------------------------------------------------------------
(* What a transaction's changes add up to. *)

(* The units that changes bring to a pair, and those they promise. *)
DeltasOf(changes, p) ==
    [j \in DOMAIN changes |-> IF changes[j].pair = p THEN changes[j].delta ELSE 0]
PromisesOf(changes, p) ==
    [j \in DOMAIN changes |-> IF changes[j].pair = p THEN changes[j].reservedDelta ELSE 0]

(* A change that moves no goods when it is a reservation. *)
SoundChange(c) == c \in Change /\ (c.kind = "reservation" => c.delta = 0)

(* One accepted change, on a table of rows. *)
LEMMA AfterOneFacts ==
    ASSUME NEW a, a.rows \in [Pairs -> Level], a.accepted \in BOOLEAN,
           NEW c, SoundChange(c)
    PROVE  LET b == AfterOne(a, c) IN
           /\ b.rows \in [Pairs -> Level] /\ b.accepted \in BOOLEAN
           /\ \A p \in Pairs :
                /\ b.rows[p].quantity = a.rows[p].quantity
                                          + (IF c.pair = p THEN c.delta ELSE 0)
                /\ b.rows[p].reserved = a.rows[p].reserved
                                          + (IF c.pair = p THEN c.reservedDelta ELSE 0)
           /\ b.accepted => /\ a.accepted
                            /\ ~RefusedOn(c, a.rows[c.pair])
                            /\ ~OutOfRange(c, a.rows[c.pair])
  <1> DEFINE level == a.rows[c.pair]
             after == RowAfter(c, level, level)
             b == AfterOne(a, c)
  <1>1. c.pair \in Pairs /\ c.delta \in Int /\ c.reservedDelta \in Int
    BY DEF SoundChange, Change
  <1>2. level \in Level /\ level.quantity \in Int /\ level.reserved \in Int
    BY <1>1 DEF Level
  <1>3. /\ after \in Level
        /\ after.quantity = level.quantity + c.delta
        /\ after.reserved = level.reserved + c.reservedDelta
    <2>1. CASE c.kind = "movement"
      BY <1>1, <1>2, <2>1 DEF RowAfter, NextQuantity, NextReserved, Level
    <2>2. CASE c.kind = "reservation"
      BY <1>1, <1>2, <2>2 DEF RowAfter, NextReserved, Level, SoundChange
    <2> QED
      BY <2>1, <2>2 DEF SoundChange, Change
  <1>4. /\ b.rows = [a.rows EXCEPT ![c.pair] = after]
        /\ b.accepted = (a.accepted /\ ~RefusedOn(c, level) /\ ~OutOfRange(c, level))
    BY DEF AfterOne
  <1>5. b.rows \in [Pairs -> Level] /\ b.accepted \in BOOLEAN
    <2> HIDE DEF after, level, b
    <2> QED
      BY <1>3, <1>4
  <1>6. ASSUME NEW p \in Pairs
        PROVE  /\ b.rows[p].quantity = a.rows[p].quantity
                                          + (IF c.pair = p THEN c.delta ELSE 0)
               /\ b.rows[p].reserved = a.rows[p].reserved
                                          + (IF c.pair = p THEN c.reservedDelta ELSE 0)
    <2>0. a.rows[p] \in Level /\ a.rows[p].quantity \in Int /\ a.rows[p].reserved \in Int
      BY DEF Level
    <2>1. CASE c.pair = p
      <3>1. b.rows[p] = after
        <4> HIDE DEF after, b
        <4> QED
          BY <1>1, <1>4, <2>1
      <3> HIDE DEF after, b
      <3> QED
        BY <1>3, <2>1, <3>1
    <2>2. CASE c.pair # p
      <3>1. b.rows[p] = a.rows[p]
        <4> HIDE DEF after, b
        <4> QED
          BY <1>1, <1>4, <2>2
      <3> HIDE DEF after, b
      <3> QED
        BY <2>0, <2>2, <3>1
    <2> QED
      BY <2>1, <2>2
  <1> HIDE DEF after, b
  <1>7. b.accepted => a.accepted /\ ~RefusedOn(c, level) /\ ~OutOfRange(c, level)
    BY <1>4
  <1> QED
    BY <1>5, <1>6, <1>7 DEF b

(* A sum over a longer initial segment has one more term. *)
LEMMA SumSegment ==
    ASSUME NEW f, NEW n \in Nat, \A j \in 1..(n + 1) : f[j] \in Int
    PROVE  SumFunctionOnSet(f, 1..(n + 1)) = SumFunctionOnSet(f, 1..n) + f[n + 1]
  <1>1. IsFiniteSet(1..(n + 1)) /\ IsFiniteSet(1..n)
    BY FS_Interval
  <1>2. n + 1 \in 1..(n + 1) /\ (1..(n + 1)) \ {n + 1} = 1..n
    <2>1. \A x : x \in (1..(n + 1)) \ {n + 1} <=> x \in 1..n
      OBVIOUS
    <2> QED
      BY <2>1
  <1>3. SumFunctionOnSet(f, 1..(n + 1)) = f[n + 1] + SumFunctionOnSet(f, 1..n)
    BY <1>1, <1>2, SumTake
  <1>4. SumFunctionOnSet(f, 1..n) \in Int /\ f[n + 1] \in Int
    BY <1>1, SumInt
  <1> QED
    BY <1>3, <1>4

(* The rows a transaction leaves: each has what it had and the sum of the   *)
(* changes to it.                                                           *)
LEMMA AppliedSums ==
    ASSUME NEW rows \in [Pairs -> Level], NEW changes, NEW n \in Nat,
           DOMAIN changes = 1..n, \A i \in 1..n : SoundChange(changes[i])
    PROVE  /\ Applied(rows, changes).rows \in [Pairs -> Level]
           /\ \A p \in Pairs :
                /\ Applied(rows, changes).rows[p].quantity
                      = rows[p].quantity + SumFunctionOnSet(DeltasOf(changes, p), 1..n)
                /\ Applied(rows, changes).rows[p].reserved
                      = rows[p].reserved + SumFunctionOnSet(PromisesOf(changes, p), 1..n)
  <1>1. PICK run : /\ run[0] = [rows |-> rows, accepted |-> TRUE]
                   /\ \A i \in 1..n : run[i] = AfterOne(run[i - 1], changes[i])
                   /\ Applied(rows, changes) = run[n]
    BY AppliedUnfolds
  <1> DEFINE Good(i) ==
               /\ run[i].rows \in [Pairs -> Level] /\ run[i].accepted \in BOOLEAN
               /\ \A p \in Pairs :
                    /\ run[i].rows[p].quantity
                          = rows[p].quantity + SumFunctionOnSet(DeltasOf(changes, p), 1..i)
                    /\ run[i].rows[p].reserved
                          = rows[p].reserved + SumFunctionOnSet(PromisesOf(changes, p), 1..i)
             Steps == {i \in Nat : i <= n => Good(i)}
  <1>2. 0 \in Steps
    <2>1. 1..0 = {}
      OBVIOUS
    <2>2. \A p \in Pairs : rows[p].quantity \in Int /\ rows[p].reserved \in Int
      BY DEF Level
    <2>3. run[0].rows = rows /\ run[0].accepted = TRUE
      BY <1>1
    <2>4. \A p \in Pairs : /\ SumFunctionOnSet(DeltasOf(changes, p), 1..0) = 0
                           /\ SumFunctionOnSet(PromisesOf(changes, p), 1..0) = 0
      BY <2>1, SumEmpty
    <2>5. ASSUME NEW p \in Pairs
          PROVE  /\ run[0].rows[p].quantity
                       = rows[p].quantity + SumFunctionOnSet(DeltasOf(changes, p), 1..0)
                 /\ run[0].rows[p].reserved
                       = rows[p].reserved + SumFunctionOnSet(PromisesOf(changes, p), 1..0)
      BY <2>2, <2>3, <2>4
    <2>6. Good(0)
      BY <2>3, <2>5
    <2> QED
      BY <2>6
  <1>3. ASSUME NEW i \in Nat, i \in Steps
        PROVE  i + 1 \in Steps
    <2> SUFFICES ASSUME i + 1 <= n PROVE Good(i + 1)
      OBVIOUS
    <2>1. Good(i)
      BY <1>3
    <2>2. i + 1 \in 1..n /\ (i + 1) - 1 = i
      OBVIOUS
    <2>3. run[i + 1] = AfterOne(run[i], changes[i + 1])
      BY <1>1, <2>2
    <2>4. SoundChange(changes[i + 1])
      BY <2>2
    <2> DEFINE c == changes[i + 1]
    <2>5. /\ run[i + 1].rows \in [Pairs -> Level] /\ run[i + 1].accepted \in BOOLEAN
          /\ \A p \in Pairs :
                /\ run[i + 1].rows[p].quantity = run[i].rows[p].quantity
                                          + (IF c.pair = p THEN c.delta ELSE 0)
                /\ run[i + 1].rows[p].reserved = run[i].rows[p].reserved
                                          + (IF c.pair = p THEN c.reservedDelta ELSE 0)
      BY <2>1, <2>3, <2>4, AfterOneFacts
    <2>6. ASSUME NEW p \in Pairs
          PROVE  /\ SumFunctionOnSet(DeltasOf(changes, p), 1..(i + 1))
                       = SumFunctionOnSet(DeltasOf(changes, p), 1..i)
                          + (IF c.pair = p THEN c.delta ELSE 0)
                 /\ SumFunctionOnSet(PromisesOf(changes, p), 1..(i + 1))
                       = SumFunctionOnSet(PromisesOf(changes, p), 1..i)
                          + (IF c.pair = p THEN c.reservedDelta ELSE 0)
                 /\ SumFunctionOnSet(DeltasOf(changes, p), 1..i) \in Int
                 /\ SumFunctionOnSet(PromisesOf(changes, p), 1..i) \in Int
      <3>1. \A j \in 1..(i + 1) : /\ DeltasOf(changes, p)[j] \in Int
                                  /\ PromisesOf(changes, p)[j] \in Int
        BY DEF DeltasOf, PromisesOf, SoundChange, Change
      <3>2. /\ DeltasOf(changes, p)[i + 1] = (IF c.pair = p THEN c.delta ELSE 0)
            /\ PromisesOf(changes, p)[i + 1] = (IF c.pair = p THEN c.reservedDelta ELSE 0)
        BY <2>2 DEF DeltasOf, PromisesOf
      <3>3. IsFiniteSet(1..i) /\ \A j \in 1..i : j \in 1..(i + 1)
        BY FS_Interval
      <3>4. /\ SumFunctionOnSet(DeltasOf(changes, p), 1..i) \in Int
            /\ SumFunctionOnSet(PromisesOf(changes, p), 1..i) \in Int
        BY <3>1, <3>3, SumInt
      <3> QED
        BY <3>1, <3>2, <3>4, SumSegment
    <2>7. \A p \in Pairs : rows[p].quantity \in Int /\ rows[p].reserved \in Int
      BY DEF Level
    <2>8. c.delta \in Int /\ c.reservedDelta \in Int
      BY <2>4 DEF SoundChange, Change
    <2>9. ASSUME NEW p \in Pairs
          PROVE  /\ run[i + 1].rows[p].quantity
                      = rows[p].quantity + SumFunctionOnSet(DeltasOf(changes, p), 1..(i + 1))
                 /\ run[i + 1].rows[p].reserved
                      = rows[p].reserved + SumFunctionOnSet(PromisesOf(changes, p), 1..(i + 1))
      <3> HIDE DEF c
      <3> DEFINE d == IF c.pair = p THEN c.delta ELSE 0
                 e == IF c.pair = p THEN c.reservedDelta ELSE 0
      <3>1. d \in Int /\ e \in Int
        BY <2>8
      <3>2. /\ run[i + 1].rows[p].quantity = run[i].rows[p].quantity + d
            /\ run[i + 1].rows[p].reserved = run[i].rows[p].reserved + e
        BY <2>5
      <3>3. /\ SumFunctionOnSet(DeltasOf(changes, p), 1..(i + 1))
                       = SumFunctionOnSet(DeltasOf(changes, p), 1..i) + d
            /\ SumFunctionOnSet(PromisesOf(changes, p), 1..(i + 1))
                       = SumFunctionOnSet(PromisesOf(changes, p), 1..i) + e
        BY <2>6
      <3>4. /\ run[i].rows[p].quantity
                 = rows[p].quantity + SumFunctionOnSet(DeltasOf(changes, p), 1..i)
            /\ run[i].rows[p].reserved
                 = rows[p].reserved + SumFunctionOnSet(PromisesOf(changes, p), 1..i)
        BY <2>1
      <3> HIDE DEF d, e
      <3> QED
        BY <2>6, <2>7, <3>1, <3>2, <3>3, <3>4
    <2> QED
      BY <2>5, <2>9
  <1>4. \A i \in Nat : i \in Steps
    <2> HIDE DEF Steps
    <2> QED
      BY <1>2, <1>3, NatSetInduction
  <1>5. Good(n)
    BY <1>4
  <1> QED
    BY <1>1, <1>5

(* A change that leaves a promise covered if it is accepted, or anyhow. *)
CoverChange(c, accepted) ==
    c.delta >= c.reservedDelta \/ (accepted /\ (c.respects \/ c.kind = "reservation"))

(* A transaction of such changes leaves every row covered. *)
LEMMA AppliedCovers ==
    ASSUME NEW rows \in [Pairs -> Level], \A p \in Pairs : Covered(rows[p]),
           NEW changes, NEW n \in Nat,
           DOMAIN changes = 1..n, \A i \in 1..n : SoundChange(changes[i]),
           \A i \in 1..n : CoverChange(changes[i], Applied(rows, changes).accepted)
    PROVE  \A p \in Pairs : Covered(Applied(rows, changes).rows[p])
  <1>1. PICK run : /\ run[0] = [rows |-> rows, accepted |-> TRUE]
                   /\ \A i \in 1..n : run[i] = AfterOne(run[i - 1], changes[i])
                   /\ Applied(rows, changes) = run[n]
    BY AppliedUnfolds
  <1> DEFINE Typed(i) == run[i].rows \in [Pairs -> Level] /\ run[i].accepted \in BOOLEAN
             Steps == {i \in Nat : i <= n => Typed(i)}
             Accepted == {i \in Nat : i <= n => (run[n].accepted => run[n - i].accepted)}
             Covers == {i \in Nat : i <= n => \A p \in Pairs : Covered(run[i].rows[p])}
  <1>2. \A i \in Nat : i \in Steps
    <2>0. run[0].rows = rows /\ run[0].accepted = TRUE
      BY <1>1
    <2>1. 0 \in Steps
      BY <2>0
    <2>2. ASSUME NEW i \in Nat, i \in Steps
          PROVE  i + 1 \in Steps
      <3> SUFFICES ASSUME i + 1 <= n PROVE Typed(i + 1)
        OBVIOUS
      <3>1. i + 1 \in 1..n /\ (i + 1) - 1 = i
        OBVIOUS
      <3>2. run[i + 1] = AfterOne(run[i], changes[i + 1]) /\ SoundChange(changes[i + 1])
        BY <1>1, <3>1
      <3>3. Typed(i)
        BY <2>2
      <3> QED
        BY <3>2, <3>3, AfterOneFacts
    <2> HIDE DEF Steps
    <2> QED
      BY <2>1, <2>2, NatSetInduction
  <1>3. ASSUME NEW i \in Nat, i + 1 <= n
        PROVE  /\ Typed(i) /\ SoundChange(changes[i + 1])
               /\ run[i + 1] = AfterOne(run[i], changes[i + 1])
               /\ run[i + 1].accepted => /\ run[i].accepted
                                         /\ ~RefusedOn(changes[i + 1],
                                                run[i].rows[changes[i + 1].pair])
    <2>1. i + 1 \in 1..n /\ (i + 1) - 1 = i /\ i <= n
      BY <1>3
    <2>2. run[i + 1] = AfterOne(run[i], changes[i + 1]) /\ SoundChange(changes[i + 1])
      BY <1>1, <2>1
    <2>3. Typed(i)
      BY <1>2, <2>1
    <2> QED
      BY <2>2, <2>3, AfterOneFacts
  <1>4. \A i \in Nat : i \in Accepted
    <2>1. 0 \in Accepted
      OBVIOUS
    <2>2. ASSUME NEW i \in Nat, i \in Accepted
          PROVE  i + 1 \in Accepted
      <3> SUFFICES ASSUME i + 1 <= n, run[n].accepted PROVE run[n - (i + 1)].accepted
        OBVIOUS
      <3>1. n - (i + 1) \in Nat /\ (n - (i + 1)) + 1 = n - i /\ n - i <= n
        OBVIOUS
      <3>2. run[n - i].accepted
        BY <2>2
      <3> QED
        BY <1>3, <3>1, <3>2
    <2> HIDE DEF Accepted
    <2> QED
      BY <2>1, <2>2, NatSetInduction
  <1>5. \A i \in Nat : i <= n => (run[n].accepted => run[i].accepted)
    <2> SUFFICES ASSUME NEW i \in Nat, i <= n, run[n].accepted PROVE run[i].accepted
      OBVIOUS
    <2>1. n - i \in Nat /\ n - i <= n /\ n - (n - i) = i
      OBVIOUS
    <2>2. n - i \in Accepted
      BY <1>4, <2>1
    <2> QED
      BY <2>1, <2>2
  <1>6. \A i \in Nat : i \in Covers
    <2>1. 0 \in Covers
      BY <1>1
    <2>2. ASSUME NEW i \in Nat, i \in Covers
          PROVE  i + 1 \in Covers
      <3> SUFFICES ASSUME i + 1 <= n, NEW p \in Pairs PROVE Covered(run[i + 1].rows[p])
        OBVIOUS
      <3> DEFINE c == changes[i + 1]
                 before == run[i].rows[p]
                 after == run[i + 1].rows[p]
      <3>1. /\ Typed(i) /\ SoundChange(c) /\ run[i + 1] = AfterOne(run[i], c)
            /\ run[i + 1].accepted => ~RefusedOn(c, run[i].rows[c.pair])
        BY <1>3
      <3>2. Covered(before)
        BY <2>2
      <3>3. CoverChange(c, run[n].accepted)
        <4>1. i + 1 \in 1..n
          OBVIOUS
        <4> QED
          BY <1>1, <4>1
      <3>4. /\ after.quantity = before.quantity + (IF c.pair = p THEN c.delta ELSE 0)
            /\ after.reserved = before.reserved + (IF c.pair = p THEN c.reservedDelta ELSE 0)
        BY <3>1, AfterOneFacts
      <3>5. before.quantity \in Int /\ before.reserved \in Int
        BY <3>1 DEF Level
      <3>6. c.delta \in Int /\ c.reservedDelta \in Int /\ c.respects \in BOOLEAN
            /\ c.kind \in {"movement", "reservation"}
        BY <3>1 DEF SoundChange, Change
      <3>7. run[n].accepted => ~RefusedOn(c, run[i].rows[c.pair])
        BY <1>5, <3>1
      <3> SUFFICES Covered(after)
        OBVIOUS
      <3> HIDE DEF c, after
      <3>8. CASE c.pair # p
        BY <3>2, <3>4, <3>5, <3>8 DEF Covered
      <3>9. CASE c.pair = p /\ c.delta >= c.reservedDelta
        BY <3>2, <3>4, <3>5, <3>6, <3>9 DEF Covered
      <3>10. CASE c.pair = p /\ ~(c.delta >= c.reservedDelta)
        <4>1. ~RefusedOn(c, before) /\ (c.respects \/ c.kind = "reservation")
          BY <3>3, <3>7, <3>10 DEF CoverChange
        <4>2. c.kind = "reservation" => c.delta = 0
          BY <3>1 DEF SoundChange
        <4> HIDE DEF before
        <4> QED
          BY <3>4, <3>5, <3>6, <3>10, <4>1, <4>2
             DEF RefusedOn, NextQuantity, NextReserved, Covered
      <3> QED
        BY <3>8, <3>9, <3>10
    <2> HIDE DEF Covers
    <2> QED
      BY <2>1, <2>2, NatSetInduction
  <1>7. \A p \in Pairs : Covered(run[n].rows[p])
    <2>1. n \in Covers /\ n <= n
      BY <1>6
    <2> HIDE DEF Typed, Steps, Accepted
    <2> QED
      BY <2>1
  <1> QED
    BY <1>1, <1>7

-----------------------------------------------------------------------------
(* The items of a request and the lines of an order. *)

(* A sum with one term that is not zero. *)
LEMMA SumSingle ==
    ASSUME NEW S, IsFiniteSet(S), NEW y \in S, NEW f, f[y] \in Int,
           \A x \in S \ {y} : f[x] = 0
    PROVE  SumFunctionOnSet(f, S) = f[y]
  <1>1. \A x \in S : f[x] \in Int
    OBVIOUS
  <1>2. SumFunctionOnSet(f, S) = f[y] + SumFunctionOnSet(f, S \ {y})
    BY <1>1, SumTake
  <1>3. IsFiniteSet(S \ {y})
    BY FS_RemoveElement
  <1>4. SumFunctionOnSet(f, S \ {y}) = 0
    BY <1>3, SumZero
  <1> QED
    BY <1>2, <1>4

(* The elements of a finite set in some order, each of them once. *)
LEMMA SetToSeqFacts ==
    ASSUME NEW S, IsFiniteSet(S)
    PROVE  /\ SetToSeq(S) \in [1..Cardinality(S) -> S] /\ Cardinality(S) \in Nat
           /\ \A i, j \in 1..Cardinality(S) : SetToSeq(S)[i] = SetToSeq(S)[j] => i = j
           /\ \A x \in S : \E i \in 1..Cardinality(S) : SetToSeq(S)[i] = x
  <1> DEFINE n == Cardinality(S)
  <1>1. n \in Nat /\ ExistsBijection(1..n, S)
    BY FS_CardinalityType
  <1>2. \E f \in [1..n -> S] : IsInjective(f)
    BY <1>1 DEF ExistsBijection, Bijection, Injection
  <1>3. SetToSeq(S) \in [1..n -> S] /\ IsInjective(SetToSeq(S))
    BY <1>2 DEF SetToSeq
  <1>4. SetToSeq(S) \in Injection(1..n, S)
    BY <1>3 DEF Injection
  <1>5. IsFiniteSet(1..n) /\ Cardinality(1..n) = n
    BY <1>1, FS_Interval
  <1>6. SetToSeq(S) \in Surjection(1..n, S)
    BY <1>4, <1>5, FS_Injection
  <1> HIDE DEF n
  <1>7. \A i, j \in 1..n : SetToSeq(S)[i] = SetToSeq(S)[j] => i = j
    BY <1>3 DEF IsInjective
  <1> QED
    BY <1>1, <1>3, <1>6, <1>7 DEF Surjection, n

(* The lines that are open, and how much of each is. *)
LEMMA LineTypes ==
    ASSUME NEW lines, IsLineTable(lines)
    PROVE  /\ IsFiniteSet(DOMAIN lines) /\ IsFiniteSet(OutstandingPairs(lines))
           /\ \A p \in DOMAIN lines :
                /\ p \in Pairs /\ lines[p] \in Line
                /\ lines[p].quantity \in Nat /\ lines[p].moved \in Nat
                /\ lines[p].insertedAt \in Nat \ {0}
                /\ Outstanding(lines, p) \in Int
  <1>1. \A p \in DOMAIN lines : p \in Pairs /\ lines[p] \in Line
    BY DEF IsLineTable
  <1>2. IsFiniteSet(DOMAIN lines)
    BY FinitePairsAssumption, FS_Subset DEF IsLineTable
  <1>3. IsFiniteSet(OutstandingPairs(lines))
    BY <1>2, FS_Subset DEF OutstandingPairs
  <1> QED
    BY <1>1, <1>2, <1>3 DEF Line, Outstanding

(* The items of a request, one by one. *)
LEMMA ItemTypes ==
    ASSUME NEW items, ValidItems(items)
    PROVE  /\ Len(items) \in Nat /\ DOMAIN items = 1..Len(items)
           /\ \A i \in DOMAIN items : /\ items[i].pair \in Pairs
                                     /\ items[i].quantity \in Nat \ {0}
  <1>1. items \in Seq(Item)
    BY DEF ValidItems
  <1>2. Len(items) \in Nat /\ DOMAIN items = 1..Len(items)
    BY <1>1
  <1>3. \A i \in DOMAIN items : items[i] \in Item
    BY <1>1, <1>2
  <1> QED
    BY <1>2, <1>3 DEF Item

(* The items a request stands for, and that they are lines with as much     *)
(* outstanding.                                                             *)
LEMMA ItemsOfFacts ==
    ASSUME NEW lines, IsLineTable(lines), NEW named, ValidItems(named), ItemsOK(lines, named)
    PROVE  ValidItems(ItemsOf(lines, named)) /\ ItemsOK(lines, ItemsOf(lines, named))
  <1>1. CASE named # <<>>
    BY <1>1 DEF ItemsOf
  <1>2. CASE named = <<>>
    <2> DEFINE open == SetToSeq(OutstandingPairs(lines))
               n == Cardinality(OutstandingPairs(lines))
               items == [i \in DOMAIN open |->
                           [pair |-> open[i], quantity |-> Outstanding(lines, open[i])]]
    <2>1. ItemsOf(lines, named) = items
      BY <1>2 DEF ItemsOf
    <2>2. open \in [1..n -> OutstandingPairs(lines)] /\ n \in Nat
      BY LineTypes, SetToSeqFacts
    <2> HIDE DEF open, n
    <2> SUFFICES ValidItems(items) /\ ItemsOK(lines, items)
      BY <2>1
    <2>3. \A i \in 1..n : /\ items[i].pair \in Pairs /\ items[i].pair \in DOMAIN lines
                          /\ items[i].quantity = Outstanding(lines, items[i].pair)
                          /\ items[i].quantity \in Nat \ {0}
      <3> SUFFICES ASSUME NEW i \in 1..n
                   PROVE  /\ items[i].pair \in Pairs /\ items[i].pair \in DOMAIN lines
                          /\ items[i].quantity = Outstanding(lines, items[i].pair)
                          /\ items[i].quantity \in Nat \ {0}
        OBVIOUS
      <3>1. open[i] \in OutstandingPairs(lines) /\ DOMAIN open = 1..n
        BY <2>2
      <3>2. items[i] = [pair |-> open[i], quantity |-> Outstanding(lines, open[i])]
        BY <3>1
      <3>3. open[i] \in DOMAIN lines /\ Outstanding(lines, open[i]) > 0
        BY <3>1 DEF OutstandingPairs
      <3>4. open[i] \in Pairs /\ Outstanding(lines, open[i]) \in Int
        BY <3>3, LineTypes
      <3>5. Outstanding(lines, open[i]) \in Nat \ {0}
        BY <3>3, <3>4
      <3> HIDE DEF items
      <3> QED
        BY <3>2, <3>3, <3>4, <3>5
    <2>4. items \in [1..n -> Item]
      BY <2>2, <2>3 DEF Item
    <2>5. items \in Seq(Item) /\ DOMAIN items = 1..n
      BY <2>2, <2>4, IsASeq
    <2>6. \A i \in 1..n : Outstanding(lines, items[i].pair) \in Int
      BY <2>3, LineTypes
    <2> HIDE DEF items
    <2> QED
      BY <2>3, <2>5, <2>6 DEF ValidItems, ItemsOK
  <1> QED
    BY <1>1, <1>2

(* The units that items name of a pair: a natural, zero if none names it,   *)
(* and no less than any that does.                                          *)
LEMMA UnitsOfFacts ==
    ASSUME NEW items, ValidItems(items), NEW p
    PROVE  /\ UnitsOf(items, p) \in Nat
           /\ p \notin PairsOf(items) => UnitsOf(items, p) = 0
           /\ p \in PairsOf(items) => UnitsOf(items, p) > 0
           /\ \A i \in DOMAIN items :
                 items[i].pair = p => items[i].quantity <= UnitsOf(items, p)
  <1> DEFINE f == [i \in DOMAIN items |-> IF items[i].pair = p THEN items[i].quantity ELSE 0]
  <1>1. UnitsOf(items, p) = SumFunctionOnSet(f, DOMAIN items)
    BY DEF UnitsOf, SumFunction
  <1>2. IsFiniteSet(DOMAIN items)
    BY ItemTypes, FS_Interval
  <1>3. \A i \in DOMAIN items : items[i].quantity \in Nat \ {0}
    BY ItemTypes
  <1>4. \A i \in DOMAIN items : f[i] \in Nat
    BY <1>3
  <1>5. /\ SumFunctionOnSet(f, DOMAIN items) \in Nat
        /\ \A i \in DOMAIN items : f[i] <= SumFunctionOnSet(f, DOMAIN items)
    BY <1>2, <1>4, SumNat
  <1>6. p \notin PairsOf(items) => SumFunctionOnSet(f, DOMAIN items) = 0
    <2> SUFFICES ASSUME p \notin PairsOf(items)
                 PROVE  SumFunctionOnSet(f, DOMAIN items) = 0
      OBVIOUS
    <2>1. \A i \in DOMAIN items : f[i] = 0
      BY DEF PairsOf
    <2> HIDE DEF f
    <2> QED
      BY <1>2, <2>1, SumZero
  <1>7. \A i \in DOMAIN items : items[i].pair = p => f[i] = items[i].quantity
    OBVIOUS
  <1> HIDE DEF f
  <1> QED
    BY <1>1, <1>3, <1>5, <1>6, <1>7 DEF PairsOf

(* Items that name no line twice: each is all that is named of its pair. *)
LEMMA UnitsOnce ==
    ASSUME NEW items, ValidItems(items), ~NamesOneTwice(items), NEW i \in DOMAIN items
    PROVE  UnitsOf(items, items[i].pair) = items[i].quantity
  <1> DEFINE n == Len(items)
             pair == [j \in 1..n |-> items[j].pair]
             f == [j \in DOMAIN items |->
                     IF items[j].pair = items[i].pair THEN items[j].quantity ELSE 0]
  <1>1. n \in Nat /\ DOMAIN items = 1..n /\ items[i].quantity \in Nat
    BY ItemTypes
  <1>2. IsFiniteSet(1..n) /\ Cardinality(1..n) = n
    <2>1. \A m \in Nat : IsFiniteSet(1..m) /\ Cardinality(1..m) = m
      BY FS_Interval
    <2> QED
      BY <1>1, <2>1
  <1>3. pair \in Surjection(1..n, PairsOf(items))
    BY <1>1 DEF Surjection, PairsOf
  <1>4. pair \in Injection(1..n, PairsOf(items))
    <2>1. Cardinality(PairsOf(items)) <= n /\ IsFiniteSet(PairsOf(items))
      BY <1>2, <1>3, FS_Surjection
    <2>2. Cardinality(PairsOf(items)) = n
      BY <1>1, <2>1, FS_CardinalityType DEF NamesOneTwice
    <2> QED
      BY <1>2, <1>3, <2>2, FS_Surjection
  <1>5. \A j \in 1..n : items[j].pair = items[i].pair => j = i
    BY <1>1, <1>4 DEF Injection, IsInjective
  <1>6. f[i] = items[i].quantity /\ \A j \in (1..n) \ {i} : f[j] = 0
    BY <1>1, <1>5
  <1>7. UnitsOf(items, items[i].pair) = SumFunctionOnSet(f, 1..n)
    BY <1>1 DEF UnitsOf, SumFunction
  <1> HIDE DEF f, n
  <1>8. SumFunctionOnSet(f, 1..n) = f[i]
    <2>1. i \in 1..n /\ f[i] \in Int
      BY <1>1, <1>6
    <2> QED
      BY <1>2, <1>6, <2>1, SumSingle
  <1> QED
    BY <1>6, <1>7, <1>8

(* Lines that have moved, lines that are new, lines that a DELETE leaves.    *)
LEMMA MoveLinesFacts ==
    ASSUME NEW lines, IsLineTable(lines), NEW items, ValidItems(items)
    PROVE  LET after == MoveLines(lines, items) IN
           /\ IsLineTable(after) /\ DOMAIN after = DOMAIN lines
           /\ \A p \in DOMAIN lines :
                /\ after[p].quantity = lines[p].quantity
                /\ after[p].moved = lines[p].moved + UnitsOf(items, p)
                /\ after[p].insertedAt = lines[p].insertedAt
  <1> DEFINE after == MoveLines(lines, items)
  <1>1. ASSUME NEW p \in DOMAIN lines
        PROVE  /\ after[p].quantity = lines[p].quantity
               /\ after[p].moved = lines[p].moved + UnitsOf(items, p)
               /\ after[p].insertedAt = lines[p].insertedAt
               /\ after[p] \in Line
    <2>1. lines[p] \in Line /\ UnitsOf(items, p) \in Nat /\ lines[p].moved \in Nat
      BY LineTypes, UnitsOfFacts
    <2>2. after[p] = [lines[p] EXCEPT !.moved = lines[p].moved + UnitsOf(items, p)]
      BY DEF MoveLines
    <2> HIDE DEF after
    <2> QED
      BY <2>1, <2>2 DEF Line
  <1>2. DOMAIN after = DOMAIN lines /\ after = [p \in DOMAIN lines |-> after[p]]
    BY DEF MoveLines
  <1>3. DOMAIN lines \subseteq Pairs
    BY DEF IsLineTable
  <1> HIDE DEF after
  <1>4. IsLineTable(after)
    BY <1>1, <1>2, <1>3 DEF IsLineTable
  <1> QED
    BY <1>1, <1>2, <1>4 DEF after

(* A line after an INSERT: one that was there, or a fresh one. *)
InsertedLine(after, lines, quantities, version, p) ==
    \/ p \in DOMAIN lines /\ after[p] = lines[p]
    \/ /\ p \in DOMAIN quantities /\ p \notin DOMAIN lines
       /\ after[p] = [quantity |-> quantities[p], moved |-> 0, insertedAt |-> version]
       /\ quantities[p] \in Nat \ {0}

(* What inserting a replacement set leaves: the new lines beside the old *)
(* ones, each as InsertedLine says. *)
LEMMA InsertedFacts ==
    ASSUME NEW lines, IsLineTable(lines), NEW quantities, ValidLines(quantities),
           NEW version \in Nat \ {0}
    PROVE  LET after == Inserted(lines, quantities, version) IN
           /\ IsLineTable(after) /\ DOMAIN after = DOMAIN lines \cup DOMAIN quantities
           /\ \A p \in DOMAIN after : InsertedLine(after, lines, quantities, version, p)
  <1> DEFINE after == Inserted(lines, quantities, version)
  <1>1. DOMAIN after = DOMAIN lines \cup DOMAIN quantities
    BY DEF Inserted, FreshLines
  <1>2. ASSUME NEW p \in DOMAIN after
        PROVE  InsertedLine(after, lines, quantities, version, p) /\ after[p] \in Line
    <2>1. CASE p \in DOMAIN lines
      <3>1. after[p] = lines[p]
        BY <2>1 DEF Inserted, FreshLines
      <3>2. lines[p] \in Line
        BY <2>1, LineTypes
      <3> HIDE DEF after
      <3> QED
        BY <2>1, <3>1, <3>2 DEF InsertedLine
    <2>2. CASE p \notin DOMAIN lines
      <3>1. p \in DOMAIN quantities
        BY <1>1, <2>2
      <3>2. after[p] = [quantity |-> quantities[p], moved |-> 0, insertedAt |-> version]
        BY <2>2, <3>1 DEF Inserted, FreshLines
      <3>3. quantities[p] \in Nat \ {0}
        BY <3>1 DEF ValidLines
      <3> HIDE DEF after
      <3> QED
        BY <2>2, <3>1, <3>2, <3>3 DEF Line, InsertedLine
    <2> QED
      BY <2>1, <2>2
  <1>3. after = [p \in DOMAIN after |-> after[p]]
    BY <1>1 DEF Inserted, FreshLines
  <1>4. DOMAIN after \subseteq Pairs
    BY <1>1 DEF IsLineTable, ValidLines
  <1> HIDE DEF after
  <1>5. IsLineTable(after)
    BY <1>2, <1>3, <1>4 DEF IsLineTable
  <1> QED
    BY <1>1, <1>2, <1>5 DEF after

(* The lines of a new order: nothing moved, a positive quantity, the version *)
(* that inserted them. *)
LEMMA FreshLinesFacts ==
    ASSUME NEW quantities, ValidLines(quantities), NEW version \in Nat \ {0}
    PROVE  LET lines == FreshLines(quantities, version) IN
           /\ IsLineTable(lines) /\ lines # <<>> /\ DOMAIN lines = DOMAIN quantities
           /\ \A p \in DOMAIN lines : /\ lines[p].moved = 0 /\ lines[p].quantity > 0
                                      /\ lines[p].insertedAt = version
  <1> DEFINE lines == FreshLines(quantities, version)
  <1>1. DOMAIN lines = DOMAIN quantities /\ lines = [p \in DOMAIN lines |-> lines[p]]
    BY DEF FreshLines
  <1>2. ASSUME NEW p \in DOMAIN quantities
        PROVE  /\ lines[p] \in Line /\ lines[p].moved = 0 /\ lines[p].quantity > 0
               /\ lines[p].insertedAt = version
    <2>1. lines[p] = [quantity |-> quantities[p], moved |-> 0, insertedAt |-> version]
      BY DEF FreshLines
    <2>2. quantities[p] \in Nat /\ quantities[p] > 0
      BY DEF ValidLines
    <2> HIDE DEF lines
    <2> QED
      BY <2>1, <2>2 DEF Line
  <1>3. DOMAIN quantities \subseteq Pairs /\ DOMAIN quantities # {}
    BY DEF ValidLines
  <1> HIDE DEF lines
  <1>4. IsLineTable(lines) /\ lines # <<>>
    BY <1>1, <1>2, <1>3 DEF IsLineTable
  <1> QED
    BY <1>1, <1>2, <1>4 DEF lines

(* The lines a delete by known id leaves behind are lines of the table, *)
(* unchanged. *)
LEMMA LinesLeftFacts ==
    ASSUME NEW lines, IsLineTable(lines), NEW seen
    PROVE  LET left == LinesLeft(lines, seen) IN
           /\ IsLineTable(left)
           /\ DOMAIN left = {p \in DOMAIN lines : lines[p].insertedAt > seen}
           /\ \A p \in DOMAIN left : p \in DOMAIN lines /\ left[p] = lines[p]
  <1> DEFINE left == LinesLeft(lines, seen)
  <1>1. DOMAIN left = {p \in DOMAIN lines : lines[p].insertedAt > seen}
    BY DEF LinesLeft
  <1>2. \A p \in DOMAIN left : p \in DOMAIN lines /\ left[p] = lines[p]
    BY DEF LinesLeft
  <1>3. left = [p \in DOMAIN left |-> left[p]]
    BY DEF LinesLeft
  <1> HIDE DEF left
  <1>4. IsLineTable(left)
    BY <1>1, <1>2, <1>3 DEF IsLineTable
  <1> QED
    BY <1>1, <1>2, <1>4 DEF left
=============================================================================
