------------------------------ MODULE Counting -----------------------------
(***************************************************************************)
(* Facts about numbers, finite sets and sums that need induction.  The   *)
(* principle is stated for a set in place of a predicate (NatInduct): it *)
(* then has no operator for a parameter, and the provers can use it.     *)
(***************************************************************************)
EXTENDS Integers, FiniteSetTheorems, TLAPS

(* A set of naturals has a least element, since its initial segments are *)
(* well-founded as sets.                                                 *)
LEMMA LeastNatural ==
    ASSUME NEW T, T \subseteq Nat, T # {}
    PROVE  \E x \in T : \A y \in T : x <= y
<1> DEFINE U == {1..m : m \in T}
<1>1. U \subseteq FiniteSubsetsOf(Nat) /\ U # {}
  <2>1. ASSUME NEW m \in T PROVE 1..m \in FiniteSubsetsOf(Nat)
    BY FS_Interval DEF FiniteSubsetsOf
  <2> QED
    BY <2>1
<1>2. \E x \in U : \A y \in U : ~ (<<y, x>> \in StrictSubsetOrdering(Nat))
  <2> HIDE DEF U
  <2> QED
    BY <1>1, FS_StrictSubsetOrderingWellFounded, WFMin
<1>3. PICK m \in T : \A k \in T : ~ (<<1..k, 1..m>> \in StrictSubsetOrdering(Nat))
  BY <1>2
<1>4. ASSUME NEW k \in T, k < m PROVE FALSE
  <2>1. 1..k \subseteq 1..m /\ m \in 1..m /\ m \notin 1..k
    BY <1>4
  <2>2. 1..k \in SUBSET Nat /\ 1..m \in SUBSET Nat /\ 1..k # 1..m
    BY <2>1
  <2>3. <<1..k, 1..m>> \in StrictSubsetOrdering(Nat)
    BY <2>1, <2>2 DEF StrictSubsetOrdering
  <2> QED
    BY <1>3, <2>3
<1> QED
  BY <1>4

(* Induction, for the set of numbers that have a property.               *)
LEMMA NatInduct ==
    ASSUME NEW S, 0 \in S, \A n \in Nat : n \in S => n + 1 \in S
    PROVE  Nat \subseteq S
<1> DEFINE T == Nat \ S
<1> SUFFICES ASSUME T # {} PROVE FALSE
  OBVIOUS
<1>1. \E x \in T : \A y \in T : x <= y
  <2>1. T \subseteq Nat
    OBVIOUS
  <2> HIDE DEF T
  <2> QED
    BY <2>1, LeastNatural
<1>2. PICK x \in T : \A y \in T : x <= y
  BY <1>1
<1>3. x - 1 \in Nat /\ x - 1 \in S
  BY <1>2
<1> QED
  BY <1>2, <1>3

(* The last number up to which a condition holds from 0 on.              *)
LEMMA Frontier ==
    ASSUME NEW n \in Nat, NEW T, 0 \in T, n + 1 \notin T
    PROVE  \E k \in 0..n : k \in T /\ k + 1 \notin T
<1> SUFFICES ASSUME \A k \in 0..n : k \in T => k + 1 \in T PROVE FALSE
  OBVIOUS
<1> DEFINE S == {k \in Nat : k <= n + 1 => k \in T}
<1>1. Nat \subseteq S
  <2>1. 0 \in S /\ \A k \in Nat : k \in S => k + 1 \in S
    OBVIOUS
  <2> HIDE DEF S
  <2> QED
    BY <2>1, NatInduct
<1> QED
  BY <1>1

---------------------------------------------------------------------------
(* Cardinality.                                                          *)

(* A part of a set that has as many elements is all of it.               *)
LEMMA Smaller ==
    ASSUME NEW S, IsFiniteSet(S), NEW T \in SUBSET S
    PROVE  /\ IsFiniteSet(T) /\ Cardinality(T) \in Nat /\ Cardinality(S) \in Nat
           /\ Cardinality(T) <= Cardinality(S)
           /\ Cardinality(T) = Cardinality(S) => T = S
BY FS_Subset, FS_CardinalityType

(* Twice as many subsets with one more element.                          *)
LEMMA SubsetsDouble ==
    ASSUME NEW S, IsFiniteSet(S), NEW x, x \notin S
    PROVE  Cardinality(SUBSET (S \cup {x})) = 2 * Cardinality(SUBSET S)
<1> DEFINE A == {T \cup {x} : T \in SUBSET S}
<1>1. SUBSET (S \cup {x}) = (SUBSET S) \cup A
  <2>1. ASSUME NEW U \in SUBSET (S \cup {x}) PROVE U \in (SUBSET S) \cup A
    <3>1. CASE x \in U
      <4>1. U \ {x} \in SUBSET S /\ U = (U \ {x}) \cup {x}
        BY <3>1
      <4> QED
        BY <4>1
    <3>2. CASE x \notin U
      BY <3>2
    <3> QED
      BY <3>1, <3>2
  <2> QED
    BY <2>1
<1>2. IsFiniteSet(SUBSET S)
  BY FS_SUBSET
<1>3. IsFiniteSet(A) /\ Cardinality(A) = Cardinality(SUBSET S)
  <2> DEFINE f == [T \in SUBSET S |-> T \cup {x}]
  <2>1. f \in Injection(SUBSET S, A)
    <3>1. \A T, U \in SUBSET S : T \cup {x} = U \cup {x} => T = U
      OBVIOUS
    <3>2. f \in [SUBSET S -> A] /\ IsInjective(f)
      BY <3>1 DEF IsInjective
    <3> QED
      BY <3>2 DEF Injection
  <2>2. f \in Surjection(SUBSET S, A)
    BY DEF Surjection
  <2>3. ExistsBijection(SUBSET S, A)
    BY <2>1, <2>2 DEF Bijection, ExistsBijection
  <2> HIDE DEF A
  <2> QED
    BY <2>3, <1>2, FS_Bijection
<1>4. (SUBSET S) \cap A = {}
  OBVIOUS
<1> HIDE DEF A
<1>5. Cardinality((SUBSET S) \cup A)
        = Cardinality(SUBSET S) + Cardinality(A) - Cardinality((SUBSET S) \cap A)
  BY <1>2, <1>3, FS_Union
<1>6. Cardinality(SUBSET S) \in Nat /\ Cardinality((SUBSET S) \cap A) = 0
  BY <1>2, <1>4, FS_CardinalityType, FS_EmptySet
<1>7. Cardinality((SUBSET S) \cup A) = 2 * Cardinality(SUBSET S)
  BY <1>3, <1>5, <1>6
<1> QED
  BY <1>1, <1>7

(* A set of numbers from 1 on without gaps is an interval.               *)
LEMMA InitialSegment ==
    ASSUME NEW m \in Nat, NEW D \in SUBSET (1..m), \A i \in D : \A k \in 1..i : k \in D
    PROVE  Cardinality(D) \in 0..m /\ D = 1..Cardinality(D)
<1> DEFINE T == {0} \cup D
<1>1. \E n \in 0..m : n \in T /\ n + 1 \notin T
  <2>1. 0 \in T /\ m + 1 \notin T
    OBVIOUS
  <2> HIDE DEF T
  <2> QED
    BY <2>1, Frontier
<1>2. PICK n \in 0..m : n \in T /\ n + 1 \notin T
  BY <1>1
<1>3. D = 1..n
  <2>1. ASSUME NEW i \in D PROVE i \in 1..n
    <3>1. ~(n + 1 \in 1..i)
      BY <1>2
    <3> QED
      BY <3>1
  <2>2. 1..n \subseteq D
    <3>1. CASE n = 0
      BY <3>1
    <3>2. CASE n # 0
      BY <1>2, <3>2
    <3> QED
      BY <3>1, <3>2
  <2> QED
    BY <2>1, <2>2
<1>4. Cardinality(1..n) = n
  <2>1. Cardinality(1..n) = IF 1 > n THEN 0 ELSE n - 1 + 1
    BY FS_Interval
  <2> QED
    BY <2>1
<1> QED
  BY <1>3, <1>4

(* The first k elements of a set of line numbers are k elements.         *)
LEMMA FirstOnes ==
    ASSUME NEW m \in Nat, NEW S \in SUBSET (1..m), NEW k \in Nat, k <= Cardinality(S)
    PROVE  Cardinality({i \in S : Cardinality(S \cap 1..i) <= k}) = k
<1> DEFINE r(i) == Cardinality(S \cap 1..i)
           First == {i \in S : r(i) <= k}
<1>1. IsFiniteSet(S)
  <2>1. IsFiniteSet(1..m)
    BY FS_Interval
  <2> QED
    BY <2>1, FS_Subset
<1>2. ASSUME NEW i \in Nat, NEW j \in Nat, i <= j PROVE r(i) \in Nat /\ r(i) <= r(j)
  <2>1. S \cap 1..i \in SUBSET (S \cap 1..j) /\ S \cap 1..j \in SUBSET S
    BY <1>2
  <2>2. IsFiniteSet(S \cap 1..j)
    BY <1>1, <2>1, Smaller
  <2> QED
    BY <2>1, <2>2, Smaller
<1>3. ASSUME NEW i \in Nat PROVE r(i + 1) <= r(i) + 1
  <2>1. S \cap 1..(i + 1) \subseteq (S \cap 1..i) \cup {i + 1}
    OBVIOUS
  <2>2. IsFiniteSet(S \cap 1..i)
    BY <1>1, FS_Subset
  <2>3. i + 1 \notin S \cap 1..i
    OBVIOUS
  <2>4. /\ IsFiniteSet((S \cap 1..i) \cup {i + 1})
        /\ Cardinality((S \cap 1..i) \cup {i + 1}) = Cardinality(S \cap 1..i) + 1
    BY <2>2, <2>3, FS_AddElement
  <2> QED
    BY <2>1, <2>4, Smaller
<1>4. r(0) = 0 /\ r(m) = Cardinality(S)
  <2>1. S \cap 1..0 = {}
    OBVIOUS
  <2>2. S \cap 1..m = S
    OBVIOUS
  <2> QED
    BY <2>1, <2>2, FS_EmptySet
<1>5. CASE k = Cardinality(S)
  <2>1. \A i \in S : r(i) <= k
    <3>1. \A i \in S : S \cap 1..i \in SUBSET S
      OBVIOUS
    <3> QED
      BY <1>1, <1>5, <3>1, Smaller
  <2>2. First = S
    BY <2>1
  <2> QED
    BY <1>5, <2>2
<1>6. CASE k < Cardinality(S)
  <2> DEFINE T == {i \in Nat : r(i) <= k}
  <2>1. \E t \in 0..m : t \in T /\ t + 1 \notin T
    <3>1. 0 \in T
      BY <1>4
    <3>2. m + 1 \notin T
      BY <1>2, <1>4, <1>6
    <3> HIDE DEF T
    <3> QED
      BY <3>1, <3>2, Frontier
  <2>2. PICK t \in 0..m : t \in T /\ t + 1 \notin T
    BY <2>1
  <2>3. t \in Nat /\ r(t) <= k /\ ~(r(t + 1) <= k)
    BY <2>2
  <2>4. r(t) = k
    <3>1. r(t) \in Nat /\ r(t + 1) \in Nat /\ r(t + 1) <= r(t) + 1
      BY <1>2, <1>3, <2>3
    <3> HIDE DEF r
    <3> QED
      BY <2>3, <3>1
  <2>5. First = S \cap 1..t
    <3>1. ASSUME NEW i \in S, r(i) <= k PROVE i <= t
      <4>1. i \in Nat /\ t + 1 \in Nat
        BY <2>3
      <4>2. t + 1 <= i => r(t + 1) <= r(i) /\ r(t + 1) \in Nat /\ r(i) \in Nat
        BY <1>2, <4>1
      <4> HIDE DEF r
      <4> QED
        BY <2>3, <3>1, <4>1, <4>2
    <3>2. ASSUME NEW i \in S, i <= t PROVE r(i) <= k
      BY <1>2, <2>4, <3>2
    <3>3. \A i \in S : i \in 1..t <=> i <= t
      OBVIOUS
    <3> HIDE DEF r
    <3> QED
      BY <3>1, <3>2, <3>3
  <2> QED
    BY <2>4, <2>5
<1>7. Cardinality(S) \in Nat
  BY <1>1, FS_CardinalityType
<1> HIDE DEF First
<1> QED
  BY <1>5, <1>6, <1>7 DEF First

---------------------------------------------------------------------------
(* Powers of two, which count the subsets of 1..n, and quotients.        *)

(* The empty set has one subset.                                         *)
LEMMA PowerZero == 2 ^ 0 = 1
<1>1. SUBSET {} = {{}}
  OBVIOUS
<1>2. Cardinality(SUBSET {}) = 1
  BY <1>1, FS_Singleton
<1>3. Cardinality(SUBSET {}) = 2 ^ Cardinality({})
  BY FS_SUBSET, FS_EmptySet
<1> QED
  BY <1>2, <1>3, FS_EmptySet

(* A power of two is positive, and the next one is twice as large.       *)
LEMMA PowerStep ==
    ASSUME NEW n \in Nat
    PROVE  2 ^ n \in Nat \ {0} /\ 2 ^ (n + 1) = 2 * 2 ^ n
<1> DEFINE S == 1..n
<1>1. IsFiniteSet(S) /\ Cardinality(S) = n
  BY FS_Interval
<1>2. n + 1 \notin S /\ 1..(n + 1) = S \cup {n + 1}
  OBVIOUS
<1>3. IsFiniteSet(1..(n + 1)) /\ Cardinality(1..(n + 1)) = n + 1
  BY FS_Interval
<1>4. IsFiniteSet(SUBSET S) /\ Cardinality(SUBSET S) = 2 ^ n /\ SUBSET S # {}
  BY <1>1, FS_SUBSET
<1>5. Cardinality(SUBSET (1..(n + 1))) = 2 ^ (n + 1)
  BY <1>3, FS_SUBSET
<1>6. Cardinality(SUBSET (S \cup {n + 1})) = 2 * Cardinality(SUBSET S)
  <2> HIDE DEF S
  <2> QED
    BY <1>1, <1>2, SubsetsDouble
<1>7. 2 ^ n \in Nat \ {0}
  <2>1. Cardinality(SUBSET S) \in Nat /\ Cardinality(SUBSET S) # 0
    BY <1>4, FS_CardinalityType, FS_EmptySet
  <2> QED
    BY <2>1, <1>4
<1> QED
  BY <1>2, <1>4, <1>5, <1>6, <1>7

(* Division with remainder.                                              *)
LEMMA Quotient ==
    ASSUME NEW x \in Nat, NEW y \in Nat \ {0}
    PROVE  /\ x = y * (x \div y) + (x % y)
           /\ x % y \in 0..(y - 1) /\ x \div y \in Nat
OBVIOUS

(* A quotient is given by its remainder.                                 *)
LEMMA QuotientUnique ==
    ASSUME NEW x \in Nat, NEW y \in Nat \ {0}, NEW q \in Nat, NEW r \in 0..(y - 1),
           x = y * q + r
    PROVE  x \div y = q
OBVIOUS

(* Bit i + 1 of a number is bit i of its half.                           *)
LEMMA HalfFirst ==
    ASSUME NEW m \in Nat, NEW p \in Nat \ {0}
    PROVE  m \div (2 * p) = (m \div 2) \div p
<1>1. PICK q \in Nat, r \in 0..1 : q = m \div 2 /\ m = 2 * q + r
  OBVIOUS
<1>2. PICK s \in Nat, t \in 0..(p - 1) : s = q \div p /\ q = p * s + t
  <2>1. q = p * (q \div p) + (q % p) /\ q % p \in 0..(p - 1) /\ q \div p \in Nat
    BY Quotient
  <2> QED
    BY <2>1
<1>3. m = (2 * p) * s + (2 * t + r) /\ 2 * t + r \in 0..(2 * p - 1) /\ 2 * p \in Nat \ {0}
  <2>1. p * s \in Nat /\ (2 * p) * s = 2 * (p * s)
    OBVIOUS
  <2>2. m = 2 * (p * s) + (2 * t + r)
    BY <1>1, <1>2, <2>1
  <2>3. 2 * t + r \in 0..(2 * p - 1)
    OBVIOUS
  <2> QED
    BY <2>1, <2>2, <2>3
<1>4. m \div (2 * p) = s
  BY <1>3, QuotientUnique
<1> QED
  BY <1>1, <1>2, <1>4

---------------------------------------------------------------------------
(* Induction over the subsets of a finite set.                           *)
LEMMA FiniteInduct ==
    ASSUME NEW S, IsFiniteSet(S), NEW P, {} \in P,
           \A T \in SUBSET S : T # {} /\ (\A x \in T : T \ {x} \in P) => T \in P
    PROVE  S \in P
<1> DEFINE C == {n \in Nat : \A T \in SUBSET S : Cardinality(T) <= n => T \in P}
<1>1. ASSUME NEW T \in SUBSET S
      PROVE  /\ IsFiniteSet(T) /\ Cardinality(T) \in Nat /\ (Cardinality(T) = 0 <=> T = {})
             /\ \A x \in T : Cardinality(T \ {x}) = Cardinality(T) - 1
  BY FS_Subset, FS_CardinalityType, FS_EmptySet, FS_RemoveElement
<1>2. 0 \in C
  <2>1. ASSUME NEW T \in SUBSET S, Cardinality(T) <= 0 PROVE T \in P
    <3>1. T = {}
      BY <1>1, <2>1
    <3> QED
      BY <3>1
  <2> QED
    BY <2>1
<1>3. ASSUME NEW n \in Nat, n \in C PROVE n + 1 \in C
  <2>1. ASSUME NEW T \in SUBSET S, Cardinality(T) <= n + 1 PROVE T \in P
    <3>1. ASSUME NEW x \in T PROVE T \ {x} \in P
      BY <1>1, <1>3, <2>1
    <3> QED
      BY <3>1
  <2> QED
    BY <2>1
<1>4. Nat \subseteq C
  <2> HIDE DEF C
  <2> QED
    BY <1>2, <1>3, NatInduct
<1> QED
  BY <1>1, <1>4

---------------------------------------------------------------------------
(* Sums: SumFunctionOnSet(f, S) adds f[x] for x in S, in the order in    *)
(* which CHOOSE picks them.                                              *)

Pick(T) == CHOOSE x \in T : TRUE

SumAt(g, f, T) == IF T = {} THEN 0 ELSE f[Pick(T)] + g[T \ {Pick(T)}]

SumRule(g, f, S) == \A T \in SUBSET S : g[T] = SumAt(g, f, T)

(* The recursion of the sum has a solution: for sets of up to n elements *)
(* it has one, whatever it is for others.                                *)
LEMMA SumDefined ==
    ASSUME NEW S, IsFiniteSet(S), NEW f \in [S -> Int]
    PROVE  \E g \in [SUBSET S -> Int] : SumRule(g, f, S)
<1> DEFINE Upto(g, n) ==
        \A T \in SUBSET S : Cardinality(T) <= n => g[T] = SumAt(g, f, T)
    C == {n \in Nat : \E g \in [SUBSET S -> Int] : Upto(g, n)}
<1> DEFINE Rest(T) == T \ {Pick(T)}
<1>1. \A T \in SUBSET S :
         /\ Cardinality(T) \in Nat /\ Cardinality(T) <= Cardinality(S)
         /\ Cardinality(T) = 0 => T = {}
  BY Smaller, FS_EmptySet
<1>2. ASSUME NEW T \in SUBSET S, T # {}
      PROVE  Pick(T) \in S /\ Rest(T) \in SUBSET S /\ Cardinality(Rest(T)) = Cardinality(T) - 1
  <2>1. Pick(T) \in T
    BY <1>2 DEF Pick
  <2>2. IsFiniteSet(T)
    BY Smaller
  <2> QED
    BY <2>1, <2>2, FS_RemoveElement
<1>3. 0 \in C
  <2> DEFINE g == [T \in SUBSET S |-> 0]
  <2>1. ASSUME NEW T \in SUBSET S, Cardinality(T) <= 0 PROVE g[T] = SumAt(g, f, T)
    <3>1. Cardinality(T) \in Nat /\ (Cardinality(T) = 0 => T = {})
      BY <1>1
    <3>2. T = {}
      BY <2>1, <3>1
    <3> QED
      BY <3>2 DEF SumAt
  <2>2. g \in [SUBSET S -> Int]
    OBVIOUS
  <2> HIDE DEF g
  <2> QED
    BY <2>1, <2>2
<1>4. ASSUME NEW n \in Nat, n \in C PROVE n + 1 \in C
  <2>1. PICK g \in [SUBSET S -> Int] : Upto(g, n)
    BY <1>4
  <2> DEFINE h == [T \in SUBSET S |-> SumAt(g, f, T)]
  <2>2. h \in [SUBSET S -> Int]
    <3>1. ASSUME NEW T \in SUBSET S PROVE SumAt(g, f, T) \in Int
      <4>1. CASE T = {}
        BY <4>1 DEF SumAt
      <4>2. CASE T # {}
        <5>1. Pick(T) \in S /\ Rest(T) \in SUBSET S
          BY <1>2, <4>2
        <5>2. f[Pick(T)] \in Int /\ g[Rest(T)] \in Int
          BY <5>1
        <5> QED
          BY <4>2, <5>2 DEF SumAt
      <4> QED
        BY <4>1, <4>2
    <3> QED
      BY <3>1
  <2>3. \A T \in SUBSET S : Cardinality(T) <= n => h[T] = g[T]
    BY <2>1
  <2>4. ASSUME NEW T \in SUBSET S, Cardinality(T) <= n + 1 PROVE h[T] = SumAt(h, f, T)
    <3>1. ASSUME T # {} PROVE h[Rest(T)] = g[Rest(T)]
      <4>1. Rest(T) \in SUBSET S /\ Cardinality(Rest(T)) = Cardinality(T) - 1
        BY <1>2, <3>1
      <4>2. Cardinality(T) \in Nat
        BY <1>1
      <4>3. Cardinality(Rest(T)) <= n
        BY <2>4, <4>1, <4>2
      <4> HIDE DEF h, Rest
      <4> QED
        BY <4>1, <4>3, <2>3
    <3>2. h[T] = SumAt(g, f, T)
      OBVIOUS
    <3> HIDE DEF h
    <3> QED
      BY <3>1, <3>2 DEF SumAt
  <2> HIDE DEF h
  <2> QED
    BY <2>2, <2>4
<1>5. Nat \subseteq C
  <2> HIDE DEF C
  <2> QED
    BY <1>3, <1>4, NatInduct
<1>6. Cardinality(S) \in C
  BY <1>1, <1>5
<1>7. PICK g \in [SUBSET S -> Int] : Upto(g, Cardinality(S))
  BY <1>6
<1>8. \A T \in SUBSET S : g[T] = SumAt(g, f, T)
  BY <1>1, <1>7
<1> QED
  BY <1>7, <1>8 DEF SumRule

(* A sum is the value, at the whole set, of a solution of its rule.      *)
LEMMA SumIs ==
    ASSUME NEW S, IsFiniteSet(S), NEW f \in [S -> Int]
    PROVE  \E g : SumRule(g, f, S) /\ SumFunctionOnSet(f, S) = g[S]
<1> DEFINE Rest(T) == T \ {CHOOSE x \in T : TRUE}
           Body(g) == [T \in SUBSET S |->
                          IF T = {} THEN 0 ELSE f[CHOOSE x \in T : TRUE] + g[Rest(T)]]
           h == CHOOSE g : g = Body(g)
<1>1. \E g : g = Body(g)
  <2>1. PICK g \in [SUBSET S -> Int] : SumRule(g, f, S)
    BY SumDefined
  <2>2. \A T \in SUBSET S : g[T] = Body(g)[T]
    BY <2>1 DEF SumRule, SumAt, Pick
  <2>3. g = Body(g)
    BY <2>1, <2>2
  <2> QED
    BY <2>3
<1>2. h = Body(h)
  BY <1>1
<1>3. SumFunctionOnSet(f, S) = h[S]
  BY DEF SumFunctionOnSet, FoldFunctionOnSet, MapThenFoldSet
<1>4. SumRule(h, f, S)
  <2> HIDE DEF h
  <2>1. \A T \in SUBSET S : h[T] = Body(h)[T]
    BY <1>2
  <2> QED
    BY <2>1 DEF SumRule, SumAt, Pick
<1> QED
  BY <1>3, <1>4

(* The element chosen from a set is one of its elements.                 *)
LEMMA Picked ==
    ASSUME NEW T, T # {}
    PROVE  Pick(T) \in T
BY DEF Pick

(* A sum of integers is an integer.                                      *)
LEMMA SumType ==
    ASSUME NEW S, IsFiniteSet(S), NEW f \in [S -> Int]
    PROVE  SumFunctionOnSet(f, S) \in Int
<1>1. PICK g : SumRule(g, f, S) /\ SumFunctionOnSet(f, S) = g[S]
  BY SumIs
<1> DEFINE P == {T \in SUBSET S : g[T] \in Int}
<1>2. {} \in P
  <2>1. g[{}] = 0
    BY <1>1 DEF SumRule, SumAt
  <2> QED
    BY <2>1
<1>3. ASSUME NEW T \in SUBSET S, T # {}, \A x \in T : T \ {x} \in P PROVE T \in P
  <2>1. Pick(T) \in T /\ g[T] = f[Pick(T)] + g[T \ {Pick(T)}]
    BY <1>1, <1>3, Picked DEF SumRule, SumAt
  <2>2. f[Pick(T)] \in Int /\ T \ {Pick(T)} \in P
    BY <1>3, <2>1
  <2> QED
    BY <2>1, <2>2
<1>4. S \in P
  <2> HIDE DEF P
  <2> QED
    BY <1>2, <1>3, FiniteInduct
<1> QED
  BY <1>1, <1>4

(* The sum of f and g is the sum of f plus that of g.                    *)
LEMMA SumPlus ==
    ASSUME NEW S, IsFiniteSet(S), NEW f \in [S -> Int], NEW g \in [S -> Int]
    PROVE  SumFunctionOnSet([x \in S |-> f[x] + g[x]], S)
             = SumFunctionOnSet(f, S) + SumFunctionOnSet(g, S)
<1> DEFINE h == [x \in S |-> f[x] + g[x]]
<1>1. h \in [S -> Int] /\ \A x \in S : h[x] = f[x] + g[x]
  OBVIOUS
<1> HIDE DEF h
<1>2. PICK sf : SumRule(sf, f, S) /\ SumFunctionOnSet(f, S) = sf[S]
  BY SumIs
<1>3. PICK sg : SumRule(sg, g, S) /\ SumFunctionOnSet(g, S) = sg[S]
  BY SumIs
<1>4. PICK sh : SumRule(sh, h, S) /\ SumFunctionOnSet(h, S) = sh[S]
  BY <1>1, SumIs
<1> DEFINE P == {T \in SUBSET S : sf[T] \in Int /\ sg[T] \in Int /\ sh[T] = sf[T] + sg[T]}
<1>5. {} \in P
  <2>1. sf[{}] = 0
    BY <1>2 DEF SumRule, SumAt
  <2>2. sg[{}] = 0
    BY <1>3 DEF SumRule, SumAt
  <2>3. sh[{}] = 0
    BY <1>4 DEF SumRule, SumAt
  <2> QED
    BY <2>1, <2>2, <2>3
<1>6. ASSUME NEW T \in SUBSET S, T # {}, \A x \in T : T \ {x} \in P PROVE T \in P
  <2>1. Pick(T) \in S /\ T \ {Pick(T)} \in P
    BY <1>6, Picked
  <2>2. sf[T] = f[Pick(T)] + sf[T \ {Pick(T)}]
    BY <1>2, <1>6 DEF SumRule, SumAt
  <2>3. sg[T] = g[Pick(T)] + sg[T \ {Pick(T)}]
    BY <1>3, <1>6 DEF SumRule, SumAt
  <2>4. sh[T] = h[Pick(T)] + sh[T \ {Pick(T)}]
    BY <1>4, <1>6 DEF SumRule, SumAt
  <2> QED
    BY <1>1, <2>1, <2>2, <2>3, <2>4
<1>7. S \in P
  <2> HIDE DEF P
  <2> QED
    BY <1>5, <1>6, FiniteInduct
<1> QED
  BY <1>2, <1>3, <1>4, <1>7 DEF h

(* The sum of a function that is 0 but at one place.                     *)
LEMMA SumPoint ==
    ASSUME NEW S, IsFiniteSet(S), NEW u, NEW a \in Int
    PROVE  SumFunctionOnSet([x \in S |-> IF x = u THEN a ELSE 0], S)
             = IF u \in S THEN a ELSE 0
<1> DEFINE f == [x \in S |-> IF x = u THEN a ELSE 0]
<1>1. f \in [S -> Int] /\ \A x \in S : f[x] = IF x = u THEN a ELSE 0
  OBVIOUS
<1> HIDE DEF f
<1>2. PICK g : SumRule(g, f, S) /\ SumFunctionOnSet(f, S) = g[S]
  BY <1>1, SumIs
<1> DEFINE P == {T \in SUBSET S : g[T] = IF u \in T THEN a ELSE 0}
<1>3. {} \in P
  <2>1. g[{}] = 0
    BY <1>2 DEF SumRule, SumAt
  <2> QED
    BY <2>1
<1>4. ASSUME NEW T \in SUBSET S, T # {}, \A x \in T : T \ {x} \in P PROVE T \in P
  <2>1. Pick(T) \in T /\ Pick(T) \in S /\ T \ {Pick(T)} \in P
    BY <1>4, Picked
  <2>2. g[T] = f[Pick(T)] + g[T \ {Pick(T)}]
    BY <1>2, <1>4 DEF SumRule, SumAt
  <2>3. g[T \ {Pick(T)}] = IF u \in T \ {Pick(T)} THEN a ELSE 0
    BY <2>1
  <2> QED
    BY <1>1, <2>1, <2>2, <2>3
<1>5. S \in P
  <2> HIDE DEF P
  <2> QED
    BY <1>3, <1>4, FiniteInduct
<1> QED
  BY <1>2, <1>5 DEF f
=============================================================================
