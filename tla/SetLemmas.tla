------------------------------- MODULE SetLemmas -------------------------------
(***************************************************************************)
(* Lemmas about sets of natural numbers and about finite sets that several *)
(* proof modules cite.  Induction is stated about a set of numbers, which   *)
(* makes it a first-order fact: to prove P(n) for all n, take the set of    *)
(* the n that have P.                                                       *)
(***************************************************************************)
EXTENDS Integers, FiniteSets, FiniteSetTheorems, FunctionTheorems, WellFoundedInduction, TLAPS

-----------------------------------------------------------------------------
(* Induction.                                                               *)

\* The order of the natural numbers is a well-founded relation.
LEMMA NatLess == \A x, y \in Nat : <<x, y>> \in OpToRel(<, Nat) <=> x < y
  BY DEF OpToRel

\* The same without naming the relation, for the provers that do not know it.
LEMMA NatLessRelation ==
    \E R : /\ IsWellFoundedOn(R, Nat)
           /\ \A x, y \in Nat : <<x, y>> \in R <=> x < y
  BY NatLess, NatLessThanWellFounded, Zenon

\* A set of natural numbers that is not empty has a least element.
LEMMA LeastNumber ==
    ASSUME NEW T, T \subseteq Nat, T # {}
    PROVE  \E n \in T : \A k \in T : n <= k
<1>1. PICK R : /\ IsWellFoundedOn(R, Nat)
               /\ \A x, y \in Nat : <<x, y>> \in R <=> x < y
  BY NatLessRelation
<1>2. PICK n \in T : \A k \in T : ~(<<k, n>> \in R)
  <2>1. IsWellFoundedOn(R, Nat)
    BY <1>1
  <2> QED
    BY ONLY <2>1, T \subseteq Nat, T # {}, WFMin, Zenon
<1>3. \A k \in T : k \in Nat /\ ~(k < n)
  BY <1>1, <1>2
<1> QED
  BY <1>2, <1>3

\* Mathematical induction: a set with zero and every successor has all numbers.
LEMMA SetInduction ==
    ASSUME NEW S, S \subseteq Nat, 0 \in S, \A n \in S : n + 1 \in S
    PROVE  S = Nat
<1>1. SUFFICES ASSUME Nat \ S # {} PROVE FALSE
  OBVIOUS
<1>2. PICK n \in Nat \ S : \A k \in Nat \ S : n <= k
  BY <1>1, LeastNumber
<1>3. n - 1 \in Nat
  BY <1>2
<1> QED
  BY <1>2, <1>3

-----------------------------------------------------------------------------
(* Counting.                                                                *)

\* A set of positions that is closed downwards is an interval from 1.
LEMMA Prefix ==
    ASSUME NEW L \in Nat, NEW G, G \subseteq 1..L,
           \A i \in G : \A j \in 1..L : j < i => j \in G
    PROVE  /\ IsFiniteSet(G) /\ Cardinality(G) \in 0..L
           /\ G = 1..Cardinality(G)
<1> DEFINE T == (1..(L + 1)) \ G
<1>1. L + 1 \in T /\ T \subseteq Nat
  OBVIOUS
<1>2. PICK m \in T : \A k \in T : m <= k
  BY <1>1, LeastNumber
<1>3. m \in 1..(L + 1) /\ m \notin G
  BY <1>2
<1>4. \A i \in G : i < m
  <2> TAKE i \in G
  <2>1. CASE m = L + 1
    BY <2>1
  <2>2. CASE m \in 1..L
    <3>1. ~(m < i)
      BY <1>3, <2>2
    <3> QED
      BY <3>1, <1>3
  <2> QED
    BY <2>1, <2>2, <1>3
<1>5. \A i \in 1..(m - 1) : i \in G
  BY <1>2, <1>3
<1>6. G = 1..(m - 1)
  <2>1. \A i \in G : i \in 1..(m - 1)
    BY <1>3, <1>4
  <2> QED
    BY <2>1, <1>5
<1>7. IsFiniteSet(G) /\ Cardinality(G) = m - 1
  BY <1>3, <1>6, FS_Interval
<1> QED
  BY <1>3, <1>6, <1>7

\* A one-to-one map preserves the size.
LEMMA SameSize ==
    ASSUME NEW S, NEW T, IsFiniteSet(S), NEW f \in [S -> T],
           \A a, b \in S : f[a] = f[b] => a = b,
           \A t \in T : \E s \in S : f[s] = t
    PROVE  IsFiniteSet(T) /\ Cardinality(T) = Cardinality(S)
<1>1. f \in Surjection(S, T)
  BY Fun_IsSurj
<1>2. f \in Injection(S, T)
  BY Fun_IsInj
<1> QED
  BY <1>1, <1>2, FS_Surjection

\* An injective map into a finite set bounds the size.
LEMMA NotLarger ==
    ASSUME NEW S, NEW T, IsFiniteSet(T), NEW f \in [S -> T],
           \A a, b \in S : f[a] = f[b] => a = b
    PROVE  IsFiniteSet(S) /\ Cardinality(S) <= Cardinality(T)
<1>1. f \in Injection(S, T)
  BY Fun_IsInj
<1> QED
  BY <1>1, FS_Injection

\* The numbers up to n.
LEMMA UpTo == ASSUME NEW n \in Nat PROVE IsFiniteSet(1..n) /\ Cardinality(1..n) = n
<1>1. Cardinality(1..n) = IF 1 > n THEN 0 ELSE n - 1 + 1
  BY FS_Interval
<1>2. IsFiniteSet(1..n)
  BY FS_Interval
<1> QED
  BY <1>1, <1>2

\* Sets that have no element in common.
LEMMA Disjoint ==
    ASSUME NEW S, NEW T, IsFiniteSet(S), IsFiniteSet(T), S \cap T = {}
    PROVE  IsFiniteSet(S \cup T) /\ Cardinality(S \cup T) = Cardinality(S) + Cardinality(T)
<1>1. Cardinality(S \cap T) = 0
  BY FS_EmptySet
<1>2. Cardinality(S) \in Nat /\ Cardinality(T) \in Nat
  BY FS_CardinalityType
<1>3. Cardinality(S \cup T) = Cardinality(S) + Cardinality(T) - Cardinality(S \cap T)
  BY FS_Union
<1>4. IsFiniteSet(S \cup T)
  BY FS_Union
<1> QED
  BY <1>1, <1>2, <1>3, <1>4

\* One copy of B more.
LEMMA Copy ==
    ASSUME NEW x, NEW B, IsFiniteSet(B)
    PROVE  IsFiniteSet({x} \X B) /\ Cardinality({x} \X B) = Cardinality(B)
<1> DEFINE f == [i \in B |-> <<x, i>>]
<1>1. f \in [B -> {x} \X B]
  OBVIOUS
<1>2. \A a, b \in B : f[a] = f[b] => a = b
  OBVIOUS
<1>3. \A t \in {x} \X B : \E s \in B : f[s] = t
  OBVIOUS
<1> HIDE DEF f
<1> QED
  BY <1>1, <1>2, <1>3, SameSize

\* A finite set and n copies of each of its elements.
LEMMA Product ==
    ASSUME NEW n \in Nat, NEW B, IsFiniteSet(B), Cardinality(B) = n
    PROVE  \A A : IsFiniteSet(A) =>
              IsFiniteSet(A \X B) /\ Cardinality(A \X B) = Cardinality(A) * n
<1> DEFINE Good(m) == \A A : IsFiniteSet(A) /\ Cardinality(A) = m =>
                         IsFiniteSet(A \X B) /\ Cardinality(A \X B) = m * n
           S == {m \in Nat : Good(m)}
<1>1. 0 \in S
  <2> SUFFICES ASSUME NEW A, IsFiniteSet(A), Cardinality(A) = 0
               PROVE  IsFiniteSet(A \X B) /\ Cardinality(A \X B) = 0
    OBVIOUS
  <2>1. A = {}
    BY FS_EmptySet
  <2>2. A \X B = {}
    BY <2>1
  <2> QED
    BY <2>2, FS_EmptySet
<1>2. ASSUME NEW m \in S PROVE m + 1 \in S
  <2> SUFFICES ASSUME NEW A, IsFiniteSet(A), Cardinality(A) = m + 1
               PROVE  IsFiniteSet(A \X B) /\ Cardinality(A \X B) = (m + 1) * n
    OBVIOUS
  <2>1. PICK x : x \in A
    BY FS_EmptySet
  <2>2. IsFiniteSet(A \ {x}) /\ Cardinality(A \ {x}) = m
    <3>1. m \in Nat
      BY <1>2
    <3>2. IsFiniteSet(A \ {x}) /\ Cardinality(A \ {x}) = Cardinality(A) - 1
      BY <2>1, FS_RemoveElement
    <3> QED
      BY ONLY <3>1, <3>2, Cardinality(A) = m + 1
  <2>3. IsFiniteSet((A \ {x}) \X B) /\ Cardinality((A \ {x}) \X B) = m * n
    BY <2>2
  <2>4. IsFiniteSet({x} \X B) /\ Cardinality({x} \X B) = n
    BY Copy
  <2>5. A \X B = ((A \ {x}) \X B) \cup ({x} \X B) /\ ((A \ {x}) \X B) \cap ({x} \X B) = {}
    BY <2>1
  <2>6. IsFiniteSet(A \X B) /\ Cardinality(A \X B) = m * n + n
    <3>1. /\ IsFiniteSet(((A \ {x}) \X B) \cup ({x} \X B))
          /\ Cardinality(((A \ {x}) \X B) \cup ({x} \X B)) =
               Cardinality((A \ {x}) \X B) + Cardinality({x} \X B)
      BY <2>3, <2>4, <2>5, Disjoint
    <3> QED
      BY <2>3, <2>4, <2>5, <3>1
  <2>7. (m + 1) * n = m * n + n
    BY <1>2
  <2> QED
    BY <2>6, <2>7
<1>3. S = Nat
  <2> HIDE DEF Good
  <2> QED
    BY <1>1, <1>2, SetInduction
<1> QED
  BY <1>3, FS_CardinalityType

-----------------------------------------------------------------------------
(* Recursion.                                                               *)

\* g is what the recursion computes up to n.
Computes(S, s0, step, n, g) ==
    /\ g \in [0..n -> S] /\ g[0] = s0
    /\ \A i \in 0..(n - 1) : g[i + 1] = step[<<i, g[i]>>]

LEMMA ComputesOne ==
    ASSUME NEW S, NEW s0, NEW step, NEW n \in Nat, NEW g, NEW m \in Nat, NEW h,
           Computes(S, s0, step, n, g), Computes(S, s0, step, m, h)
    PROVE  \A i \in 0..n : i <= m => g[i] = h[i]
<1> DEFINE A == {i \in Nat : i <= n /\ i <= m => g[i] = h[i]}
<1>1. 0 \in A
  BY DEF Computes
<1>2. ASSUME NEW i \in A PROVE i + 1 \in A
  <2> SUFFICES ASSUME i + 1 <= n, i + 1 <= m PROVE g[i + 1] = h[i + 1]
    OBVIOUS
  <2>1. i \in 0..(n - 1) /\ i \in 0..(m - 1) /\ g[i] = h[i]
    OBVIOUS
  <2>2. g[i + 1] = step[<<i, g[i]>>] /\ h[i + 1] = step[<<i, h[i]>>]
    BY <2>1 DEF Computes
  <2> QED
    BY <2>1, <2>2
<1>3. A = Nat
  <2> HIDE DEF A
  <2>1. A \subseteq Nat
    BY DEF A
  <2> QED
    BY <1>1, <1>2, <2>1, SetInduction
<1> QED
  BY <1>3

LEMMA ComputesAll ==
    ASSUME NEW S, NEW s0 \in S, NEW step \in [Nat \X S -> S]
    PROVE  \A n \in Nat : \E g : Computes(S, s0, step, n, g)
<1> DEFINE A == {n \in Nat : \E g : Computes(S, s0, step, n, g)}
<1>1. 0 \in A
  <2>1. Computes(S, s0, step, 0, [i \in 0..0 |-> s0])
    BY DEF Computes
  <2> QED
    BY <2>1
<1>2. ASSUME NEW n \in A PROVE n + 1 \in A
  <2>1. PICK g : Computes(S, s0, step, n, g)
    OBVIOUS
  <2> DEFINE h == [i \in 0..(n + 1) |-> IF i = n + 1 THEN step[<<n, g[n]>>] ELSE g[i]]
  <2>2. n \in Nat /\ g \in [0..n -> S] /\ g[n] \in S
    BY <2>1 DEF Computes
  <2>3. h \in [0..(n + 1) -> S] /\ h[0] = s0
    BY <2>1, <2>2 DEF Computes
  <2>4. ASSUME NEW i \in 0..n PROVE h[i + 1] = step[<<i, h[i]>>]
    <3>1. h[i] = g[i] /\ i \in 0..(n + 1)
      BY <2>2
    <3>2. CASE i = n
      BY <2>2, <3>1, <3>2
    <3>3. CASE i # n
      <4>1. i \in 0..(n - 1) /\ i + 1 # n + 1 /\ i + 1 \in 0..(n + 1)
        BY <2>2, <3>3
      <4>2. h[i + 1] = g[i + 1]
        BY <4>1
      <4> QED
        BY <2>1, <3>1, <4>1, <4>2 DEF Computes
    <3> QED
      BY <3>2, <3>3
  <2>5. n + 1 - 1 = n
    BY <2>2
  <2> HIDE DEF h
  <2>6. Computes(S, s0, step, n + 1, h)
    BY <2>3, <2>4, <2>5 DEF Computes
  <2> QED
    BY <2>2, <2>6
<1>3. A = Nat
  <2> HIDE DEF A
  <2>1. A \subseteq Nat
    BY DEF A
  <2> QED
    BY <1>1, <1>2, <2>1, SetInduction
<1> QED
  BY <1>3

\* f is defined by a value for zero and a step from each number to the next.
Recursive(S, s0, step, f) ==
    f \in [Nat -> S] /\ f[0] = s0 /\ \A n \in Nat : f[n + 1] = step[<<n, f[n]>>]

LEMMA Recursion ==
    ASSUME NEW S, NEW s0 \in S, NEW step \in [Nat \X S -> S]
    PROVE  \E f : Recursive(S, s0, step, f)
<1> DEFINE G(n) == CHOOSE g : Computes(S, s0, step, n, g)
           f == [n \in Nat |-> G(n)[n]]
<1>1. \A n \in Nat : Computes(S, s0, step, n, G(n))
  BY ComputesAll
<1> HIDE DEF G
<1>2. f \in [Nat -> S] /\ f[0] = s0
  BY <1>1 DEF Computes
<1>3. ASSUME NEW n \in Nat PROVE f[n + 1] = step[<<n, f[n]>>]
  <2>1. n + 1 \in Nat /\ n \in 0..(n + 1 - 1) /\ n \in 0..n /\ n <= n + 1
    OBVIOUS
  <2>2. G(n + 1)[n + 1] = step[<<n, G(n + 1)[n]>>]
    BY <1>1, <2>1 DEF Computes
  <2>3. G(n)[n] = G(n + 1)[n]
    BY <1>1, <2>1, ComputesOne
  <2> QED
    BY <2>1, <2>2, <2>3
<1> QED
  BY <1>2, <1>3 DEF Recursive
=============================================================================
