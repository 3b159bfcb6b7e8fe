----------------------------- MODULE NumberSets -----------------------------
(***************************************************************************)
(* Facts about finite sets of numbers that the proofs share: the least and *)
(* the greatest element, and the element that is the n-th one.             *)
(***************************************************************************)
EXTENDS Integers, FiniteSets, FiniteSetsExt, FiniteSetTheorems, TLAPS

\* A finite set of integers has a least element: of the sets of what is smaller
\* than an element, one has no proper subset among them.
LEMMA FiniteHasMin ==
  ASSUME NEW S \in SUBSET Int, IsFiniteSet(S), S # {}
  PROVE  Min(S) \in S /\ \A y \in S : Min(S) <= y
<1> DEFINE Below(x) == {y \in S : y < x}
           T == {Below(x) : x \in S}
           R == StrictSubsetOrdering(S)
<1>1. IsWellFoundedOn(R, SUBSET S)
  BY FS_StrictSubsetOrderingWellFounded, FS_FiniteSubsetsOfFinite
<1>2. T \subseteq SUBSET S /\ T # {}
  OBVIOUS
<1>3. PICK b \in T : \A a \in T : <<a, b>> \notin R
  <2> HIDE DEF T, R
  <2> QED BY <1>1, <1>2, WFMin
<1>4. PICK x \in S : b = Below(x)
  OBVIOUS
<1>5. \A y \in S : x <= y
  <2> SUFFICES ASSUME NEW y \in S, y < x PROVE FALSE
    OBVIOUS
  <2>0. x \in Int /\ y \in Int /\ y \in Below(x) /\ y \notin Below(y)
    OBVIOUS
  <2>1. Below(y) \subseteq Below(x) /\ Below(y) # Below(x)
    <3>1. \A z \in S : z < y => z < x
      BY <2>0
    <3> QED BY <3>1, <2>0
  <2>2. <<Below(y), Below(x)>> \in R
    BY <2>1 DEF StrictSubsetOrdering
  <2> QED BY <2>2, <1>3, <1>4
<1> QED BY <1>5 DEF Min

\* A finite set of integers has a greatest element.
LEMMA FiniteHasMax ==
  ASSUME NEW S \in SUBSET Int, IsFiniteSet(S), S # {}
  PROVE  Max(S) \in S /\ \A y \in S : y <= Max(S)
<1> DEFINE N == {0 - x : x \in S}
           f == [x \in S |-> 0 - x]
<1>1. IsFiniteSet(N)
  <2>1. f \in Surjection(S, N)
    BY DEF Surjection
  <2> QED BY <2>1, FS_Surjection
<1>2. N \in SUBSET Int /\ N # {}
  <2>1. \A x \in S : 0 - x \in Int
    OBVIOUS
  <2>2. PICK x \in S : TRUE
    OBVIOUS
  <2>3. 0 - x \in N
    OBVIOUS
  <2> QED BY <2>1, <2>3
<1>3. Min(N) \in N /\ \A y \in N : Min(N) <= y
  BY <1>1, <1>2, FiniteHasMin
<1>4. PICK x \in S : \A y \in N : 0 - x <= y
  BY <1>3
<1>5. \A y \in S : y <= x
  BY <1>4
<1> QED BY <1>5 DEF Max

\* There are n numbers from 1 to n.
LEMMA FirstNumbers ==
  ASSUME NEW n \in Nat
  PROVE  IsFiniteSet(1 .. n) /\ Cardinality(1 .. n) = n
<1>1. 1 \in Int /\ n \in Int /\ n - 1 + 1 = n
  OBVIOUS
<1>2. IsFiniteSet(1 .. n) /\ Cardinality(1 .. n) = IF 1 > n THEN 0 ELSE n - 1 + 1
  BY <1>1, FS_Interval
<1> QED BY <1>1, <1>2

\* The part of a set up to a number.
Upto(S, k) == {y \in S : y <= k}

\* What is not above one of some numbers is a part of them.
LEMMA UptoFacts ==
  ASSUME NEW S \in SUBSET Int, IsFiniteSet(S), NEW k \in Int
  PROVE  /\ IsFiniteSet(Upto(S, k)) /\ Upto(S, k) \in SUBSET S
         /\ Cardinality(Upto(S, k)) \in Nat /\ Cardinality(Upto(S, k)) <= Cardinality(S)
<1>1. Upto(S, k) \in SUBSET S
  BY DEF Upto
<1>2. IsFiniteSet(Upto(S, k)) /\ Cardinality(Upto(S, k)) <= Cardinality(S)
  BY <1>1, FS_Subset
<1> QED BY <1>1, <1>2, FS_CardinalityType

\* Each number of elements is reached at one of them: at the least one that has as many
\* below it, as without that one only those of the next lower one would be left.
LEMMA CountReaches ==
  ASSUME NEW S \in SUBSET Int, IsFiniteSet(S), NEW j \in Nat \ {0}, j <= Cardinality(S)
  PROVE  \E k \in S : Cardinality(Upto(S, k)) = j
<1> DEFINE T == {k \in S : j <= Cardinality(Upto(S, k))}
<1>0. Cardinality(S) \in Nat
  BY FS_CardinalityType
<1>1. S # {}
  <2>1. Cardinality({}) = 0
    BY FS_EmptySet
  <2> QED BY <2>1
<1>2. Max(S) \in S /\ \A y \in S : y <= Max(S)
  BY <1>1, FiniteHasMax
<1>3. Max(S) \in T
  <2>1. Upto(S, Max(S)) = S
    BY <1>2 DEF Upto
  <2> QED BY <1>2, <2>1
<1>4. T \in SUBSET Int /\ IsFiniteSet(T) /\ T # {}
  <2>1. T \in SUBSET S
    OBVIOUS
  <2> HIDE DEF T
  <2>2. IsFiniteSet(T)
    BY <2>1, FS_Subset
  <2> QED BY <1>3, <2>1, <2>2
<1>5. \A x \in T : x \in S /\ j <= Cardinality(Upto(S, x))
  OBVIOUS
<1>6. \A x \in S : j <= Cardinality(Upto(S, x)) => x \in T
  OBVIOUS
<1> HIDE DEF T
<1>7. PICK k \in T : \A y \in T : k <= y
  BY <1>4, FiniteHasMin
<1>8. k \in S /\ k \in Int /\ j <= Cardinality(Upto(S, k))
  BY <1>5, <1>7
<1>9. ASSUME Cardinality(Upto(S, k)) # j PROVE FALSE
  <2> DEFINE B == Upto(S, k) \ {k}
  <2>1. k \in Upto(S, k) /\ Upto(S, k) \in SUBSET Int
    <3>1. k <= k
      BY <1>8
    <3>2. Upto(S, k) \in SUBSET S
      BY DEF Upto
    <3> QED BY <1>8, <3>1, <3>2 DEF Upto
  <2>2. IsFiniteSet(Upto(S, k)) /\ Cardinality(Upto(S, k)) \in Nat
    BY <1>8, UptoFacts
  <2>3. IsFiniteSet(B) /\ Cardinality(B) = Cardinality(Upto(S, k)) - 1
    BY <2>1, <2>2, FS_RemoveElement
  <2>4. Cardinality(B) \in Nat /\ j <= Cardinality(B)
    BY <1>8, <1>9, <2>2, <2>3
  <2>5. B # {}
    <3>1. Cardinality({}) = 0
      BY FS_EmptySet
    <3> HIDE DEF B
    <3> QED BY <2>4, <3>1
  <2>6. B \in SUBSET Int
    BY <2>1
  <2>7. \A y \in B : y \in S /\ y <= k /\ y # k
    BY DEF Upto
  <2>8. \A y \in S : y <= k /\ y # k => y \in B
    BY DEF Upto
  <2> HIDE DEF B
  <2>9. PICK m \in B : \A y \in B : y <= m
    BY <2>3, <2>5, <2>6, FiniteHasMax
  <2>10. m \in S /\ m < k /\ m \in Int
    BY <1>8, <2>6, <2>7, <2>9
  <2>11. Upto(S, m) = B
    <3>1. ASSUME NEW y \in S, y <= m PROVE y \in B
      BY <1>8, <2>8, <2>10, <3>1
    <3>2. ASSUME NEW y \in B PROVE y \in S /\ y <= m
      BY <2>7, <2>9
    <3> QED BY <3>1, <3>2 DEF Upto
  <2>12. m \in T
    BY <1>6, <2>4, <2>10, <2>11
  <2> QED BY <1>7, <1>8, <2>10, <2>12
<1> QED BY <1>8, <1>9
=============================================================================
