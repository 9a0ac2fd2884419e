------------------------------ MODULE NumberFacts ------------------------------
(***************************************************************************)
(* Least and greatest elements of sets of natural numbers, for the proofs  *)
(* about code that picks the lowest, the highest or the latest of a set.   *)
(* The induction theorems of the library take an operator, which the       *)
(* provers cannot instantiate; that Nat is well-founded is enough.         *)
(***************************************************************************)
EXTENDS Naturals, FiniteSets, FiniteSetsExt, FiniteSetTheorems, WellFoundedInduction, TLAPS

LEMMA LeastExists ==
    ASSUME NEW S \in SUBSET Nat, S # {}
    PROVE  \E m \in S : \A x \in S : m <= x
<1>1. PICK m \in S : \A x \in S : ~ (<<x, m>> \in OpToRel(<, Nat))
  BY NatLessThanWellFounded, WFMin
<1>2. \A x \in S : ~ (x < m)
  BY <1>1 DEF OpToRel
<1> QED
  BY <1>2

LEMMA MinIsLeast ==
    ASSUME NEW S \in SUBSET Nat, S # {}
    PROVE  Min(S) \in S /\ \A x \in S : Min(S) <= x
BY LeastExists DEF Min

\* A smallest finite set without a greatest element could spare one of its elements.
LEMMA GreatestExists ==
    ASSUME NEW S \in SUBSET Nat, IsFiniteSet(S), S # {}
    PROVE  \E m \in S : \A x \in S : x <= m
<1> DEFINE Topless(T) == T # {} /\ IsFiniteSet(T) /\ \A m \in T : \E x \in T : ~ (x <= m)
           Sizes == {n \in Nat : \E T \in SUBSET Nat : Topless(T) /\ Cardinality(T) = n}
<1>1. SUFFICES ASSUME Topless(S) PROVE FALSE
  OBVIOUS
<1>2. Cardinality(S) \in Sizes
  BY <1>1, FS_CardinalityType
<1>3. PICK n \in Sizes : \A k \in Sizes : n <= k
  <2>1. Sizes \in SUBSET Nat /\ Sizes # {}
    BY <1>2
  <2> HIDE DEF Sizes
  <2> QED
    BY <2>1, LeastExists
<1>4. PICK T \in SUBSET Nat : Topless(T) /\ Cardinality(T) = n
  OBVIOUS
<1>5. PICK t \in T : TRUE
  BY <1>4
<1> DEFINE R == T \ {t}
<1>6. IsFiniteSet(R) /\ Cardinality(R) \in Nat /\ Cardinality(R) < n
  <2>1. IsFiniteSet(T) /\ Cardinality(T) = n /\ n \in Nat
    BY <1>4
  <2>2. IsFiniteSet(R) /\ Cardinality(R) = n - 1
    BY <2>1, <1>5, FS_RemoveElement
  <2>3. Cardinality(R) \in Nat
    BY <2>2, FS_CardinalityType
  <2> HIDE DEF R, Sizes, Topless
  <2> QED
    BY <2>1, <2>2, <2>3
<1>7. R # {}
  BY <1>4
<1>8. ~Topless(R)
  BY <1>3, <1>6
<1>9. PICK m \in R : \A x \in R : x <= m
  BY <1>6, <1>7, <1>8
<1>10. CASE t <= m
  BY <1>4, <1>9, <1>10
<1>11. CASE ~ (t <= m)
  <2>1. \A x \in T : x <= t
    BY <1>9, <1>11
  <2> QED
    BY <1>4, <2>1
<1> QED
  BY <1>10, <1>11

LEMMA MaxIsGreatest ==
    ASSUME NEW S \in SUBSET Nat, IsFiniteSet(S), S # {}
    PROVE  Max(S) \in S /\ \A x \in S : x <= Max(S)
BY GreatestExists DEF Max

=============================================================================
