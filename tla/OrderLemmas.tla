---------------------------- MODULE OrderLemmas ----------------------------
(***************************************************************************)
(* Facts about finite sets and their orders that the proofs of several     *)
(* components need: least elements, and the number of elements before one. *)
(***************************************************************************)
EXTENDS Naturals, Integers, FiniteSetTheorems, WellFoundedInduction, FunctionTheorems, TLAPS

\* A set of numbers that is not empty has a least element.
LEMMA LeastNumber ==
    ASSUME NEW T \in SUBSET Nat, T # {}
    PROVE  \E x \in T : \A y \in T : x <= y
  <1> DEFINE R == OpToRel(<, Nat)
  <1>1. IsWellFoundedOn(R, Nat)
    BY NatLessThanWellFounded
  <1>2. \A x, y \in Nat : x < y => <<x, y>> \in R
    BY Zenon DEF OpToRel
  <1> HIDE DEF R
  <1>3. PICK x \in T : \A y \in T : ~(<<y, x>> \in R)
    BY <1>1, WFMin
  <1>4. \A y \in T : ~(y < x)
    BY <1>2, <1>3
  <1>5. QED
    BY <1>4

\* The elements of a finite set, each at the number of those before it.
LEMMA Ranked ==
    ASSUME NEW K, IsFiniteSet(K), NEW R,
           \A x \in K : <<x, x>> \notin R,
           \A x, y \in K : x = y \/ <<x, y>> \in R \/ <<y, x>> \in R,
           \A x, y, z \in K : <<x, y>> \in R /\ <<y, z>> \in R => <<x, z>> \in R
    PROVE  /\ Cardinality(K) \in Nat
           /\ \A x \in K : Cardinality({y \in K : <<y, x>> \in R}) \in 0..(Cardinality(K) - 1)
           /\ \A n \in 0..(Cardinality(K) - 1) : \E x \in K :
                Cardinality({y \in K : <<y, x>> \in R}) = n
           /\ \A x, z \in K : Cardinality({y \in K : <<y, x>> \in R})
                                = Cardinality({y \in K : <<y, z>> \in R}) => x = z
  <1> DEFINE below(x) == {y \in K : <<y, x>> \in R}
             rank == [x \in K |-> Cardinality(below(x))]
             N == Cardinality(K)
  <1>1. N \in Nat
    BY FS_CardinalityType
  <1>2. \A x \in K : IsFiniteSet(below(x)) /\ Cardinality(below(x)) \in Nat
    <2>1. \A x \in K : below(x) \in SUBSET K
      OBVIOUS
    <2>2. QED
      BY <2>1, FS_Subset, FS_CardinalityType
  <1>3. ASSUME NEW x \in K, NEW U \in SUBSET K, below(x) \cup {x} \subseteq U
        PROVE  Cardinality(below(x)) + 1 <= Cardinality(U)
    <2>1. x \notin below(x)
      OBVIOUS
    <2>2. Cardinality(below(x) \cup {x}) = Cardinality(below(x)) + 1
      BY <1>2, <2>1, FS_AddElement
    <2>3. IsFiniteSet(U)
      BY FS_Subset
    <2>4. Cardinality(below(x) \cup {x}) <= Cardinality(U)
      BY <1>3, <2>3, FS_Subset
    <2>5. QED
      BY <2>2, <2>4
  <1>4. ASSUME NEW x \in K PROVE Cardinality(below(x)) \in 0..(N - 1)
    <2>1. Cardinality(below(x)) + 1 <= N
      BY <1>3
    <2>2. QED
      BY <1>1, <1>2, <2>1
  <1>5. ASSUME NEW x \in K, NEW z \in K, <<x, z>> \in R
        PROVE  Cardinality(below(x)) < Cardinality(below(z))
    <2>1. below(x) \cup {x} \subseteq below(z)
      BY <1>5
    <2>2. below(z) \in SUBSET K
      OBVIOUS
    <2>3. Cardinality(below(x)) + 1 <= Cardinality(below(z))
      BY <1>3, <2>1, <2>2
    <2>4. Cardinality(below(x)) \in Nat /\ Cardinality(below(z)) \in Nat
      BY <1>2
    <2> HIDE DEF below
    <2>5. QED
      BY <2>3, <2>4
  <1> HIDE DEF below
  <1>6. ASSUME NEW x \in K, NEW z \in K, Cardinality(below(x)) = Cardinality(below(z))
        PROVE  x = z
    <2>1. <<x, z>> \notin R /\ <<z, x>> \notin R
      BY <1>2, <1>5, <1>6
    <2>2. QED
      BY <2>1
  <1>7. rank \in Injection(K, 0..(N - 1))
    BY <1>4, <1>6 DEF Injection, IsInjective
  <1>8. IsFiniteSet(0..(N - 1)) /\ Cardinality(0..(N - 1)) = N
    <2>1. 0 \in Int /\ N - 1 \in Int /\ (0 > N - 1 => N = 0) /\ (N - 1) - 0 + 1 = N
      BY <1>1
    <2>2. QED
      BY <2>1, FS_Interval
  <1>9. rank \in Surjection(K, 0..(N - 1))
    BY <1>7, <1>8, FS_Injection
  <1>10. \A n \in 0..(N - 1) : \E x \in K : Cardinality(below(x)) = n
    BY <1>9 DEF Surjection
  <1>11. QED
    BY <1>1, <1>4, <1>6, <1>10 DEF below
=============================================================================
