------------------------------ MODULE Extremes ------------------------------
(***************************************************************************)
(* Least and greatest elements of sets of numbers, which the proofs about  *)
(* logs need wherever a model looks for the last operation of some kind.   *)
(* That the natural numbers are well-founded takes the place of induction. *)
(***************************************************************************)
EXTENDS Integers, FiniteSetsExt, FiniteSetTheorems, TLAPS

LEMMA LeastOne ==
  ASSUME NEW T, T \subseteq Nat, T # {}
  PROVE  \E x \in T : \A y \in T : x <= y
<1> DEFINE R == OpToRel(<, Nat)
<1>1. IsWellFoundedOn(R, Nat)
  BY NatLessThanWellFounded
<1>2. \E x \in T : \A y \in T : ~ (<<y, x>> \in R)
  <2> HIDE DEF R
  <2> QED BY <1>1, WFMin
<1>3. ASSUME NEW x \in Nat, NEW y \in Nat, y < x PROVE <<y, x>> \in R
  BY <1>3 DEF OpToRel
<1> HIDE DEF R
<1>4. PICK x \in T : \A y \in T : ~ (<<y, x>> \in R)
  BY <1>2
<1>5. ASSUME NEW y \in T PROVE x <= y
  <2>1. x \in Nat /\ y \in Nat
    OBVIOUS
  <2>2. ~ (y < x)
    <3>1. SUFFICES ASSUME y < x PROVE FALSE
      OBVIOUS
    <3>2. <<y, x>> \in R
      BY <1>3, <2>1, <3>1
    <3> QED BY <3>2, <1>4
  <2> QED BY <2>1, <2>2
<1> QED BY <1>5

LEMMA GreatestOne ==
  ASSUME NEW n \in Int, NEW T, T \subseteq Int, T # {}, \A x \in T : x <= n
  PROVE  Max(T) \in T /\ \A y \in T : y <= Max(T)
<1> DEFINE U == {n - x : x \in T}
<1>1. U \subseteq Nat
  OBVIOUS
<1>2. U # {}
  OBVIOUS
<1>3. PICK u \in U : \A v \in U : u <= v
  <2> HIDE DEF U
  <2> QED BY <1>1, <1>2, LeastOne
<1>4. PICK x \in T : u = n - x
  BY <1>3
<1>5. \A y \in T : u <= n - y
  BY <1>3
<1>6. \E z \in T : \A y \in T : z >= y
  BY <1>4, <1>5
<1>7. Max(T) \in T /\ \A y \in T : Max(T) >= y
  BY <1>6 DEF Max
<1> QED BY <1>7

\* The greatest element is known by being one.
LEMMA GreatestIs ==
  ASSUME NEW T, T \subseteq Int, NEW i \in T, \A x \in T : x <= i
  PROVE  Max(T) = i
<1>1. Max(T) \in T /\ \A y \in T : y <= Max(T)
  BY GreatestOne
<1>2. Max(T) \in Int /\ i \in Int
  BY <1>1
<1>3. Max(T) <= i /\ i <= Max(T)
  BY <1>1
<1> QED BY <1>2, <1>3

\* A finite set of numbers is bounded: where fewest elements are above, none
\* are.
LEMMA FiniteGreatest ==
  ASSUME NEW T, T \subseteq Nat, T # {}, IsFiniteSet(T)
  PROVE  Max(T) \in T /\ \A y \in T : y <= Max(T)
<1> DEFINE Above(x) == {y \in T : y > x}
           K == {Cardinality(Above(x)) : x \in T}
<1>1. ASSUME NEW x PROVE IsFiniteSet(Above(x)) /\ Cardinality(Above(x)) \in Nat
  <2>1. IsFiniteSet(Above(x))
    BY FS_Subset
  <2> HIDE DEF Above
  <2> QED BY <2>1, FS_CardinalityType
<1>2. K \subseteq Nat /\ K # {}
  <2> HIDE DEF Above
  <2> QED BY <1>1
<1>3. PICK k \in K : \A j \in K : k <= j
  <2> HIDE DEF K
  <2> QED BY <1>2, LeastOne
<1>4. PICK x \in T : k = Cardinality(Above(x))
  BY <1>3
<1>5. ASSUME NEW y \in T PROVE y <= x
  <2>0. x \in Nat /\ y \in Nat
    OBVIOUS
  <2>1. SUFFICES ASSUME y > x PROVE FALSE
    BY <2>0
  <2>2. Above(y) \subseteq Above(x) /\ y \in Above(x) /\ y \notin Above(y)
    <3>1. ASSUME NEW z \in T, z > y PROVE z > x
      BY <2>0, <2>1, <3>1
    <3>2. ~ (y > y)
      BY <2>0
    <3> QED BY <2>1, <3>1, <3>2
  <2>3. Cardinality(Above(x)) <= Cardinality(Above(y))
    <3> HIDE DEF Above
    <3> QED BY <1>3, <1>4
  <2>4. Above(y) = Above(x)
    <3> HIDE DEF Above
    <3>1. IsFiniteSet(Above(x))
      BY <1>1
    <3>2. Cardinality(Above(y)) <= Cardinality(Above(x))
      BY <2>2, <3>1, FS_Subset
    <3>3. Cardinality(Above(y)) = Cardinality(Above(x))
      BY <1>1, <2>3, <3>2
    <3> QED BY <2>2, <3>1, <3>3, FS_Subset
  <2> QED BY <2>2, <2>4
<1>6. x \in Int /\ T \subseteq Int
  OBVIOUS
<1> HIDE DEF Above, K
<1> QED BY <1>5, <1>6, GreatestOne
=============================================================================
