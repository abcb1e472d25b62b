------------------------------ MODULE Numbers ------------------------------
(***************************************************************************)
(* Induction as a fact about sets, of numbers and of finite sets, for the  *)
(* proofs that go along a sequence, down a rank, or through a finite set.  *)
(***************************************************************************)
EXTENDS Integers, WellFoundedInduction, FiniteSetTheorems, TLAPS

Below == {p \in Nat \X Nat : p[1] < p[2]}

LEMMA BelowWellFounded == IsWellFoundedOn(Below, Nat)
<1>1. OpToRel(<, Nat) = Below
  BY Zenon DEF OpToRel, Below
<1>2. QED
  BY <1>1, NatLessThanWellFounded, Zenon

(* A set of numbers has a least one. *)
LEMMA LeastNumber ==
  ASSUME NEW T \in SUBSET Nat, T # {}
  PROVE  \E x \in T : \A y \in T : x <= y
<1>1. PICK x \in T : \A y \in T : ~(<<y, x>> \in Below)
  BY BelowWellFounded, WFMin
<1>2. ASSUME NEW y \in T PROVE x <= y
  <2>1. y \in Nat /\ x \in Nat /\ ~(<<y, x>> \in Below)
    BY <1>1
  <2>2. ~(y < x)
    BY <2>1 DEF Below
  <2>3. QED
    BY <2>1, <2>2
<1>3. QED
  BY <1>2

(* A set that holds zero, and the next number of each it holds, holds all. *)
LEMMA AllNumbers ==
  ASSUME NEW S \in SUBSET Nat, 0 \in S, \A n \in Nat : n \in S => n + 1 \in S
  PROVE  S = Nat
<1>1. SUFFICES ASSUME Nat \ S # {} PROVE FALSE
  OBVIOUS
<1>2. PICK m \in Nat \ S : \A y \in Nat \ S : m <= y
  BY <1>1, LeastNumber
<1>3. m - 1 \in Nat /\ ~(m <= m - 1) /\ (m - 1) + 1 = m
  BY <1>2
<1>4. m - 1 \in S
  BY <1>2, <1>3
<1>5. QED
  BY <1>2, <1>3, <1>4

(* A family of subsets that holds the empty one, and one more with each it *)
(* holds, holds a finite set itself.                                       *)
LEMMA AllElements ==
  ASSUME NEW X, IsFiniteSet(X), NEW S, {} \in S,
         \A T \in SUBSET X : \A x \in X \ T : T \in S => T \union {x} \in S
  PROVE  X \in S
<1> DEFINE Small(n) == \A T \in SUBSET X : Cardinality(T) = n => T \in S
           N == {n \in Nat : Small(n)}
<1>1. 0 \in N
  BY FS_Subset, FS_EmptySet
<1>2. ASSUME NEW n \in Nat, n \in N PROVE n + 1 \in N
  <2>1. ASSUME NEW T \in SUBSET X, Cardinality(T) = n + 1 PROVE T \in S
    <3>1. IsFiniteSet(T) /\ T # {}
      BY <1>2, <2>1, FS_Subset, FS_EmptySet
    <3>2. PICK x \in T : TRUE
      BY <3>1
    <3>3. Cardinality(T \ {x}) = n
      <4>1. Cardinality(T \ {x}) = Cardinality(T) - 1
        BY <3>1, <3>2, FS_RemoveElement
      <4>2. QED
        BY <2>1, <4>1
    <3>4. T \ {x} \in S
      BY <1>2, <3>3
    <3>5. x \in X \ (T \ {x}) /\ (T \ {x}) \union {x} = T /\ T \ {x} \in SUBSET X
      BY <3>2
    <3>6. QED
      BY <3>4, <3>5
  <2>2. QED
    BY <1>2, <2>1
<1>3. N = Nat
  <2>1. N \in SUBSET Nat
    OBVIOUS
  <2> HIDE DEF N
  <2>2. QED
    BY <1>1, <1>2, <2>1, AllNumbers
<1>4. Cardinality(X) \in N
  BY <1>3, FS_CardinalityType
<1>5. QED
  BY <1>4

=============================================================================
