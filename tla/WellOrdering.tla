---------------------------- MODULE WellOrdering ----------------------------
(* Minimum and maximum of sets of naturals, the form of induction the other    *)
(* proof modules use.                                                          *)
EXTENDS Integers, WellFoundedInduction, TLAPS

\* Every non-empty set of naturals has a least element.
LEMMA NatMin ==
    ASSUME NEW T \in SUBSET Nat, T # {}
    PROVE  \E n \in T : \A m \in T : n <= m
<1> DEFINE R == OpToRel(<, Nat)
<1>1. \E x \in T : \A y \in T : ~(<<y, x>> \in R)
  <2>1. IsWellFoundedOn(R, Nat)
    BY NatLessThanWellFounded
  <2> HIDE DEF R
  <2>2. QED BY <2>1, WFMin
<1>2. \A x, y \in Nat : <<y, x>> \in R <=> y < x
  BY DEF OpToRel
<1> HIDE DEF R
<1>3. PICK x \in T : \A y \in T : ~(<<y, x>> \in R)
  BY <1>1
<1>4. \A y \in T : ~(y < x)
  <2> TAKE y \in T
  <2>1. x \in Nat /\ y \in Nat
    OBVIOUS
  <2>2. QED BY <1>2, <1>3, <2>1, Zenon
<1>5. QED BY <1>4

\* Every non-empty set of naturals with an upper bound has a greatest element.
LEMMA NatMax ==
    ASSUME NEW T \in SUBSET Nat, T # {}, NEW u \in Nat, \A n \in T : n <= u
    PROVE  \E n \in T : \A m \in T : m <= n
<1> DEFINE C == {m \in Nat : \E n \in T : m = u - n}
<1>1. C \in SUBSET Nat /\ C # {}
  <2>1. PICK n \in T : TRUE
    OBVIOUS
  <2>2. u - n \in C
    BY <2>1
  <2>3. QED BY <2>2
<1>2. \A n \in T : u - n \in C
  OBVIOUS
<1>3. PICK c \in C : \A d \in C : c <= d
  <2> HIDE DEF C
  <2>1. QED BY <1>1, NatMin
<1>4. PICK n \in T : c = u - n
  BY <1>3
<1>5. \A m \in T : u - n <= u - m
  BY <1>2, <1>3, <1>4
<1>6. QED BY <1>5
=============================================================================
