------------------------------ MODULE Minimum ------------------------------
(***************************************************************************)
(* A fact about the community modules' Min that the proofs share.          *)
(***************************************************************************)
EXTENDS Integers, FiniteSetsExt, WellFoundedInduction, TLAPS

\* The minimum of a non-empty set of naturals is one of its members (the lowest
\* free port of allocateRow, the oldest row of RepairOnce).
LEMMA MinMember ==
  ASSUME NEW S, S \subseteq Nat, S # {}
  PROVE  Min(S) \in S
<1> DEFINE R == {ss \in Nat \X Nat : ss[1] < ss[2]}
<1>1. IsWellFoundedOn(R, Nat)
  BY NatLessThanWellFounded DEF OpToRel
<1>2. \E x \in S : \A y \in S : ~ (<<y, x>> \in R)
  <2> HIDE DEF R
  <2> QED
    BY <1>1, WFMin
<1>3. PICK x \in S : \A y \in S : ~ (<<y, x>> \in R)
  BY <1>2
<1>4. \A a, b \in Nat : a < b => <<a, b>> \in R
  OBVIOUS
<1>5. \A y \in S : x =< y
  <2>1. TAKE y \in S
  <2>2. x \in Nat /\ y \in Nat
    OBVIOUS
  <2>3. ~(y < x)
    <3> HIDE DEF R
    <3> QED
      BY <1>3, <1>4, <2>2, Zenon
  <2> QED
    BY <2>2, <2>3
<1> QED
  BY <1>5 DEF Min
=============================================================================
