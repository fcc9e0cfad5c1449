----------------------------- MODULE NatLemmas -----------------------------
(* Facts about the natural numbers that the proofs of several modules use. *)
EXTENDS Integers, WellFoundedInduction, TLAPS

\* Every nonempty set of naturals has a least element.
LEMMA LeastNat ==
    ASSUME NEW T \in SUBSET Nat, T # {}
    PROVE  \E x \in T : \A y \in T : x <= y
  <1> DEFINE R == OpToRel(<, Nat)
  <1>1. IsWellFoundedOn(R, Nat)
    BY NatLessThanWellFounded
  <1> HIDE DEF R
  <1>2. PICK x \in T : \A y \in T : <<y, x>> \notin R
    BY <1>1, WFMin
  <1>3. \A y \in T : ~ (y < x)
    BY <1>2 DEF R, OpToRel
  <1>4. \A y \in T : x <= y
    BY <1>3
  <1> QED
    BY <1>4

\* What holds of 0 and is handed from i - 1 to i holds up to n.
LEMMA UpTo ==
    ASSUME NEW n \in Nat, NEW T, 0 \in T, \A i \in 1..n : i - 1 \in T => i \in T
    PROVE  \A i \in 0..n : i \in T
  <1> SUFFICES ASSUME NEW j \in 0..n, j \notin T PROVE FALSE
    OBVIOUS
  <1> DEFINE bad == {i \in 0..n : i \notin T}
  <1>1. bad \in SUBSET Nat /\ bad # {}
    OBVIOUS
  <1> HIDE DEF bad
  <1>2. PICK x \in bad : \A y \in bad : x <= y
    BY <1>1, LeastNat
  <1>3. x \in 1..n /\ x - 1 \notin bad
    BY <1>2 DEF bad
  <1> QED
    BY <1>3 DEF bad
=============================================================================
