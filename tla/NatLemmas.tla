----------------------------- MODULE NatLemmas ------------------------------
(* Facts about numbers that the proofs of several components use. *)
EXTENDS Naturals, Integers, WellFoundedInduction, TLAPS

(* Every set of naturals that is not empty has a least element: the first  *)
(* branch of a search, the first free id.                                  *)
LEMMA LeastNat ==
    ASSUME NEW S \in SUBSET Nat, S # {}
    PROVE  \E x \in S : \A y \in S : x <= y
<1>. DEFINE R == {ss \in Nat \X Nat : ss[1] < ss[2]}
<1>1. IsWellFoundedOn(R, Nat)
  BY NatLessThanWellFounded DEF OpToRel
<1>. HIDE DEF R
<1>2. PICK x \in S : \A y \in S : <<y, x>> \notin R
  BY <1>1, WFMin
<1>3. \A y \in S : ~(y < x)
  BY <1>2 DEF R
<1>. QED BY <1>3

(* Counting up from a modulo M reaches every value within M steps. *)
LEMMA ModReach ==
    ASSUME NEW M \in Nat, M > 0, NEW a \in 0 .. M - 1, NEW c \in 0 .. M - 1
    PROVE  \E k \in 1 .. M : (a + k) % M = c
<1>1. CASE c > a
  <2>1. c % M = c
    OBVIOUS
  <2>2. a + (c - a) = c /\ c - a \in 1 .. M
    BY <1>1
  <2>. QED BY <2>1, <2>2
<1>2. CASE c <= a
  <2>1. (c + M) % M = c
    OBVIOUS
  <2>2. a + (c + M - a) = c + M /\ c + M - a \in 1 .. M
    BY <1>2
  <2>. QED BY <2>1, <2>2
<1>. QED BY <1>1, <1>2
=============================================================================
