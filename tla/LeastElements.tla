---------------------------- MODULE LeastElements ----------------------------
(***************************************************************************)
(* Smallest and largest elements of sets.  They stand in for induction,    *)
(* which the provers cannot instantiate: a formula that fails somewhere    *)
(* fails at a least place, and holds before it.                            *)
(***************************************************************************)
EXTENDS Integers, FiniteSetsExt, FiniteSetTheorems, WellFoundedInduction, TLAPS

\* A set of numbers that is not empty has a smallest one.
LEMMA SmallestOf ==
  ASSUME NEW T, T \subseteq Nat, T # {}
  PROVE \E n \in T : \A m \in T : n <= m
  <1> DEFINE R == OpToRel(<, Nat)
  <1>1. IsWellFoundedOn(R, Nat)
    BY NatLessThanWellFounded
  <1> HIDE DEF R
  <1>2. PICK n \in T : \A m \in T : ~ (<<m, n>> \in R)
    BY <1>1, WFMin
  <1>3. \A m \in T : ~ (m < n)
    BY <1>2 DEF R, OpToRel
  <1> QED BY <1>3

\* Induction over numbers, for a set: it has them all if it has 0 and with each
\* number the next one.
LEMMA AllNumbers ==
  ASSUME NEW G, 0 \in G, \A n \in Nat : n \in G => n + 1 \in G
  PROVE Nat \subseteq G
  <1> DEFINE Bad == {n \in Nat : n \notin G}
  <1>1. SUFFICES ASSUME Bad # {} PROVE FALSE
    BY <1>1
  <1>2. PICK n \in Bad : \A m \in Bad : n <= m
    BY <1>1, SmallestOf
  <1> DEFINE k == n - 1
  <1>3. k \in Nat /\ n = k + 1 /\ k \notin Bad
    BY <1>2
  <1> QED BY <1>2, <1>3

\* The same up to m.
LEMMA AllUpTo ==
  ASSUME NEW m \in Nat, NEW G, 0 \in G, \A n \in 0..(m - 1) : n \in G => n + 1 \in G
  PROVE 0..m \subseteq G
  <1> DEFINE H == {n \in Nat : n <= m => n \in G}
  <1>1. 0 \in H
    OBVIOUS
  <1>2. ASSUME NEW n \in Nat, n \in H PROVE n + 1 \in H
    <2>1. n + 1 <= m => n \in 0..(m - 1) /\ n \in G
      BY <1>2
    <2> QED BY <2>1
  <1> HIDE DEF H
  <1>3. Nat \subseteq H
    BY <1>1, <1>2, AllNumbers
  <1> QED BY <1>3 DEF H

\* A range without its last number.
LEMMA RangeWithoutLast == \A k \in Nat : (1..(k + 1)) \ {k + 1} = 1..k
  OBVIOUS

\* The largest number of a range.
LEMMA LargestInRange ==
  ASSUME NEW n \in Nat, NEW s \in SUBSET (1..(n + 1)), n + 1 \in s
  PROVE Max(s) = n + 1
  <1>1. \A x \in s : (\A y \in s : x >= y) <=> x = n + 1
    OBVIOUS
  <1> QED BY <1>1 DEF Max

\* Among subsets of a finite set one is minimal.
LEMMA MinimalSubset ==
  ASSUME NEW S, IsFiniteSet(S), NEW Bad, Bad \subseteq SUBSET S, Bad # {}
  PROVE \E m \in Bad : \A t \in Bad : t \subseteq m => t = m
  <1>1. Bad \subseteq FiniteSubsetsOf(S)
    BY FS_FiniteSubsetsOfFinite
  <1>2. PICK m \in Bad : \A t \in Bad : <<t, m>> \notin StrictSubsetOrdering(S)
    <2> HIDE DEF StrictSubsetOrdering, FiniteSubsetsOf
    <2> DEFINE R == StrictSubsetOrdering(S)
              F == FiniteSubsetsOf(S)
    <2>1. IsWellFoundedOn(R, F)
      BY FS_StrictSubsetOrderingWellFounded
    <2>2. Bad \subseteq F
      BY <1>1
    <2> HIDE DEF R, F
    <2>3. \E m \in Bad : \A t \in Bad : ~ (<<t, m>> \in R)
      BY <2>1, <2>2, WFMin
    <2> QED BY <2>3 DEF R
  <1>3. \A t \in Bad : <<t, m>> \in (SUBSET S) \X (SUBSET S)
    OBVIOUS
  <1> QED BY <1>2, <1>3 DEF StrictSubsetOrdering
=============================================================================
