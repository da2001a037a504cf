---------------------------- MODULE SmallestNumber ----------------------------
(* The fact about numbers that the proofs about queues, windows and trees share. *)
EXTENDS Naturals, WellFoundedInduction, TLAPS

\* A set of numbers that is not empty has a smallest member.
LEMMA SmallestExists ==
    ASSUME NEW S \in SUBSET Nat, S # {}
    PROVE  \E m \in S : \A j \in S : m <= j
<1> DEFINE Less == {ss \in Nat \X Nat : ss[1] < ss[2]}
<1>1. IsWellFoundedOn(Less, Nat)
  BY NatLessThanWellFounded, Zenon DEF OpToRel
<1>2. PICK m \in S : \A j \in S : <<j, m>> \notin Less
  <2> HIDE DEF Less
  <2> QED
    BY <1>1, WFMin
<1>3. ASSUME NEW j \in S
      PROVE  m <= j
  <2>1. <<j, m>> \in Nat \X Nat
    OBVIOUS
  <2>2. ~(<<j, m>>[1] < <<j, m>>[2])
    BY <1>2, <2>1, Zenon
  <2> QED
    BY <2>2
<1> QED
  BY <1>3
===============================================================================
