----------------------------- MODULE LeastNumber ----------------------------
(***************************************************************************)
(* Every set of natural numbers has a least one: what the models choose as *)
(* the first place where something is found exists.                        *)
(***************************************************************************)
EXTENDS Integers, WellFoundedInduction, TLAPS

\* The order of the numbers is well-founded.
LEMMA NatOrder ==
  \E R : /\ IsWellFoundedOn(R, Nat)
         /\ \A y, z \in Nat : <<y, z>> \notin R => z <= y
PROOF
<1>1. IsWellFoundedOn(OpToRel(<, Nat), Nat)
  BY NatLessThanWellFounded
<1>2. \A y, z \in Nat : <<y, z>> \notin OpToRel(<, Nat) => z <= y
  BY DEF OpToRel
<1> QED BY <1>1, <1>2, Zenon

\* The least number of a set.
LEMMA LeastExists ==
  ASSUME NEW S \in SUBSET Nat, S # {}
  PROVE  \E n \in S : \A m \in S : n <= m
PROOF
<1>1. PICK R : /\ IsWellFoundedOn(R, Nat)
               /\ \A y, z \in Nat : <<y, z>> \notin R => z <= y
  BY NatOrder
<1>2. PICK x \in S : \A y \in S : ~ (<<y, x>> \in R)
  BY <1>1, WFMin
<1> QED BY <1>1, <1>2
=============================================================================
