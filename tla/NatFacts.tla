------------------------------- MODULE NatFacts -------------------------------
(***************************************************************************)
(* Facts about the naturals that the proofs of several components use.    *)
(* The least element is obtained from the well-foundedness of < on Nat,   *)
(* since the induction rules that take a predicate parameter cannot be    *)
(* instantiated by the provers.                                            *)
(***************************************************************************)
EXTENDS Naturals, FiniteSetsExt, WellFoundedInduction, TLAPS

(* Every non-empty set of naturals has a least element (FiniteSetsExt's    *)
(* Min picks it).  Proofs use it for the first index at which something   *)
(* happens: the first differing tuple element, the first matching source. *)
LEMMA LeastNat ==
    ASSUME NEW d \in SUBSET Nat, d # {}
    PROVE  /\ Min(d) \in d
           /\ \A k \in d : Min(d) <= k
<1>1. PICK x \in d : \A y \in d : ~(<<y, x>> \in OpToRel(<, Nat))
  BY NatLessThanWellFounded, WFMin
<1>2. \A y \in d : y < x => <<y, x>> \in OpToRel(<, Nat)
  BY Zenon DEF OpToRel
<1>3. \A y \in d : ~(y < x)
  BY <1>1, <1>2, Zenon
<1>4. \E m \in d : \A k \in d : m <= k
  BY <1>3
<1> QED
  BY <1>4 DEF Min
=============================================================================
