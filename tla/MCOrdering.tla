------------------------------ MODULE MCOrdering ------------------------------
(***************************************************************************)
(* Instances of Ordering for TLC.                                          *)
(***************************************************************************)
EXTENDS Ordering, TLC

CONSTANTS p1, p2, s1, s2

\* Each shop sells one product.
TwoShops == p1 :> s1 @@ p2 :> s2
OneShop == p1 :> s1

Symmetry ==
    Permutations(Calls) \cup Permutations(ItemIds) \cup Permutations(Addresses)
    \cup Permutations(OrderIds)

=============================================================================
