----------------------------- MODULE KeyedOrders -----------------------------
(***************************************************************************)
(* What placing an order promises a customer who repeats requests: a key   *)
(* gets one order, an order is one shop's, and what was placed stays as it *)
(* was placed.                                                             *)
(***************************************************************************)
CONSTANTS OrderIds, Keys, Addresses, Shops, Products, ShopOf, Quantities, NoOrder

VARIABLE placed

Orders == [key : Keys, address : Addresses, shop : Shops,
           lines : SUBSET [product : Products, quantity : Quantities]]

\* An order of one shop, with something in it and a product on one line only.
WellFormed(order) ==
    /\ order.lines # {}
    /\ \A x \in order.lines : ShopOf[x.product] = order.shop
    /\ \A x, y \in order.lines : x.product = y.product => x = y

Init == placed = [id \in OrderIds |-> NoOrder]

Place(id, order) ==
    /\ placed[id] = NoOrder
    /\ \A other \in OrderIds : placed[other] # NoOrder => placed[other].key # order.key
    /\ WellFormed(order)
    /\ placed' = [placed EXCEPT ![id] = order]

Next == \E id \in OrderIds, order \in Orders : Place(id, order)

Spec == Init /\ [][Next]_placed

=============================================================================
