------------------------- MODULE OrderStateMachine -------------------------
(***************************************************************************)
(* The tables of orders.state-machine.ts: the statuses of an order, the    *)
(* transitions validateTransition admits and the statuses from which a     *)
(* customer may cancel.  Every module that moves an order uses them.       *)
(***************************************************************************)

OrderStatus ==
    {"CREATED", "PAYMENT_PENDING", "PLACED", "SHOP_ACCEPTED", "PREPARING",
     "READY_FOR_PICKUP", "RIDER_ASSIGNED", "RIDER_ACCEPTED", "PICKED_UP",
     "OUT_FOR_DELIVERY", "ARRIVING", "DELIVERED", "PAYMENT_FAILED", "REJECTED",
     "CANCELLED", "DELIVERY_FAILED", "REFUNDED", "DISPUTED"}

\* OrderStateMachine.validTransitions, as the set of its pairs.
ValidTransitions ==
    {<<"CREATED", "PAYMENT_PENDING">>, <<"CREATED", "CANCELLED">>,
     <<"PAYMENT_PENDING", "PLACED">>, <<"PAYMENT_PENDING", "PAYMENT_FAILED">>,
     <<"PAYMENT_PENDING", "CANCELLED">>,
     <<"PLACED", "SHOP_ACCEPTED">>, <<"PLACED", "REJECTED">>,
     <<"PLACED", "CANCELLED">>,
     <<"SHOP_ACCEPTED", "PREPARING">>, <<"SHOP_ACCEPTED", "CANCELLED">>,
     <<"PREPARING", "READY_FOR_PICKUP">>,
     <<"READY_FOR_PICKUP", "RIDER_ASSIGNED">>,
     <<"RIDER_ASSIGNED", "RIDER_ACCEPTED">>, <<"RIDER_ACCEPTED", "PICKED_UP">>,
     <<"PICKED_UP", "OUT_FOR_DELIVERY">>, <<"OUT_FOR_DELIVERY", "ARRIVING">>,
     <<"ARRIVING", "DELIVERED">>, <<"ARRIVING", "DELIVERY_FAILED">>,
     <<"DELIVERED", "DISPUTED">>, <<"CANCELLED", "REFUNDED">>,
     <<"DELIVERY_FAILED", "REFUNDED">>, <<"DISPUTED", "REFUNDED">>}

ValidTransition(from, to) == <<from, to>> \in ValidTransitions

\* OrderStateMachine.CUSTOMER_CANCELLABLE_STATES.
CustomerCancellable == {"CREATED", "PAYMENT_PENDING", "PLACED", "SHOP_ACCEPTED"}

\* The statuses of an order that the shop and the riders work on.
InFulfilment ==
    {"PLACED", "SHOP_ACCEPTED", "PREPARING", "READY_FOR_PICKUP",
     "RIDER_ASSIGNED", "RIDER_ACCEPTED", "PICKED_UP", "OUT_FOR_DELIVERY",
     "ARRIVING", "DELIVERED"}

=============================================================================
