--------------------------- MODULE OrderLifecycle ---------------------------
(***************************************************************************)
(* What the order table promises, whoever writes to it: every order starts *)
(* CREATED and moves only along the transitions of OrderStateMachine.  A   *)
(* cash-on-delivery order takes CREATED -> PAYMENT_PENDING -> PLACED in    *)
(* one transaction (payments.service.ts), so the pair is one step here.    *)
(***************************************************************************)
EXTENDS OrderStateMachine

CONSTANT Orders

VARIABLE status

Init == status = [o \in Orders |-> "CREATED"]

Move(o, to) ==
    /\ ValidTransition(status[o], to)
    /\ status' = [status EXCEPT ![o] = to]

PlaceOnDelivery(o) ==
    /\ ValidTransition(status[o], "PAYMENT_PENDING")
    /\ status' = [status EXCEPT ![o] = "PLACED"]

Next ==
    \E o \in Orders : PlaceOnDelivery(o) \/ (\E to \in OrderStatus : Move(o, to))

Spec == Init /\ [][Next]_status

=============================================================================
