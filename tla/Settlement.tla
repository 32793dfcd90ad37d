----------------------------- MODULE Settlement -----------------------------
(***************************************************************************)
(* What the handlers of Payments promise about an order and its money,     *)
(* whatever the tables, webhooks and workers behind them do: an order goes *)
(* to the shop for cash or once the provider holds its money, the money    *)
(* goes back at most once, and only for an order that was cancelled before *)
(* the shop began to prepare it.                                           *)
(***************************************************************************)
CONSTANT Orders

VARIABLES
    stage,    \* how far the order has got
    cash,     \* it is to be paid on delivery
    funds     \* the customer's money at the payment provider

Stage == {"open", "failed", "placed", "prepared", "rejected", "cancelled"}
Funds == {"none", "held", "returned"}

Init ==
    /\ stage = [o \in Orders |-> "open"]
    /\ cash = [o \in Orders |-> FALSE]
    /\ funds = [o \in Orders |-> "none"]

\* A session with the provider stays open, so the money may come at any stage.
Pay(o) ==
    /\ funds[o] = "none"
    /\ funds' = [funds EXCEPT ![o] = "held"]
    /\ UNCHANGED <<stage, cash>>

Enter(o, from, to) ==
    /\ stage[o] \in from
    /\ stage' = [stage EXCEPT ![o] = to]
    /\ UNCHANGED <<cash, funds>>

PlaceForCash(o) ==
    /\ stage[o] = "open"
    /\ funds[o] = "none"
    /\ stage' = [stage EXCEPT ![o] = "placed"]
    /\ cash' = [cash EXCEPT ![o] = TRUE]
    /\ UNCHANGED funds

PlacePaid(o) ==
    /\ funds[o] = "held"
    /\ ~ cash[o]
    /\ Enter(o, {"open"}, "placed")

Fail(o) == Enter(o, {"open"}, "failed")
Prepare(o) == Enter(o, {"placed"}, "prepared")
Reject(o) == Enter(o, {"placed"}, "rejected")
Cancel(o) == Enter(o, {"open", "placed"}, "cancelled")

Return(o) ==
    /\ stage[o] = "cancelled"
    /\ funds[o] = "held"
    /\ funds' = [funds EXCEPT ![o] = "returned"]
    /\ UNCHANGED <<stage, cash>>

Next ==
    \E o \in Orders :
        \/ Pay(o) \/ Return(o)
        \/ PlaceForCash(o) \/ PlacePaid(o)
        \/ Fail(o) \/ Prepare(o) \/ Reject(o) \/ Cancel(o)

Spec == Init /\ [][Next]_<<stage, cash, funds>>

=============================================================================
