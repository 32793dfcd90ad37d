---------------------------- MODULE EventDelivery ----------------------------
(***************************************************************************)
(* What the outbox promises the handlers that write events: an event that  *)
(* is recorded with the change it tells of takes effect before it is       *)
(* closed, and a closed event stays closed.                                *)
(***************************************************************************)
CONSTANT Events

VARIABLES recorded, effective, closed

vars == <<recorded, effective, closed>>

Init == recorded = {} /\ effective = {} /\ closed = {}

Record(e) ==
    /\ recorded' = recorded \cup {e}
    /\ UNCHANGED <<effective, closed>>

\* The effect may happen again, also after the event is closed.
TakeEffect(e) ==
    /\ e \in recorded
    /\ effective' = effective \cup {e}
    /\ UNCHANGED <<recorded, closed>>

Close(e) ==
    /\ e \in effective
    /\ closed' = closed \cup {e}
    /\ UNCHANGED <<recorded, effective>>

Next == \E e \in Events : Record(e) \/ TakeEffect(e) \/ Close(e)

Spec == Init /\ [][Next]_vars

=============================================================================
