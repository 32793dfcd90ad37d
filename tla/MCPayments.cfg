SPECIFICATION Spec
CONSTANTS
    Orders = {o1}
    Payments = {p1, p2, p3}
    Keys = {k1, k2}
    Events = {e1}
    Calls = {c1, c2}
    RefundKey = RefundKey
    NoRow = NoRow
    NoEvent = NoEvent
SYMMETRY Symmetry
CHECK_DEADLOCK FALSE
INVARIANTS
    PlacedIsPaid
    RefundOnce
    RefundOnlyCancelled
    WaitingIsVisible
    HandedOver
PROPERTIES
    FollowsLifecycle
    SettlesMoney
