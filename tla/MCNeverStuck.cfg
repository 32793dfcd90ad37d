SPECIFICATION FairSpec
CONSTANTS
    Orders = {o1}
    Payments = {p1, p2}
    Keys = {k1, k2}
    Events = {e1}
    Calls = {c1}
    RefundKey = RefundKey
    NoRow = NoRow
    NoEvent = NoEvent
CHECK_DEADLOCK FALSE
PROPERTIES
    NeverStuck
