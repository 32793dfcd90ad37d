CONSTANTS
    Orders = {o1}
    Riders = {r1, r2}
    Slots = {s1, s2}
    MaxDispatchAttempts = 2
    TopCandidates = 2
    NoRider = NoRider
    Failures = {"crash", "redis"}
SPECIFICATION Spec
SYMMETRY Symmetry
INVARIANTS
    AcceptedIsAssigned
    OfferingIffPending
    OrderFollowsDelivery
PROPERTIES
    AttemptMadeOnce
    ImplementsAssignment
CHECK_DEADLOCK FALSE
