CONSTANTS
    Orders = {o1, o2}
    Riders = {r1, r2}
    Slots = {s1}
    MaxDispatchAttempts = 1
    TopCandidates = 2
    NoRider = NoRider
    Failures = {}
SPECIFICATION FairSpec
INVARIANTS
    OneActiveDelivery
    BusyCarries
    SearchGoesOn
    IInv

    
CHECK_DEADLOCK FALSE
