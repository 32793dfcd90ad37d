CONSTANTS
    Events = {e1, e2}
    Notifications = {e1}
    Poison = {e2}
    Devices = {d1}
    Tokens = {t1}
    Workers = {w1, w2}
    Window = 2
    MaxAttempts = 2
    MaxStalls = 1
    KeepCompleted = 1
    KeepFailed = 1
    MaxFaults = 1
    NoToken = NoToken
SPECIFICATION FairSpec
CHECK_DEADLOCK FALSE
INVARIANTS
    CompletedIsProcessed
    
    GivenUpAfterFaults
PROPERTIES
    ImplementsEventDelivery
    HealthyAreProcessed
