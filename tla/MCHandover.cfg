CONSTANTS
    Deliveries = {d1}
    MaxOtpAttempts = 2
    Clients = {c1}
    Handlers = {h1, h2}
    MaxMessages = 2
    NoDelivery = NoDelivery
SPECIFICATION FairSpec
INVARIANTS
    WrongTriesAreBounded
    CashIsCaptured
PROPERTIES
    EndedWindsDown
    EndedFallsSilent
    FollowersAreSentAway
CHECK_DEADLOCK FALSE
