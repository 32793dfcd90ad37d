CONSTANTS
    Riders = {r1}
    Profiles = {r1}
    Places <- Road
    MaxTime = 2
    MaxEpoch = 1
    Scans = {s1, s2}
    KeepFailed = 1
    NoFix = NoFix
SPECIFICATION Spec
SYMMETRY Symmetry
INVARIANTS
    LastIsHanded
    
CHECK_DEADLOCK FALSE
