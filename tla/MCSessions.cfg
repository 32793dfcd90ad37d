CONSTANTS
    Sessions = {s1, s2}
    Calls = {c1, c2}
    Apps = {s2}
    MaxTokens = 3
    MaxVersion = 3
    NoCall = NoCall
SPECIFICATION Spec
CONSTRAINT AllIntact
SYMMETRY Symmetry
CHECK_DEADLOCK FALSE

    
PROPERTIES
    ImplementsSessionTokens
