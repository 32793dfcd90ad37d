CONSTANTS
    Shops = {1, 2, 3}
    Products = {1, 2, 3}
    ShopOf <- TwoOfOne
    Distances = {0, 1, 2}
    Radius = 1
    Limit = 1
    Window = 1
    MaxTime = 2
    MaxChanges = 2
    InitialShops <- NearOrNew
    NoKey = NoKey
SPECIFICATION Spec
INVARIANTS
    ShownOnce
    
    
PROPERTIES
    PagesGoForward
CHECK_DEADLOCK FALSE
