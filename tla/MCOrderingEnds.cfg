CONSTANTS
    p1 = p1
    p2 = p2
    s1 = s1
    s2 = s2
    Products = {p1}
    Shops = {s1}
    ShopOf <- OneShop
    ItemIds = {i1}
    OrderIds = {o1, o2}
    Keys = {k1, k2}
    Addresses = {a1}
    MaxQuantity = 2
    Calls = {c1, c2}
    NoShop = NoShop
    NoProduct = NoProduct
    NoOrder = NoOrder
SPECIFICATION FairSpec
INVARIANT AnswersOwnKey
PROPERTY EveryOrderEnds
