CONSTANTS
    p1 = p1
    p2 = p2
    s1 = s1
    s2 = s2
    Products = {p1, p2}
    Shops = {s1, s2}
    ShopOf <- TwoShops
    ItemIds = {i1, i2}
    OrderIds = {o1, o2}
    Keys = {k1}
    Addresses = {a1, a2}
    MaxQuantity = 2
    Calls = {c1, c2}
    NoShop = NoShop
    NoProduct = NoProduct
    NoOrder = NoOrder
SPECIFICATION Spec
SYMMETRY Symmetry
INVARIANTS
    IInv
PROPERTY
    ImplementsKeyedOrders
