SPECIFICATION Spec
CHECK_DEADLOCK FALSE
CONSTANTS
    t1 = t1
    t2 = t2
    seller = seller
    u1 = u1
    i1 = i1
    i2 = i2
    Tabs <- TwoTabs
    Seller = seller
    Users <- SellerAndBuyer
    Items <- OneItem
    Prices = {11, 12}
    Start = 10
    MaxClicks = 2
    MaxSales = 2
SYMMETRY TabSymmetry
INVARIANTS
    TypeOK
    GoneIsSold
PROPERTY
    NeverSoldBelowListed
