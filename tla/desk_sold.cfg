SPECIFICATION HealthySpec
CHECK_DEADLOCK FALSE
CONSTANTS
    t1 = t1
    t2 = t2
    seller = seller
    u1 = u1
    i1 = i1
    i2 = i2
    Tabs <- OneTab
    Seller = seller
    Users <- SellerAndBuyer
    Items <- TwoItems
    Prices = {11}
    Start = 10
    MaxClicks = 1
    MaxSales = 2
SYMMETRY ItemSymmetry
INVARIANT
    RestingTabShowsItsSales
