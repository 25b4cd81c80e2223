SPECIFICATION Spec
CONSTANTS
    s1 = s1
    s2 = s2
    Servers <- OneServer
    Users = {1, 2}
    UserIds = {0, 1, 2, 3}
    SellerIds = {1, 9}
    Items = {1}
    ItemIds = {0, 1, 2}
    Amounts <- MCAmounts
    Starts <- MCStarts
    PriceLimit <- MCPriceLimit
    MaxSales = 2
INVARIANTS
    TypeOK
    PriceIsHighestBid
    AmountsFit
PROPERTIES
    AnnouncementsNeverFall
    SoldAtTopPrice
    ImplementsAuction
