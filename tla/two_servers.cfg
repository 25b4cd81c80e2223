SPECIFICATION FairSpec
CONSTANTS
    s1 = s1
    s2 = s2
    Servers <- TwoServers
    Users = {1}
    UserIds = {1}
    SellerIds = {1}
    Items = {1}
    ItemIds = {1}
    Amounts <- ThreeAmounts
    Starts <- MCStarts
    PriceLimit <- MCPriceLimit
    MaxSales = 2
INVARIANTS
    BooksBalance
    SalesMatchBids
    AckedIsStored
    AnnouncedIsStored
    PriceIsOffered
    SomeoneRuns
PROPERTIES
    ImplementsShared
    EveryRequestAnswered
