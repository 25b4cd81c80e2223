SPECIFICATION Spec
CONSTANTS
    s1 = s1
    s2 = s2
    Servers <- TwoServers
    Users = {1, 2}
    UserIds = {1, 2}
    SellerIds = {1}
    Items = {1}
    ItemIds = {1}
    Amounts <- TwoAmounts
    Starts <- MCStarts
    PriceLimit <- MCPriceLimit
    MaxSales = 2
PROPERTY
    PriceNeverFalls
