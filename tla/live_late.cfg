SPECIFICATION HealthySpec
CONSTANTS
    p1 = p1
    p2 = p2
    Pages <- TwoPages
    Bidders <- TwoPages
    Amounts <- TwoAmounts
    Start = 10
INVARIANT
    ToldPageShowsPrice
CHECK_DEADLOCK FALSE
