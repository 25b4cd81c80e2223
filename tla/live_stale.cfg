SPECIFICATION HealthySpec
CONSTANTS
    p1 = p1
    p2 = p2
    Pages <- TwoPages
    Bidders <- OneBidder
    Amounts <- TwoAmounts
    Start = 10
INVARIANT
    RestingPageShowsPrice
CHECK_DEADLOCK FALSE
