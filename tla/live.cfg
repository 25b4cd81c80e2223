SPECIFICATION FairSpec
CONSTANTS
    p1 = p1
    p2 = p2
    Pages <- TwoPages
    Bidders <- OneBidder
    Amounts <- MCAmounts
    Start = 10
INVARIANTS
    TypeOK
    ShownAtMostPrice
    
PROPERTIES
    WatcherNeverFalls
    PagesSettle
    ImplementsDisplay
    
CHECK_DEADLOCK FALSE
