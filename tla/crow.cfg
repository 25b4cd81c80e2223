SPECIFICATION FairSpec
CONSTANTS
    c1 = c1
    c2 = c2
    NoConn = NoConn
    Conns <- TwoConns
    MaxCasts = 2
    MaxId = 3
INVARIANTS
    TypeOK
    ListedIsLive
    FreedIsQuiet
    LiveHasCallback
    DeadlineOfReader
    
PROPERTIES
    GoneIsFreed
    ListedHears
    ImplementsChannel
CHECK_DEADLOCK FALSE
