SPECIFICATION Spec
CONSTANTS
    c1 = c1
    c2 = c2
    NoConn = NoConn
    Conns <- TwoConns
    MaxCasts = 0
    MaxId = 3
INVARIANT
    ReaderHasDeadline
CHECK_DEADLOCK FALSE
