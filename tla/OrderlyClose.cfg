SPECIFICATION FairSpec
CONSTANTS
    c1 = c1
    c2 = c2
    any = any
    Conns <- AllConns
    Initial <- AllConns
    AnyConn = any
    MaxIrobs = 1
    MaxClosers = 1
    MaxBreaks = 0
INVARIANTS
    TypeOK
    NothingLost
    OneGoodbye
PROPERTY
    CloseCompletes
CHECK_DEADLOCK FALSE
