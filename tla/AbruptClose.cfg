SPECIFICATION Spec
CONSTANTS
    c1 = c1
    c2 = c2
    any = any
    Conns <- AllConns
    Initial <- OneConn
    AnyConn = any
    MaxIrobs = 1
    MaxClosers = 2
    MaxBreaks = 1
INVARIANT
    NeverStuck
CHECK_DEADLOCK FALSE
CONSTRAINT Explored
