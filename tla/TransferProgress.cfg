SPECIFICATION FairSpec
CONSTANTS
    CSocks = {c1, c2}
    MaxChunks = 2
    MaxFailures = 1
    AnyCSock = AnyCSock
PROPERTIES
    EventuallyRead
    EventuallyErased
CHECK_DEADLOCK FALSE
