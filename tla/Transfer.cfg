SPECIFICATION Spec
CONSTANTS
    CSocks = {c1, c2, c3}
    MaxChunks = 2
    MaxFailures = 2
    AnyCSock = AnyCSock
SYMMETRY Symmetry
INVARIANTS
    RequestsAreForSentChunks
    EndIsLast
    ErasedIsReceived
CHECK_DEADLOCK FALSE
