SPECIFICATION FairSpec
CONSTANTS
    i1 = i1
    i2 = i2
    i3 = i3
    Ids <- MCIds
    Size <- MCSize
    Readers = {r1}
    NoIrob = NoIrob
INVARIANTS
    TypeOK
    NeverHandsOutUnready
    NoLostRelease
    AckedIsHeld
    HeldIsAcked
    BytesAreCounted
PROPERTIES
    ImplementsOrderedDelivery
    EverythingIsRead
CHECK_DEADLOCK FALSE
