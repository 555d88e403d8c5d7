SPECIFICATION FairSpec
CONSTANTS
    NumIfaces = 2
    MaxCsocks = 4
    MaxChanges = 2
    MaxBreaks = 1
INVARIANTS
    OnePerPair
    DownIsAnnounced
PROPERTY
    SidesAgree
CHECK_DEADLOCK FALSE
