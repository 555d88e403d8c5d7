SPECIFICATION FairBootstrapSpec
CONSTANTS
    NumIfaces = 2
    MaxDowns = 1
    MaxUps = 1
INVARIANT
    SuccessIsShared
PROPERTY
    ConnectReturns
CHECK_DEADLOCK FALSE
