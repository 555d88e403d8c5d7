SPECIFICATION FairSpec
CONSTANTS
    p1 = p1
    p2 = p2
    nobody = nobody
    wifi = wifi
    cell = cell
    Procs <- AllProcs
    NoProc = nobody
    Ifaces <- AllIfaces
    Cellular = cell
    MaxValue = 1
    MaxUpdates = 1
    MaxRestarts = 1
INVARIANT
    ViewCurrent
PROPERTY
    SubscriptionSettles
CHECK_DEADLOCK FALSE
