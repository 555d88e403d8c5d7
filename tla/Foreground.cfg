SPECIFICATION Spec
CONSTANTS
    Procs = {1, 2, 3}
    Scout = 1
    Csocks = {s1, s2}
    Fds = {f1}
    QueueLen = 1
    MaxChanges = 1
    MaxCrashes = 1
    None = None
SYMMETRY CsockSymmetry
INVARIANTS
    DescriptorsAreAccountedFor
    CountedIsOpenOrOnItsWayOut
CHECK_DEADLOCK FALSE
