SPECIFICATION ThreadsSpec
CONSTANTS
    ReadThreads = {r1, r2}
    Writers = {w1}
    ThunkThreads = {t1, t2}
    MaxIrobs = 2
    MaxInterrupts = 1
    MaxFlaps = 3
    MaxWaits = 2
SYMMETRY ThreadSymmetry
INVARIANTS
    NoLostWakeup
    WaiterIsOwed
CHECK_DEADLOCK FALSE
