\* A lease that passes the configuration check but omits the lock wait.
CONSTANTS
    w1 = w1  w2 = w2
    Workers = {w1, w2}
    NoWorker = NoWorker
    Spacing = 2
    Fence = 5
    CallTime = 2
    LockTimeout = 2
    Margin = 1
    Lease = 9
    Window = 5
    Budget = 3
    Horizon = 14
SPECIFICATION MCSpec
SYMMETRY AnyWorker
INVARIANT
    LeaseCheckSuffices
