\* Durations scaled down: 3 calls per window of 5 from a spacing of 2.
CONSTANTS
    w1 = w1  w2 = w2
    Workers = {w1, w2}
    NoWorker = NoWorker
    Spacing = 2
    Fence = 5
    CallTime = 2
    LockTimeout = 1
    Margin = 1
    Lease = 9
    Window = 5
    Budget = 3
    Horizon = 14
SPECIFICATION MCSpec
SYMMETRY AnyWorker
INVARIANTS
    OneCallAtATime
    BudgetIsKept
    
PROPERTIES
    SendsAreSpaced
