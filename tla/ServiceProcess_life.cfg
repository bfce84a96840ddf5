\* Both commands: two firms share one connection, workers are started twice.
CONSTANTS
    Firms = {f1, f2}
    MaxRuns = 2
    MaxConns = 1
    Commands = {"serve", "worker"}
SPECIFICATION FairSpec
INVARIANTS
    TypeOK
    EveryRunCanBeStopped
    NoCallAtExit
PROPERTIES
    WorkerStopsClaims
    CancelledRunEnds
    EveryPassEnds
    SignalEndsProcess
