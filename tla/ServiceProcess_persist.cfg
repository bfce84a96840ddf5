\* A signal cancels a lifecycle call that records an outcome.
CONSTANTS
    Firms = {f1, f2}
    MaxRuns = 1
    MaxConns = 1
    Commands = {"worker"}
SPECIFICATION Spec
PROPERTIES
    InFlightPersistenceAllowed
