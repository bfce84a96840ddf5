\* readiness serve goes on claiming while HTTP drains.
CONSTANTS
    Firms = {f1, f2}
    MaxRuns = 1
    MaxConns = 1
    Commands = {"serve"}
SPECIFICATION Spec
PROPERTIES
    ClaimsStopAtSignal
