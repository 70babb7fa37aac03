SPECIFICATION BreakerSpec
CONSTANTS
    NoAccount = NoAccount
    Accounts = {c1}
    Callers = {k1, k2, k3}
    Threshold = 3
    MaxFailures = 5
    MaxDeletes = 1
    MaxAborts = 1
SYMMETRY Symmetry
INVARIANTS
    PauseNeedsThreshold
    ClosedIsClean
