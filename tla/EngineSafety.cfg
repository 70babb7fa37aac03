SPECIFICATION EngineSpec
CONSTANTS
    a1 = a1 a2 = a2 a3 = a3 s1 = s1 s2 = s2 s3 = s3 w1 = w1 t1 = t1 c1 = c1
    NoWorker = NoWorker NoAction = NoAction NoAccount = NoAccount k1 = k1
    Admins = {k1} Reauthed = {} Types = {t1} Accounts = {c1} Workers = {w1}
    TypeOf <- MCTypeOf
    AccountOf <- MCAccountOf
    Actions = {a1, a2}
    Slots = {s1, s2}
    BatchSize = 1
    MaxAttempts = 1
    MaxFaults = 1
    MaxStops = 1
    MaxReplays = 0
    Threshold = 1
    AuthThreshold = 2
    Callers = {s1, s2, k1}
    MaxAborts = 2
    MaxFailures = 9
    MaxDeletes = 1
SYMMETRY Symmetry
INVARIANTS
    EngineTypeOK
    FailuresReachBreaker
    BurstIsBounded
CHECK_DEADLOCK FALSE
