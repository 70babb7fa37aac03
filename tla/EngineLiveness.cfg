SPECIFICATION EngineFairSpec
CONSTANTS
    a1 = a1 a2 = a2 a3 = a3 s1 = s1 s2 = s2 s3 = s3 w1 = w1 t1 = t1 c1 = c1
    NoWorker = NoWorker NoAction = NoAction NoAccount = NoAccount k1 = k1
    Admins = {} Reauthed = {c1} Types = {t1} Accounts = {c1} Workers = {w1}
    TypeOf <- MCTypeOf
    AccountOf <- MCAccountOf
    Actions = {a1, a2}
    Slots = {s1}
    BatchSize = 1
    MaxAttempts = 2
    MaxFaults = 0
    MaxStops = 0
    MaxReplays = 0
    Threshold = 2
    AuthThreshold = 2
    Callers = {s1}
    MaxAborts = 0
    MaxFailures = 9
    MaxDeletes = 0
PROPERTIES
    ActionsSettle
INVARIANTS
    BreakerIsExact
CHECK_DEADLOCK FALSE
