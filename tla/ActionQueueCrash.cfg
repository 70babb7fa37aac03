SPECIFICATION Spec
CONSTANTS
    a1 = a1 a2 = a2 s1 = s1 s2 = s2 s3 = s3 w1 = w1 w2 = w2 t1 = t1 c1 = c1
    NoWorker = NoWorker NoAction = NoAction
    Types = {t1} Accounts = {c1}
    TypeOf <- MCTypeOf
    AccountOf <- MCAccountOf
    Actions = {a1}
    Workers = {w1}
    Slots = {s1}
    BatchSize = 1
    MaxAttempts = 2
    MaxFaults = 1
    MaxStops = 0
    MaxReplays = 0
SYMMETRY Symmetry
INVARIANTS
    TakenIsMidFlight
CHECK_DEADLOCK FALSE
