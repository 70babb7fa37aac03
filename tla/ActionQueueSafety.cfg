SPECIFICATION Spec
CONSTANTS
    a1 = a1 a2 = a2 s1 = s1 s2 = s2 s3 = s3 w1 = w1 w2 = w2 t1 = t1 c1 = c1
    NoWorker = NoWorker NoAction = NoAction
    Types = {t1} Accounts = {c1}
    TypeOf <- MCTypeOf
    AccountOf <- MCAccountOf
    Actions = {a1}
    Workers = {w1, w2}
    Slots = {s1, s2}
    BatchSize = 1
    MaxAttempts = 3
    MaxFaults = 2
    MaxStops = 1
    MaxReplays = 2
SYMMETRY Symmetry
INVARIANTS
    SingleHolder
    HolderAgreesWithRow
    NothingHidesWaitingRow
    SendsWithinAttempts
PROPERTIES
    HistoryStands
    ImplementsLifecycle
CHECK_DEADLOCK FALSE
