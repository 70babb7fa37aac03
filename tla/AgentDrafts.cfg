SPECIFICATION Spec
CONSTANTS
    Requests = {r1, r2}
    Texts = {x1, x2}
    NoText = NoText
    MaxDrafts = 1
    MaxRecent = 3
    MaxHours = 3
    MaxRequests = 4
    MaxFaults = 1
SYMMETRY Symmetry
INVARIANTS
    DraftsTellTheTruth
    PostsAreFew
CHECK_DEADLOCK FALSE
