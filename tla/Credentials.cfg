SPECIFICATION Spec
CONSTANTS
    Processes = {p1, p2}
    Clients = {c1, c2}
    Codes = {k1, k2, k3}
    Links = {l1}
    Requests = {r1, r2}
    NoProof = NoProof
    WebSession = WebSession
    Cap = 1
    MaxKeys = 3
    MaxRefused = 1
    MaxFaults = 2
SYMMETRY Symmetry
INVARIANTS
    ProofBuysOneKey
    ConnectedStaysConnected
PROPERTIES
    FullOnlyOfLiveCodes
CHECK_DEADLOCK FALSE
