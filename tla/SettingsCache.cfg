SPECIFICATION Spec
CONSTANTS
    Processes = {p1, p2}
    Host = host
    Port = port
    Delay = delay
    Secrets <- TheSecrets
    MailList <- TheSecrets
    Settings <- TheSettings
    Readers = {r1}
    TTL = 1
    MaxUpdates = 2
    MaxUnderWay = 1
    MaxRejects = 1
SYMMETRY Symmetry
INVARIANTS
    ServedIsRecent
    OwnWritesShow
CHECK_DEADLOCK FALSE
