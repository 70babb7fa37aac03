SPECIFICATION FairSpec
CONSTANTS
    Workers = {w1, w2}
    MaxJobs = 1
    MaxFaults = 2
    MaxStalls = 1
    MaxStops = 1
INVARIANTS
    SecretIffOpen
    JobIsHeldByOne
    LoginsBounded
    OutcomeIsTrue
PROPERTIES
    EveryJobEnds
CHECK_DEADLOCK FALSE
