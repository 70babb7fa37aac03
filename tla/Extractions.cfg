SPECIFICATION FairSpec
CONSTANTS
    k1 = k1 k2 = k2 k3 = k3 k4 = k4 k5 = k5
    Readers = {w1, w2}
    Keys = {k1, k2, k3, k4, k5}
    NoKey = NoKey
    FirstTimeline <- MCFirstTimeline
    Window = 3
    SeenCap = 3
    MaxIterations = 4
    MaxStall = 2
    MaxChanges = 1
    MaxJobs = 1
    MaxRows = 5
    BatchSize = 2
    MaxFaults = 1
    MaxStops = 1
INVARIANTS
    FileIsFaithful
    NoRepeatWithinCap
    StableSurfaceIsCopied
PROPERTIES
    EveryJobEnds
CHECK_DEADLOCK FALSE
