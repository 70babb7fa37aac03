SPECIFICATION BrowsersFairSpec
CONSTANTS
    Users = {u1, u2}
    MaxContexts = 3
    MaxFaults = 2
    TextReasons = {"login_cooldown"}
    UrlReasons = {}
    ApiReasons = {"login_cooldown"}
    MaxDue = 2
    MaxAsks = 1
    MaxRejects = 1
INVARIANTS
    NoBrowserIsLeft
    ShutdownLeavesNone
    StopIsHeeded
    ResultIsTrue
    NoBrowserIsForgotten
PROPERTIES
    EveryLoginEnds
    ImplementsQueueStep
CHECK_DEADLOCK FALSE
