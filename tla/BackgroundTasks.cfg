SPECIFICATION TasksFairSpec
CONSTANTS
    Processes = {p1, p2}
    Sessions = {s1, s2}
    MaxDepth = 2
    MaxLost = 1
    EventTypes = {TRUE}
    MaxMonitors = 1
    MaxTweets = 2
    MaxTroubles = 2
    DailyTarget = 2
    Batch = 3
    MaxTriggers = 1
    MaxRunFaults = 1
    MaxDays = 1
INVARIANTS
    OneLeaderPerTask
    DeliveriesAccounted
    TargetIsKept
PROPERTIES
    PolledTweetIsSeen
CHECK_DEADLOCK FALSE
