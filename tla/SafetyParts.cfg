SPECIFICATION PartsSpec
CONSTANTS
    PlanCadence = 2
    PlanDelay = 1
    PlanWindow = 5
    PlansPerTick = 2
    CronOccurrences = {2, 3, 6, 7, 11}
    CronAnchor = 2
    CronLateness = 2
    PlanAttempts = 3
    MaxNow = 12
    sv1 = sv1
    sv2 = sv2
    Rows = {i1}
    Servers = {sv1, sv2}
    Skew <- SkewOfServers
    Window = 3
    HintMargin = 1
    RetryAfter = 1
    PrepareLease = 1
    PollEvery = 1
    MaxRequest = 1
    MaxLosses = 1
    Messages = {m1, m2, m3}
    Deliveries = {d1, d2}
    NoDelivery = nodelivery
    Commands = {m3}
    MaxFaults = 1
    Budget = 1
    Grace = 2
    MaxClock = 7
    MaxCalls = 2
    MaxLinks = 2
    Comments = {c1, c2}
    NoComment = nocomment
    Deletion = deletion
    ToAssignee = {c2}
    MaxTasks = 3
    MaxDisturbances = 2
    ResolveAttempts = 2
    HandOffAttempts = 2
INVARIANTS AskedInTime HandledOnce RunFollows OneClaimAlive RightServer
INVARIANTS EveryPlanIsOwedPrefix AutopilotPlanIsNewestFresh KeptUnlessUnfounded
CHECK_DEADLOCK FALSE
