SPECIFICATION PartsSpec
CONSTANTS
    Slots = {s1, s2}
    Updates = {u1, u2}
    Loop = loop
    MaxArrivals = 3
    t1 = t1
    t2 = t2
    t3 = t3
    home = home
    scratch = scratch
    Workers = {t1, t2, t3}
    Paths = {home}
    NoPath = nopath
    Roots = {home, scratch}
    PathOf <- PathsOfTasks
    RootsOf <- RootsOfTasks
    Nobody = nobody
    Budget = 1
    Nodes = {n1, n2}
    Tokens = {g1, g2}
    NoToken = notoken
    Prints = {f1, f2}
    NoPrint = noprint
    TTL = 3
    Margin = 2
    Teardown = 1
    MaxCall = 1
    MaxTroubles = 1
    MaxRotations = 1
    Tasks = {t1}
    Handlers = {h1, h2}
    MaxMishaps = 1
    Runners = {r1, r2}
    Mode = "autopilot"
    Cadence = 1
    ScheduleDelay = 0
    CatchUpWindow = 9
    MaxPlansPerTick = 2
    RetryBackoff <- NoBackoff
    Occurrences = {1}
    FirstAnchor = 0
    MaxLateness = 1
    MaxTime = 4
    StaleTimeout = 2
    HeartbeatInterval = 1
    MaxAttempts = 1
    AllowStaleReentry = TRUE
    DBFaults = {"plan", "claim", "finish"}
    MaxCrashes = 1
INVARIANTS UpdateSeesIdle SlotsKept OneInPlace LiveRootsStay OneConnection NeverHidden
PROPERTIES BacklogIsAskedFor BarrierLifted WorkersEnd InstallationServed QueuedIsClaimed AbandonedIsClosed
CHECK_DEADLOCK FALSE
