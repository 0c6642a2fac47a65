SPECIFICATION Spec
CONSTANTS
    Runners = {r1, r2}
    Mode = "autopilot"
    Cadence = 1
    ScheduleDelay = 0
    CatchUpWindow = 9
    MaxPlansPerTick = 2
    RetryBackoff <- TwoStepBackoff
    Occurrences = {1, 2, 3}
    FirstAnchor = 0
    MaxLateness = 2
    MaxTime = 3
    StaleTimeout = 2
    HeartbeatInterval = 1
    MaxAttempts = 3
    AllowStaleReentry = TRUE
    DBFaults = {}
    MaxCrashes = 0
SYMMETRY RunnerSymmetry
PROPERTIES NoStrandedRetry
CHECK_DEADLOCK FALSE
