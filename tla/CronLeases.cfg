SPECIFICATION Spec
CONSTANTS
    Runners = {r1, r2}
    Mode = "every_plan"
    Cadence = 2
    ScheduleDelay = 0
    CatchUpWindow = 3
    MaxPlansPerTick = 2
    RetryBackoff <- OneStepBackoff
    Occurrences = {}
    FirstAnchor = 0
    MaxLateness = 0
    MaxTime = 4
    StaleTimeout = 2
    HeartbeatInterval = 1
    MaxAttempts = 2
    AllowStaleReentry = TRUE
    DBFaults = {"sweep", "claim"}
    MaxCrashes = 1
SYMMETRY RunnerSymmetry
INVARIANTS TypeOK OneHolder LiveHolderKeepsLease
PROPERTIES SuccessOnlyByHolder LeaseRespected BackoffRespected NothingSkipped
CHECK_DEADLOCK FALSE
