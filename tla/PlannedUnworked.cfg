SPECIFICATION PartsSpec
CONSTANTS
    Agents = {a1}
    Issues = {i1}
    Chats = {}
    Handlers = {h1}
    Capacity = 1
    MaxAttempts = 2
    DaemonReasons = {"offline"}
    Requests = {}
    Mishaps = {"network", "restart", "outage", "crash"}
    MaxMishaps = 1
    MaxAsked = 1
    MaxRows = 2
    MaxClaims = 2
    plan = plan
    hook = hook
    click = click
    Plans = {plan}
    Hooks = {hook}
    Clicks = {click}
    NoOccasion = none
    Dispatchers = {d1, d2}
    Nobody = nobody
    AttemptLimit = 2
    Scenarios <- SmallScenarios
    MaxRuns = 4
    MaxWork = 3
INVARIANTS PlannedIsWorked
CHECK_DEADLOCK FALSE
