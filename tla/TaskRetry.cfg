SPECIFICATION Spec
CONSTANTS
    Agents = {a1}
    Issues = {i1}
    Chats = {}
    Handlers = {h1}
    Capacity = 1
    MaxAttempts = 2
    DaemonReasons = {"network"}
    Requests = {"rerun", "cancel"}
    Mishaps = {"database", "report", "reject", "outage", "restart", "crash"}
    MaxMishaps = 1
    MaxAsked = 2
    MaxRows = 3
    MaxClaims = 1
INVARIANTS TypeOK RetryOnce
PROPERTIES PromotionFenced
CHECK_DEADLOCK FALSE
