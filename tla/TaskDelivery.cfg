SPECIFICATION Spec
CONSTANTS
    Agents = {a1, a2}
    Issues = {i1}
    Chats = {}
    Handlers = {h1}
    Capacity = 2
    MaxAttempts = 2
    DaemonReasons = {"offline"}
    Requests = {"fallback"}
    Mishaps = {"database", "network", "report", "reject", "outage", "restart", "crash"}
    MaxMishaps = 1
    MaxAsked = 2
    MaxRows = 2
    MaxClaims = 2
INVARIANTS OneExecution
CHECK_DEADLOCK FALSE
