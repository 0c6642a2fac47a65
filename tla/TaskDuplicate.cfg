SPECIFICATION Spec
CONSTANTS
    Agents = {a1}
    Issues = {i1}
    Chats = {}
    Handlers = {h1}
    Capacity = 1
    MaxAttempts = 2
    DaemonReasons = {"fatal"}
    Requests = {}
    Mishaps = {}
    MaxMishaps = 1
    MaxAsked = 1
    MaxRows = 1
    MaxClaims = 2
PROPERTIES ExecutionKeepsItsRow
CHECK_DEADLOCK FALSE
