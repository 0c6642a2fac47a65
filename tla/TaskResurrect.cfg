SPECIFICATION Spec
CONSTANTS
    Agents = {a1}
    Issues = {i1}
    Chats = {}
    Handlers = {h1}
    Capacity = 1
    MaxAttempts = 2
    DaemonReasons = {"offline"}
    Requests = {"cancel"}
    Mishaps = {}
    MaxMishaps = 1
    MaxAsked = 1
    MaxRows = 2
    MaxClaims = 1
PROPERTIES TerminalIsFinal
CHECK_DEADLOCK FALSE
