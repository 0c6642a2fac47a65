SPECIFICATION Spec
CONSTANTS
    Agents = {a1}
    Issues = {i1}
    Chats = {c1}
    Handlers = {h1, h2}
    Capacity = 1
    MaxAttempts = 2
    DaemonReasons = {"offline"}
    Requests = {"cancel"}
    Mishaps = {"database", "reject"}
    MaxMishaps = 1
    MaxAsked = 2
    MaxRows = 2
    MaxClaims = 2
SYMMETRY HandlerSymmetry
PROPERTIES SlotsHonored TerminalButForPromotion DeliveredClaimStays
CHECK_DEADLOCK FALSE
