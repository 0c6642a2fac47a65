SPECIFICATION CoverageSpec
CONSTANTS
    Comments = {c1, c2}
    NoComment = nocomment
    Deletion = deletion
    ToAssignee = {c2}
    MaxTasks = 3
    MaxDisturbances = 0
    ResolveAttempts = 4
    HandOffAttempts = 3
INVARIANTS PromiseKept
CHECK_DEADLOCK FALSE
