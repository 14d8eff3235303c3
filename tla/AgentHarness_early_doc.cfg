SPECIFICATION Spec
CONSTANTS
    OneAtATime = TRUE
    EarlyPrompts = TRUE
    MaxRuns = 2
    MaxReplies = 0
    MaxQueued = 0
    MaxWrites = 2
    MaxStructural = 0
    MaxFailures = 0
    MaxEvents = 2
INVARIANTS
    NoWriteLost
CHECK_DEADLOCK FALSE
