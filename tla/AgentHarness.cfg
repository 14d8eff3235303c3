SPECIFICATION FairSpec
CONSTANTS
    OneAtATime = TRUE
    EarlyPrompts = FALSE
    MaxRuns = 2
    MaxReplies = 1
    MaxQueued = 2
    MaxWrites = 2
    MaxStructural = 1
    MaxFailures = 2
    MaxEvents = 3
INVARIANTS
    ContextIsSession
    DeferredWrites
    NoWriteLost
    PhaseFollowsRuns
    QueuedAccountedFor
PROPERTIES
    RunsSettle
CHECK_DEADLOCK FALSE
