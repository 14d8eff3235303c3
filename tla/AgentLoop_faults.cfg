SPECIFICATION FairSpec
CONSTANTS
    SteeringMode = "all"
    FollowUpMode = "one-at-a-time"
    ParallelTools = TRUE
    TurnLimit = 2
    MaxUserMessages = 2
    MaxResets = 1
    MaxPrompts = 1
    MaxBatch = 2
    MaxCalls = 2
    MaxThrows = 2
INVARIANTS
    TypeOK
    IdleIsClean
    TranscriptFollowsContext
    EveryMessageAccountedFor
    LimitStopsRequests
    RunIsReported
PROPERTIES
    RunSettles
CHECK_DEADLOCK FALSE
