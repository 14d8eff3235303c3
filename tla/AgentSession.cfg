SPECIFICATION FairSpec
CONSTANTS
    Prompters = {p1, p2}
    MaxRetries = 1
    MaxEvents = 4
    MaxPrompts = 2
    MaxQueued = 2
    MaxBash = 1
    MaxCompactions = 1
    MaxAborts = 1
    Text <- OwnText
INVARIANTS
    ContextsAgree
    MirrorShowsQueue
    MessagesKept
    BashBetweenTurns
    RecoveryIsBounded
PROPERTIES
    PromptsSettle
CHECK_DEADLOCK FALSE
