SPECIFICATION Spec
CONSTANTS
    SteeringMode = "one-at-a-time"
    FollowUpMode = "one-at-a-time"
    ParallelTools = TRUE
    TurnLimit = 0
    MaxUserMessages = 3
    MaxResets = 0
    MaxPrompts = 2
    MaxBatch = 3
    MaxCalls = 3
    MaxThrows = 0
INVARIANTS
    ResultsAnswerCalls
    QueueDiscipline
    AbortStopsTools
CHECK_DEADLOCK FALSE
