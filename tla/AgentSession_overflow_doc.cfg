SPECIFICATION Spec
CONSTANTS
    Prompters = {p1, p2}
    MaxRetries = 1
    MaxEvents = 4
    MaxPrompts = 2
    MaxQueued = 1
    MaxBash = 1
    MaxCompactions = 1
    MaxAborts = 1
    Text <- OwnText
INVARIANTS
    ContinueAccepted
CHECK_DEADLOCK FALSE
