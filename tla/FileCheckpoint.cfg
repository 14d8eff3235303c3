SPECIFICATION FairSpec
CONSTANTS
    Files = {f1}
    Linked = {}
    MaxCalls = 3
    MaxReplies = 2
    MaxFaults = 1
    MaxNavigations = 1
    MaxEvents = 3
INVARIANTS
    MutationsSerialized
    CheckpointSuffices
PROPERTIES
    CallsEnd
CHECK_DEADLOCK FALSE
