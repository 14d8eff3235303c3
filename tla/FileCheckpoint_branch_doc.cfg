SPECIFICATION Spec
CONSTANTS
    Files = {f1}
    Linked = {}
    MaxCalls = 3
    MaxReplies = 2
    MaxFaults = 1
    MaxNavigations = 1
    MaxEvents = 3
INVARIANTS
    BranchRestoreIsExact
CHECK_DEADLOCK FALSE
