SPECIFICATION Spec
CONSTANTS
    Callers = {c1, c2}
    MaxEntries = 4
    MaxOverlaps = 1
    MaxWindows = 2
    MaxFailures = 1
    MaxCrashes = 1
INVARIANTS
    ParentsPrecede
    FileIsSession
PROPERTIES
    ImplementsBranches
CHECK_DEADLOCK FALSE
