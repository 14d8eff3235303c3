SPECIFICATION FairSpec
CONSTANTS
    Tasks = {t1, t2, t3}
    InitialLimit = 2
    MinLimit = 1
    MaxLimit = 2
    RequestedLimits = {0}
    MaxLimitChanges = 1
INVARIANTS
    SlotsAccountedFor
    TaskOutcomes
PROPERTIES
    ImplementsSlots
    TasksSettle
CHECK_DEADLOCK FALSE
