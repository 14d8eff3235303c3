SPECIFICATION FairSpec
CONSTANTS
    MaxRequests = 3
    MaxEvents = 3
INVARIANTS
    AnsweredOnce
    TabsAgree
PROPERTIES
    RequestsSettle
CHECK_DEADLOCK FALSE
