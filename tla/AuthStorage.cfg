SPECIFICATION FairSpec
CONSTANTS
    Instances = {i1, i2}
    Calls = {c1, c2}
    OAuth = {anthropic}
    ApiKey = {openai}
    NoCall = NoCall
    Symlinked = FALSE
    Torn = Torn
    MaxLogins = 2
    MaxExpiries = 1
    MaxFailures = 1
    MaxCrashes = 1
    MaxTakeovers = 1
INVARIANTS
    LockDiscipline
    CredentialsKept
PROPERTIES
    CallsEnd
    UnreadableIsKept
CHECK_DEADLOCK FALSE
