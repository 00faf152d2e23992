CONSTANTS
    Tabs = {a, b}
    Tokens = {}
    User = customer
    WebLocks = FALSE
    TabsCrash = TRUE
    Failures = {"network", "service", "timeout"}
    Unreliable = TRUE
    MaxLogouts = 0
    BlankLogouts = FALSE
    AnonFresh = 1
    FetchTimeout = 1
    LockTTL = 2
    MaxWait = 3
    NULL = NULL
SPECIFICATION LiveSpec
CHECK_DEADLOCK FALSE
PROPERTY EveryRefreshEnds
