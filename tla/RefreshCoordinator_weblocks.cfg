CONSTANTS
    Tabs = {a, b}
    Tokens = {k1, k2, k3}
    User = customer
    WebLocks = TRUE
    TabsCrash = TRUE
    Failures = {"network", "service", "timeout", "stall"}
    Unreliable = FALSE
    MaxLogouts = 1
    BlankLogouts = FALSE
    AnonFresh = 1
    FetchTimeout = 1
    LockTTL = 2
    MaxWait = 3
    NULL = NULL
SYMMETRY Symmetry
SPECIFICATION Spec
CHECK_DEADLOCK FALSE
INVARIANTS AtMostOneRefresh NoFalseSignOut CleanLogoutSticks
