SPECIFICATION PoolLiveSpec
CONSTANTS
    Sessions = {s1}
    ToolCalls = {c1}
    Workers = {w1, w2}
    Buffer = 1
    SummaryAfter = 1
    MaxMessages = 3
    MaxTimeouts = 1
    MaxFailures = 1
    NULL = NULL
INVARIANTS
    OneRefreshUpToDate
    DrainRunsEverything
PROPERTIES
    SummaryNeverGoesBack
    SubmissionsAreServed
    StopDrains
