CONSTANTS
    MaxItem = 2
    MaxDepth = 1
    MaxPost = 1
    Timeouts = {t}
    ZeroTimeouts = {}
    SemEvents = {s}
    Callers = "once"
    ThreadsMayFail = TRUE
    TimedWaitReportsTimeout = TRUE
SPECIFICATION FairSpec
INVARIANTS
    WaitsForAnEvent
PROPERTIES
    CallReturns
    ReleaseEnds
CHECK_DEADLOCK FALSE
