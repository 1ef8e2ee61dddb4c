CONSTANTS
    MaxItem = 2
    MaxDepth = 2
    MaxPost = 0
    Timeouts = {t1, t2, z}
    ZeroTimeouts = {z}
    SemEvents = {}
    Callers = "fresh"
    ThreadsMayFail = FALSE
    TimedWaitReportsTimeout = TRUE
SPECIFICATION FairSpec
INVARIANTS
    TypeOK
    StartsWithHandle
    SlotFreeWhenAssigned
    QuiescentAtReturn
    ScriptRunsAlone
    WaitedHandlesAreRooted
PROPERTIES
    ImplementsWaitAny
