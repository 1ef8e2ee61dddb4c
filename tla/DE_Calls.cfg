CONSTANTS
    Handles = {h1, h2, h3}
    Timers = {t}
    MaxArgs = 2
    MaxDepth = 2
    Faults = {"poll", "prepare"}
SPECIFICATION FairSpec
INVARIANTS
    ReportsAnEvent
    HandlesAreRecycled
PROPERTIES
    EventEndsCall
CHECK_DEADLOCK FALSE
