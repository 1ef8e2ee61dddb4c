CONSTANTS
    MaxInterval = 4
    MaxDepth = 2
    StopInCallback = FALSE
SPECIFICATION FairSpec
INVARIANTS
    WatchesWhenSet
PROPERTIES
    KeepsInterrupting
    StopEnds
CHECK_DEADLOCK FALSE
