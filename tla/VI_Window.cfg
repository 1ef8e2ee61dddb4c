CONSTANTS
    MaxMode = 2
    MaxSet = 2
    Retries = FALSE
SPECIFICATION FairSpec
INVARIANTS
    DrawsAlone
    SucceedsWithItsMode
PROPERTIES
    SurfaceCallsReturn
    EndVideoEnds
CHECK_DEADLOCK FALSE
