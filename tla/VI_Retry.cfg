CONSTANTS
    MaxMode = 2
    MaxSet = 2
    Retries = TRUE
SPECIFICATION FairSpec
INVARIANTS
    FindsAWindow
CHECK_DEADLOCK FALSE
