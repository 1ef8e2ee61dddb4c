CONSTANTS
    Blocks = {b1, b2, b3}
    Freers = {main}
    Owner = main
    MAX_LOAD = 3
SPECIFICATION FairSpec
INVARIANTS
    NoDoubleFree
    NoUseAfterFree
    NoBlockLost
    SleeperCanBeWoken
PROPERTIES
    DestructorEnds
    ChainIsFreed
CHECK_DEADLOCK FALSE
