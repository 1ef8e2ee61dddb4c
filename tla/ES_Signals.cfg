CONSTANTS
    Handles = {h1, h2}
    Platforms = {"WIN", "UNIX"}
    MaxWaits <- OneOnWin
    MaxInterrupt = 2
    UIntMax = 3
    Misuse = {}
SPECIFICATION FairSpec
INVARIANTS
    NoLostWakeup
    EndsForTheSignal
PROPERTIES
    SignalEndsCall
CHECK_DEADLOCK FALSE
