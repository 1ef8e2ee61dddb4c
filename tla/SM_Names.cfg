CONSTANTS
    Objects = {p1, p2, p3}
    MaxOpen = 4
    MaxWrite = 2
    MaxCrash = 1
    Faults = {"held", "attach", "define", "length"}
SPECIFICATION Spec
INVARIANTS
    OneMemory
    ContentIsShared
    LastOneRemoves
    LockIsHeld
SYMMETRY Symmetry
CHECK_DEADLOCK FALSE
