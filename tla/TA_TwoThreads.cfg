CONSTANTS
    Blocks = {b1, b2, b3}
    Freers = {main, task}
    Owner = main
    MAX_LOAD = 3
SPECIFICATION Spec
INVARIANTS
    NoDoubleFree
CHECK_DEADLOCK FALSE
