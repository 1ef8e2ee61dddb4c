CONSTANTS
    MaxRequest = 1
    Handles = {}
    FreshHandles = TRUE
    Failures = {"fatal"}
SPECIFICATION Spec
INVARIANTS
    IdleMeansEmpty
CHECK_DEADLOCK FALSE
