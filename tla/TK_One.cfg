CONSTANTS
    MaxRequest = 2
    Handles = {h1, h2}
    FreshHandles = TRUE
    Failures = {"host", "fatal", "double", "lost", "unserialize"}
SPECIFICATION FairSpec
INVARIANTS
    TypeOK
    AnswersInOrder
    QueuesAreCounted
    IdleIsDone
PROPERTIES
    EventsReturn
    ResponseReturns
    CloseEnds
CHECK_DEADLOCK FALSE
