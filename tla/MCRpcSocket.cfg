SPECIFICATION Spec
CONSTANTS
    Calls = {c1, c2, c3}
    NoCall = NoCall
    IdLimit = 2
INVARIANTS
    PendingIffWaiting
    OwnResponse
PROPERTIES
    ImplementsRequestReply
CHECK_DEADLOCK FALSE
