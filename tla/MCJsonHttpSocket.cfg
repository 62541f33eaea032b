SPECIFICATION HttpSpec
CONSTANTS
    MaxMessages = 5
    MaxQueue = 3
INVARIANTS
    WireInOrder
PROPERTIES
    Drains
CHECK_DEADLOCK FALSE
