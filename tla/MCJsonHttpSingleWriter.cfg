SPECIFICATION HttpSpec
CONSTANTS
    MaxMessages = 3
    MaxQueue = 2
INVARIANT SingleWriter
CHECK_DEADLOCK FALSE
