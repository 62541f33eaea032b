SPECIFICATION StatsSpec
CONSTANT MaxMeasurements = 4
PROPERTIES
    BufferDrains
    LostOnlyAtWriteEnd
CHECK_DEADLOCK FALSE
