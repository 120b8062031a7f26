SPECIFICATION EngineSpec
CONSTANTS
    ByteThreshold = 5
    MaxRecords = 3
    MaxLives = 1
    MaxFaults = 0
    MemtableSize = 0
    FlushDoneCap = 1
    TimeOf <- MCTimeOf
    CallsRecover = FALSE
    MaxFlushes = 3
    MaxBatch = 2
    MaxIOFaults = 1
PROPERTIES
    EveryFlushEnds
    EventuallyVisible
CHECK_DEADLOCK FALSE
