SPECIFICATION EngineSafety
CONSTANTS
    ByteThreshold = 5
    MaxRecords = 3
    MaxLives = 2
    MaxFaults = 0
    MemtableSize = 1
    FlushDoneCap = 1
    TimeOf <- MCTimeOf
    CallsRecover = TRUE
    MaxFlushes = 2
    MaxBatch = 0
    MaxIOFaults = 0
PROPERTY SegmentImmutable
CHECK_DEADLOCK FALSE
