SPECIFICATION EngineSafety
CONSTANTS
    ByteThreshold = 5
    MaxRecords = 3
    MaxLives = 2
    MaxFaults = 1
    MemtableSize = 1
    FlushDoneCap = 1
    TimeOf <- MCTimeOf
    CallsRecover = TRUE
    MaxFlushes = 2
    MaxBatch = 2
    MaxIOFaults = 1
INVARIANTS
    EngineTypeOK
    QueryExact
    Accounted
    Recoverable
    DurableVisible
PROPERTIES
    CheckpointMonotone
    ImplementsStore
CHECK_DEADLOCK FALSE
