SPECIFICATION WALSpec
CONSTANTS
    ByteThreshold = 5
    MaxRecords = 4
    MaxLives = 3
    MaxFaults = 2
INVARIANTS
    WALTypeOK
    OffsetIsEnd
    ReplayUpToTear
PROPERTIES
    StableMonotone
    EventuallySynced
CHECK_DEADLOCK FALSE
