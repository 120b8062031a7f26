SPECIFICATION MaintenanceSafety
CONSTANTS
    TimeOf <- MCTimeOf
    SeriesOf <- MCSeriesOf
    Cutoffs = {3}
    MaxCount = 3
    DoneCap = 1
    MaxPoints = 3
    MaxCompactions = 2
    MaxLives = 1
    MaxIOFaults = 0
INVARIANTS CompactionKeepsData
CHECK_DEADLOCK FALSE
