SPECIFICATION MaintenanceSpec
CONSTANTS
    TimeOf <- MCTimeOf
    SeriesOf <- MCSeriesOf
    Cutoffs = {3}
    MaxCount = 3
    DoneCap = 1
    MaxPoints = 3
    MaxCompactions = 2
    MaxLives = 2
    MaxIOFaults = 1
INVARIANTS MaintenanceTypeOK NothingLost ExactlyOnce SweepsOnlyExpired
PROPERTIES EveryCompactionEnds
CHECK_DEADLOCK FALSE
