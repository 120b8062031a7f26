SPECIFICATION QuerySpec
CONSTANTS
    Names <- MCNames
    SeriesKey <- MCSeriesKey
    Joined <- MCJoined
    Times <- MCTimes
    MaxInt64 = 7
    Widths = {2, 5}
    MaxPoints = 3
    MaxInsert = 2
INVARIANTS
    QueryTypeOK CatalogExact QueryMatchesReference AggregateMatchesReference AggregateTotal
CHECK_DEADLOCK FALSE
