SPECIFICATION CodecSpec
CONSTANTS
    ByteBits = 4
    WordBytes = 2
    Buckets <- MCBuckets
    LeadBits = 2
    TrailBits = 3
    Times <- MCTimes
    Values <- MCValues
    Behind <- MCBehind
    MaxPoints = 4
INVARIANTS V1RoundTrip V2RoundTrip
CHECK_DEADLOCK FALSE
