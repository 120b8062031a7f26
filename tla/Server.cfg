SPECIFICATION ServerSpec
CONSTANTS
    Callers = {c1, c2}
    Names = {n1}
    QueueCap = 1
    FlushDoneCap = 1
    LivenessLimit = 1
    FlushInterval = 2
    MaxRequests = 4
    MaxFlushes = 2
    MaxLives = 2
    MaxSilence = 2
INVARIANTS ServerTypeOK QueryFindsAcked
PROPERTIES EveryRequestAnswered ProbeRecovers StopCompletes
CHECK_DEADLOCK FALSE
