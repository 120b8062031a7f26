SPECIFICATION AgentSpec
CONSTANTS
    QueueSize = 1
    BatchSize = 2
    BatchChCap = 1
    RetryMax = 1
    MaxSamples = 4
INVARIANTS AgentTypeOK SamplesAccounted DuplicatesOnlyByRetry
PROPERTIES EverySampleSettles StopsUnlessStuck
CHECK_DEADLOCK FALSE
