SPECIFICATION FairSpec
CONSTANTS
    Modes = {TRUE, FALSE}
    ChunkSize = 6
    Threshold = 3
    Warmups = 2
    CompileTicks = 0
    MaxErrors = 2
    MaxLatency = 3
    Jitter = 1
    MaxAhead = 1
INVARIANTS TypeOK QueueBounded 
PROPERTIES SkipsAccounted ActionsFlow WarmupProgresses FailureEndsSession
