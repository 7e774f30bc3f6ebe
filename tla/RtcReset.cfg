SPECIFICATION Spec
CONSTANTS
    Modes = {TRUE}
    ChunkSize = 6
    Threshold = 3
    Warmups = 0
    CompileTicks = 0
    MaxErrors = 2
    MaxLatency = 3
    Jitter = 1
    MaxAhead = 1
INVARIANT QueueFresh
