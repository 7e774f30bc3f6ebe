SPECIFICATION Spec
CONSTANTS
    QueueSize = 1
    MaxFrames = 3
    MaxSessions = 2
    MaxFaults = 1
INVARIANT RowsFound
