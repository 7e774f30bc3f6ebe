SPECIFICATION FairSpec
CONSTANTS
    QueueSize = 2
    MaxFrames = 5
    MaxSessions = 3
    MaxFaults = 2
INVARIANTS TypeOK RowsKept EpisodesReadable
PROPERTIES LogSpec SaveEnds
