SPECIFICATION FairSpec
CONSTANTS
    MaxLen = 2
    Fits = {0, 1, 3}
    PushToHub = TRUE
    MaxFrames = 5
    MaxQueued = 1
    MaxFaults = 1
INVARIANTS RingKeepsLast EpisodesWhole HistoryKept HubFinalized
PROPERTIES SessionEnds StoreSpec
