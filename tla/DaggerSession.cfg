SPECIFICATION FairSpec
CONSTANTS
    Modes = {TRUE, FALSE}
    Leaders = {"passive", "actuated", "renamed"}
    NumEpisodes = 2
    Stride = 2
    UploadEvery = 1
    PushToHub = TRUE
    MaxQueued = 1
    MaxFaults = 1
INVARIANTS TypeOK SmoothTakeover CorrectionsSeparate
PROPERTIES SessionEnds StoreSpec HubReadable
