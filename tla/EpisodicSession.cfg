SPECIFICATION FairSpec
CONSTANTS
    NumEpisodes = 3
    UseCompile = TRUE
    PushToHub = TRUE
    MaxFaults = 1
INVARIANTS TypeOK OneAttempt DiscardHonoured SessionComplete FramesSaved
PROPERTIES SessionEnds StoreSpec
