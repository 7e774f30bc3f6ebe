SPECIFICATION FairSpec
CONSTANTS
    Workers = 3
    OnlineSteps = 2
    MinReplay = 2
    Capacity = 2
    MaxVersion = 2
    MaxSkips = 1
    MaxLives = 2
INVARIANTS TypeOK InOrder NextStateSound
PROPERTIES WeightsArrive
