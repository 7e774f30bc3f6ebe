SPECIFICATION FairSpec
CONSTANTS
    Workers = 3
    OnlineSteps = 2
    MinReplay = 2
    Capacity = 2
    MaxVersion = 1
    MaxSkips = 0
    MaxLives = 2
PROPERTIES CallsServed
