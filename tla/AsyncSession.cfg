SPECIFICATION FairSpec
CONSTANTS
  ChunkSize = 2
  ThresholdNum = 1
  ThresholdDen = 2
  Scenes = {s1, s2}
  MaxStep = 3
  MaxFaults = 1
  RestartStep = 0
  NoObs = NoObs
INVARIANTS QueueIncreasing FreshUnlessOverlapped MustGoPending
PROPERTIES RewindBounded TaskEnds
