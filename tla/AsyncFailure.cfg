SPECIFICATION FairSpec
CONSTANTS
  ChunkSize = 3
  ThresholdNum = 1
  ThresholdDen = 2
  Scenes = {s1, s2}
  MaxStep = 2
  MaxFaults = 1
  RestartStep = 0
  NoObs = NoObs
PROPERTIES FailureRecovered
