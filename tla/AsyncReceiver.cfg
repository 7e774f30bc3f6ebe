SPECIFICATION Spec
CONSTANTS
  ChunkSize = 3
  ThresholdNum = 1
  ThresholdDen = 2
  Scenes = {s1}
  MaxStep = 4
  MaxFaults = 0
  RestartStep = 0
  NoObs = NoObs
INVARIANTS ReceiverLives
