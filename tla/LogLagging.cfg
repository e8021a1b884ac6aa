\* Three replicas that lag behind a leader that may crash: liveness under fairness.
CONSTANTS
  N = 3
  MaxSlot = 1
  Value = {1, 2, 3}
  Chosen <- MCChosen
  Pipeline = 1
  AheadWindow = 2
  MaxRetained = 9
  Attempts = 2
  Size <- MCSize
  ChunkBytes = 1
  MaxCrashes = 1
  MaxInFlight = 99
  Proposers = {1, 2, 3}
SPECIFICATION LaggingSpec
PROPERTIES LaggardsCatchUp
