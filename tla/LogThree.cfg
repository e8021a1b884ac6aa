\* Three replicas and two slots; the proposer explored is the hedging follower 2.
\* Collecting a slot takes the acknowledgement of all three.
CONSTANTS
  N = 3
  MaxSlot = 2
  Value = {1, 2, 3}
  Chosen <- MCChosen
  Pipeline = 1
  AheadWindow = 2
  MaxRetained = 9
  Attempts = 1
  Size <- MCSize
  ChunkBytes = 2
  MaxCrashes = 0
  MaxInFlight = 2
  Proposers = {2}
SPECIFICATION MCSpec
VIEW View
CONSTRAINTS BoundedNetwork FewProposers
INVARIANTS NothingNeededIsFreed WatermarksAreReal
PROPERTIES SettledStaysSettled
