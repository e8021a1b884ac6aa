\* Two replicas, a pipeline of one: how far above the frontier do proposers run?
CONSTANTS
  N = 2
  MaxSlot = 3
  Value = {1, 2, 3}
  Chosen <- MCChosen
  Pipeline = 1
  AheadWindow = 3
  MaxRetained = 9
  Attempts = 1
  Size <- MCSize
  ChunkBytes = 2
  MaxCrashes = 0
  MaxInFlight = 2
  Proposers = {1, 2}
SPECIFICATION MCSpec
VIEW View
CONSTRAINTS BoundedNetwork FewProposers
INVARIANTS ProposersWithinPipeline
