\* Two replicas and a budget of a single value: who asks for a slot that was freed?
CONSTANTS
  N = 2
  MaxSlot = 3
  Value = {1, 2, 3}
  Chosen <- MCChosen
  Pipeline = 2
  AheadWindow = 3
  MaxRetained = 1
  Attempts = 1
  Size <- MCSize
  ChunkBytes = 2
  MaxCrashes = 0
  MaxInFlight = 2
  Proposers = {1, 2}
SPECIFICATION MCSpec
VIEW View
CONSTRAINTS BoundedNetwork FewProposers
INVARIANTS FreedSlotsProbedOnlyByDelivered
