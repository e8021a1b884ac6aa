\* Two replicas, three slots, a pipeline of two, an ahead window of two, chunks and a
\* budget of two bytes, for four bytes of values: the third slot is out of reach
\* from the first, and each value after the first forces the escape hatch or is refused.
CONSTANTS
  N = 2
  MaxSlot = 3
  Value = {1, 2, 3}
  Chosen <- MCChosen
  Pipeline = 2
  AheadWindow = 2
  MaxRetained = 2
  Attempts = 1
  Size <- MCSize
  ChunkBytes = 2
  MaxCrashes = 0
  MaxInFlight = 2
  Proposers = {1, 2}
SPECIFICATION MCSpec
VIEW View
CONSTRAINTS BoundedNetwork FewProposers
INVARIANTS LogPrefix RetentionContiguous BudgetHolds ProposersNearFrontier LearnedIsInPlace Inv
PROPERTIES ImplementsOrderedLog
