\* The leader on its fast path and a hedged follower, up to phase 2 of the second round;
\* one reply in flight at a time.  With PriorityH = 2 every drawn priority is 1, so that
\* ties are frequent and broken by the proposer.
CONSTANTS
  N = 3
  PriorityH = 2
  Value = {1, 2}
  Up = {1, 2, 3}
  Proposers = {1, 2}
  MaxStep = 10
  MaxReplies = 1
  Batches <- MCBatches
SPECIFICATION Spec
VIEW View
CONSTRAINT BoundedReplies
INVARIANTS TypeOK Agreement SpreadBeforePhase2 NoNewValues FastPathUnbeatable
PROPERTIES ImplementsConsensus NeverStalls
