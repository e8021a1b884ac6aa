\* A follower proposes alone among four replicas, the leader is dead, and messages may be
\* lost and repeated: a quorum is three, so that every live recorder is needed.
CONSTANTS
  N = 4
  PriorityH = 3
  Value = {2}
  Up = {2, 3, 4}
  Proposers = {2}
  MaxStep = 8
  MaxReplies = 99
  Batches <- MCBatches
SPECIFICATION FairSpec
INVARIANTS OneProposalPerStep FoldIsFaithful Inv
PROPERTIES ProposersDecide
