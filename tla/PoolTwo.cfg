\* The leader submits one command and the follower three, under a sequencing window of
\* two, with batches of two bytes and pools of four. The second command of an origin
\* takes three bytes, the others one. A replica with nothing left to do stops.
CONSTANTS
  N = 2
  Up = {1, 2}
  Submissions <- MCFollowerMore
  Size <- MCSize
  MaxSlot = 3
  Pipeline = 2
  MaxBatch = 2
  MaxPool = 4
  Window = 2
SPECIFICATION Spec
VIEW View
CHECK_DEADLOCK FALSE
INVARIANTS TypeOK NothingStranded PoolForgetsDelivered DedupWithinWindow BatchesFit Inv
PROPERTIES ImplementsExactlyOnce
