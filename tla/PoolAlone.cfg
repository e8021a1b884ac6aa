\* The leader is dead and follower 3 submits two commands: liveness under fairness.
\* A replica with nothing left to do stops.
CONSTANTS
  N = 3
  Up = {2, 3}
  Submissions <- MCFollowerOnly
  Size <- MCSize
  MaxSlot = 3
  Pipeline = 2
  MaxBatch = 2
  MaxPool = 4
  Window = 1
SPECIFICATION FairSpec
CHECK_DEADLOCK FALSE
PROPERTIES LogKeepsMoving
