\* A replica under an exact-deadline scheduler, as the leader or as the last of three.
CONSTANTS
  MaxTime = 1000000
  MaxDelay = 1000
  MinDelay = 2
  HedgeWanted = 1
  RetransmitWanted = 0
  PingInterval = 3
  Positions <- MCPositions
  Commands <- MCCommands
  MaxSlot = 2
  Pipeline = 1
  MaxBatch = 1
  Window = 1
SPECIFICATION Spec
VIEW View
INVARIANTS WakeupIsComplete PendingIsReal RescueInTime WakeupAdvances Inv
PROPERTIES HedgesInTurn
