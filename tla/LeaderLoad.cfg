\* One slot at a time, batches of a single command and room for three: the least in
\* which the leader's commands fill every batch while the follower's waits.
CONSTANTS
  Pipeline = 1
  MaxBatch = 1
  MaxPool = 3
SPECIFICATION Spec
PROPERTIES ForwardedIsDelivered
