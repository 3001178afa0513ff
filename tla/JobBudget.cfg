SPECIFICATION JobSpec
CONSTANTS
  NSlugs = 3
  BatchSize = 2
  NoCursor = NoCursor
  MaxDeployments = 2
  Deadline = 5
  Reserve = 3
  MaxWait = 2
  MaxDeliveries = 2
  KillAfter = 1
  Limit = 6
  MaxSetup = 7
  CheckpointTime = 2
  CallTime = 2
INVARIANTS WaitBounded
PROPERTIES JobInTime ExactlyOnce NotStarved
