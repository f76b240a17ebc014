SPECIFICATION FairSpec
CONSTANTS
  Kinds = {"delta", "context", "plain", "checkpoint"}
  Prior = 1
  MaxEvents = 4
  QueueCapacity = 1
  BatchCapacity = 2
  MaxFaults = 2
INVARIANTS LogInOrder DurabilityTold OutputFollowsLog
PROPERTIES CommandEnds
\* The command ends.
CHECK_DEADLOCK FALSE
