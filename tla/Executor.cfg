SPECIFICATION FairSpec
CONSTANTS
  Timeout = 1
  Allowance = 5
  Cancelling = 5
  Bound = 1
INVARIANTS
  ResultTruthful
  EvidenceKept
PROPERTIES
  DispatchEnds
CHECK_DEADLOCK FALSE
