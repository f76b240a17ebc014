SPECIFICATION Spec
CONSTANTS
  Scenes <- InitTwice
  Nobody = "nobody"
  MaxLosses = 1
INVARIANTS RetryCompletes
\* Commands end.
CHECK_DEADLOCK FALSE
