CONSTANTS
  Phases = 1
  MaxTurns = 1
  MaxCrashes = 1
  MaxInterrupts = 1
  PowerLoss = FALSE
  Reconciles = FALSE
SPECIFICATION Spec
INVARIANT TerminalSnapshotCompletes
\* A Run in the history stays as it is.
CHECK_DEADLOCK FALSE
