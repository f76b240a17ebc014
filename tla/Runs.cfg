SPECIFICATION AllSpec
CONSTANTS
  Phases = 1
  MaxTurns = 2
  MaxCrashes = 2
  MaxInterrupts = 2
  PowerLoss = TRUE
  Reconciles = TRUE
  Root = root
  Child = child
INVARIANTS AtMostOnce RecordsAgree StatusTruthful
PROPERTIES
  ImplementsAttemptOnce
  ResumedRunsComplete
  CommittedRunsStay
  TransactionsResolve
  InterruptsTakeEffect
\* A Run in the history stays as it is, a Conversation may be left alone, and a process exits.
CHECK_DEADLOCK FALSE
