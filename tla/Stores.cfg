SPECIFICATION AllSpec
CONSTANTS
  Procs = {"p", "q"}
  Nobody = "nobody"
  Candidates = 2
  MaxEvents = 1
INVARIANTS SessionsKept OneWriter StoredWhole WorkspaceTruthful
PROPERTIES StepsJustified
\* Commands, writers and readers end.
CHECK_DEADLOCK FALSE
