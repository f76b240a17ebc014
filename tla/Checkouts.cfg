SPECIFICATION Spec
CONSTANTS
  Hosts = {"a", "b", "c"}
  Worktrees = {"main", "linked"}
  Main = "main"
  At <- Placed
  Open = {{"a", "b"}, {"a", "c"}}
  Turns = 2
  Operations = 1
INVARIANTS Exclusion NothingLeftBehind
PROPERTIES CapturesEnd
\* Hosts close.
CHECK_DEADLOCK FALSE
