SPECIFICATION AllSpec
CONSTANTS
  Exercised = {"plans"}
  PlanScenes <- OversizedScenes
INVARIANTS OversizedRecorded
\* Runs end.
CHECK_DEADLOCK FALSE
