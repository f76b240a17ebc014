SPECIFICATION AllSpec
CONSTANTS
  Exercised = {"interrupts", "plans", "credentials", "login", "responses", "calls", "process", "selection", "authoring", "registry", "values"}
  PlanScenes <- FixtureScenes
INVARIANTS
  OutcomeAgreesWithAnswer
  FixtureStreams
  CredentialsKept
  ResponsesWhole
  ToolsAsDeclared
  SelectionHolds
  FlowsSound
PROPERTIES
  CreationIsAllOrNothing
  ImplementsRace
\* Runs, commands, answers and loads end.
CHECK_DEADLOCK FALSE
