SPECIFICATION Spec
CONSTANTS
  Root = root
  Children = {child}
  MaxRecords = 2
  MaxCrashes = 2
  MaxFaults = 1
  Torn = TRUE
  LateCancel = TRUE
  SyncFails = FALSE
PROPERTIES HistoryAppendOnly
CHECK_DEADLOCK FALSE
