SPECIFICATION Spec
CONSTANTS
  NumBrowsers = 2
  SpawnLimit = 1
  MaxFaults = 0
  CommandSequence <- OneCommand
  Target = {"all"}
  FailureLimit = 0
  VisitPerCall = TRUE
  Archive = FALSE
  ProcessWatchdog = FALSE
  MaxCalls = 1
  MaxAlarms = 0
CHECK_DEADLOCK FALSE
INVARIANT VisitIdsUnique
