SPECIFICATION ServedSpec
CONSTANTS
  NumBrowsers = 2
  SpawnLimit = 1
  MaxFaults = 2
  CommandSequence <- OneCommand
  Target = {"sync", "any"}
  FailureLimit = 1
  VisitPerCall = FALSE
  Archive = TRUE
  ProcessWatchdog = FALSE
  MaxCalls = 2
  MaxAlarms = 0
CHECK_DEADLOCK FALSE
INVARIANTS CommandsBelongToVisits VisitIdsUnique NothingLeftBehind
PROPERTY ShutdownEnds
