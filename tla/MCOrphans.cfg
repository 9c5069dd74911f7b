SPECIFICATION Spec
CONSTANTS
  NumBrowsers = 1
  SpawnLimit = 2
  MaxFaults = 0
  CommandSequence <- OneOrReset
  Target = {"any"}
  FailureLimit = 0
  VisitPerCall = FALSE
  Archive = FALSE
  ProcessWatchdog = FALSE
  MaxCalls = 1
  MaxAlarms = 0
CHECK_DEADLOCK FALSE
INVARIANT AllClosed
