SPECIFICATION Spec
CONSTANTS
  NumBrowsers = 2
  SpawnLimit = 1
  MaxFaults = 1
  CommandSequence <- OneOrReset
  Target = {"any"}
  FailureLimit = 0
  VisitPerCall = FALSE
  Archive = TRUE
  ProcessWatchdog = FALSE
  MaxCalls = 2
  MaxAlarms = 0
CHECK_DEADLOCK FALSE
INVARIANT NoHangingProcesses
