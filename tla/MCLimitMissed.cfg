SPECIFICATION Spec
CONSTANTS
  NumBrowsers = 2
  SpawnLimit = 1
  MaxFaults = 2
  CommandSequence <- OneCommand
  Target = {"all"}
  FailureLimit = 0
  VisitPerCall = FALSE
  Archive = FALSE
  ProcessWatchdog = FALSE
  MaxCalls = 1
  MaxAlarms = 0
CHECK_DEADLOCK FALSE
\* With ReadyIsReady in its place TLC finds that violated as well.
INVARIANT LimitEnforced
