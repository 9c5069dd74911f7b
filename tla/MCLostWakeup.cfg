SPECIFICATION ServedSpec
CONSTANTS
  NumBrowsers = 2
  SpawnLimit = 1
  MaxFaults = 0
  CommandSequence <- OneCommand
  Target = {"sync"}
  FailureLimit = 0
  VisitPerCall = FALSE
  Archive = FALSE
  ProcessWatchdog = FALSE
  MaxCalls = 1
  MaxAlarms = 0
CHECK_DEADLOCK FALSE
PROPERTY SequencesEnd
