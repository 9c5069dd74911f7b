SPECIFICATION FairSpec
CONSTANTS
  NumBrowsers = 1
  SpawnLimit = 2
  MaxFaults = 7
  CommandSequence <- MixedCommands
  Target = {"any", "one"}
  FailureLimit = 1
  VisitPerCall = TRUE
  Archive = TRUE
  ProcessWatchdog = TRUE
  MaxCalls = 1
  MaxAlarms = 1
CHECK_DEADLOCK FALSE
INVARIANTS TypeOK AnswersMatch ProfileKept UnusableIsReported
PROPERTIES SequencesEnd
