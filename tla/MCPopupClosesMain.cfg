SPECIFICATION Spec
CONSTANTS
  Doc <- MCDoc
  MaxWindows = 3
  MaxFaults = 0
  NumLinks = 3
  debug = TRUE
  Calls = {"FILL_FORMS"}
  Sites = {"shop", "land"}
  MaxCalls = 2
  MaxVisits = 1
CHECK_DEADLOCK FALSE
INVARIANT SignedUpIsNoFailure
