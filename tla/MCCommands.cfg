SPECIFICATION Spec
CONSTANTS
  Doc <- MCDoc
  MaxWindows = 3
  MaxFaults = 2
  NumLinks = 2
  debug = TRUE
  Calls <- All
  Sites = {"shop", "land"}
  MaxCalls = 2
  MaxVisits = 2
CHECK_DEADLOCK FALSE
INVARIANTS EvidenceOfVisit OneAddressPerSite
