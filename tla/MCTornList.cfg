SPECIFICATION Spec
CONSTANTS
  None = None
  Parts = {"domains"}
  Scripts <- MCScripts
  TOTAL_NUM_SITES = 4
  NUM_BATCH = 2
  NUM_BROWSERS = 2
  NoSite = {1}
  MaxCrashes = 2
  MaxErrors = 1
  Params <- MCParams
  Resolution = {"1280x800", "1920x1080"}
  MaxWrites = 3
  MaxDumps = 3
  Illegal <- MCIllegal
  Dotted = {}
  Dates = {}
  Quoted <- MCQuoted
  Recorded <- MCRecorded
  COMMIT = 2
  MaxRuns = 2
  Threads = {t1, t2}
  SPAWN_LIMIT = 2
  MaxRecords = 4
  Loaders = {c1, c2}
  Whole <- MCWhole
  Torn = {}
  Labels <- MCLabels
  Hosts <- MCHosts
  Addresses <- MCAddresses
  batch_size = 2
  Response <- MCResponse
  HashOf <- MCHashOf
  MaxVisits = 3
  MaxFaults = 1
CHECK_DEADLOCK FALSE
INVARIANTS ReturnsPsPlusOne
