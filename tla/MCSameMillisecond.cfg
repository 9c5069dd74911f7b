SPECIFICATION FairSpec
CONSTANTS
  a1 = a1 a2 = a2
  s1 = s1 s2 = s2 p1 = p1 p2 = p2 w1 = w1 w2 = w2
  Thread <- MCThread
  URL <- MCURL
  NoDomain = ""
  DomainOf <- MCDomainOf
  Encodings <- MCEncodings
  Chains <- MCChains
  Root = Root
  NoMail = NoMail
  None = None
  Address = {a1}
  Registrations <- OneRegistered
  Schema <- Tables
  MaxFaults = 0
  SmtpThread = {s1, s2}
  PoolThread = {}
  WebThread = {}
  Mail <- SessionMails
  Report <- NoReports
  MaxTime = 2
  MaxAttempts = 2
  MaxRequests = 0
  MaxCrashes = 0
CHECK_DEADLOCK FALSE
INVARIANTS AckedMailIsOnDisk
