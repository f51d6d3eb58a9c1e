SPECIFICATION Spec
CONSTANTS
  e1 = e1
  e2 = e2
  NoAccount = NoAccount
  NoSync = NoSync
  k1 = k1
  k2 = k2
  NoKey = NoKey
  Keys = {k1}
  Kinds = {"gmail", "icloud"}
  Emails = {e1}
  QueueCap = 1
  MaxAccounts = 1
  MaxConnects = 1
  MaxDisconnects = 0
  MaxRequests = 0
  MaxCrashes = 1
  MaxFaults = 0
  MaxUpsets = 1
  MaxImports = 0
  MaxAlarms = 2
INVARIANT OncePerOutage
CHECK_DEADLOCK FALSE
