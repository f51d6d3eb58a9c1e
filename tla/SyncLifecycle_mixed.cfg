SPECIFICATION Spec
CONSTANTS
  e1 = e1
  e2 = e2
  NoAccount = NoAccount
  NoSync = NoSync
  k1 = k1
  k2 = k2
  NoKey = NoKey
  Keys = {k1}
  Kinds = {"gmail", "icloud"}
  Emails = {e1, e2}
  QueueCap = 2
  MaxAccounts = 1
  MaxConnects = 2
  MaxDisconnects = 1
  MaxRequests = 0
  MaxCrashes = 0
  MaxFaults = 0
  MaxUpsets = 1
  MaxImports = 0
  MaxAlarms = 0
INVARIANT HoldsOwnData
CHECK_DEADLOCK FALSE
