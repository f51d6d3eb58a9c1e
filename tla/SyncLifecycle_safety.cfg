SPECIFICATION Spec
CONSTANTS
  e1 = e1
  e2 = e2
  NoAccount = NoAccount
  NoSync = NoSync
  k1 = k1
  k2 = k2
  NoKey = NoKey
  Keys = {k1}
  Kinds = {"gmail", "icloud"}
  Emails = {e1, e2}
  QueueCap = 1
  MaxAccounts = 2
  MaxConnects = 2
  MaxDisconnects = 0
  MaxRequests = 1
  MaxCrashes = 1
  MaxFaults = 1
  MaxUpsets = 2
  MaxImports = 1
  MaxAlarms = 5
SYMMETRY Symmetry
INVARIANTS TypeOK IInv AlarmsBounded ErrorWasAnnounced SyncingIsLive
PROPERTY FirstSyncSuppressed
CHECK_DEADLOCK FALSE
