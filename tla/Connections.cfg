SPECIFICATION Spec
CONSTANTS
  o1 = o1
  o2 = o2
  e1 = e1
  r1 = r1
  r2 = r2
  s1 = s1
  NoState = NoState
  NoAccount = NoAccount
  Idle = Idle
  NoEmail = NoEmail
  Password = Password
  Logins = {o1, o2}
  Emails = {e1}
  States = {s1}
  Requests = {r1, r2}
  Lifetime = 1
  MaxAccounts = 2
  MaxTime = 1
  MaxWrites = 3
  MaxFailures = 1
SYMMETRY Symmetry
INVARIANTS TypeOK AuthorizedOnce AuthorizedByOwner EventsTellWhatHappened
