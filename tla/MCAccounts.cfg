SPECIFICATION Spec
CONSTANTS
  Procs = {p, q}
  Users = {u}
  Names = {n}
  Outsider = x
  Keys = {k}
  Refreshes = {r, r2}
  RefreshTTL = 1
  Asks <- AskClasses
  Half = 8
  MaxDuration = 7
  LastDate = 6
  FirstReadable = 0
  LastReadable = 4
  MaxTime = 2
  MaxRequests = 3
  MaxFailures = 1
  None = None
  p = p
  q = q
  u = u
  n = n
  x = x
  k = k
  r = r
  r2 = r2
INVARIANTS TypeOK RevokedKeysAreGone KeysKeepTheirTerm
PROPERTIES LateCredentialsRefused CredentialsStay
CHECK_DEADLOCK FALSE
