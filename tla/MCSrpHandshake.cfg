SPECIFICATION FairSpec
CONSTANTS
  Procs = {p, q}
  Identities = {i}
  Sessions = {s, s2}
  TTL = 1
  Second = 2
  MaxTime = 4
  MaxRequests = 3
  MaxFailures = 1
  None = None
  p = p
  q = q
  i = i
  s = s
  s2 = s2
INVARIANTS TypeOK UsedSessionsAreGone TradedSessionsAreGone
PROPERTIES LateProofsRefused FreshSessionsStay RequestsAreAnswered
CHECK_DEADLOCK FALSE
