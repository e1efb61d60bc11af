SPECIFICATION Spec
CONSTANTS
  Ids = {a, b}
  Tenants = {t, u}
  Columns = {status}
  Values = {open}
  Kinds = {dependsOn}
  Procs = {p, q}
  Requests <- GraphRequests
  Ingested <- PublicRows
  MaxRequests = 3
  Keep = Keep
  None = None
  a = a
  b = b
  t = t
  u = u
  status = status
  open = open
  dependsOn = dependsOn
  p = p
  q = q
SYMMETRY Symmetry
INVARIANT Integrity
PROPERTY AtomicWrites
CHECK_DEADLOCK FALSE
