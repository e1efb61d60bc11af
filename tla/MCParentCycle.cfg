SPECIFICATION Spec
CONSTANTS
  Ids = {a, b}
  Tenants = {t}
  Columns = {status}
  Values = {open}
  Kinds = {dependsOn}
  Procs = {p, q}
  Requests <- Moves
  Ingested <- PublicRows
  MaxRequests = 3
  Keep = Keep
  None = None
  a = a
  b = b
  t = t
  status = status
  open = open
  dependsOn = dependsOn
  p = p
  q = q
SYMMETRY Symmetry
INVARIANT FacetsFormTrees
CHECK_DEADLOCK FALSE
