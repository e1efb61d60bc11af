SPECIFICATION Spec
CONSTANTS
  Ids = {a, b}
  Tenants = {t, u}
  Columns = {title, status}
  Values = {x, y}
  Kinds = {}
  Procs = {p, q}
  Requests <- EditRequests
  Ingested <- StoredRows
  MaxRequests = 2
  Keep = Keep
  None = None
  a = a
  b = b
  t = t
  u = u
  title = title
  status = status
  x = x
  y = y
  p = p
  q = q
SYMMETRY EditSymmetry
INVARIANTS TypeOK ClearanceHolds HeldTenantsCurrent DeletesAreFinal DeletedOnce
PROPERTIES TenantFrozen MovesStick
CHECK_DEADLOCK FALSE
