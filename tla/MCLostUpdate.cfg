SPECIFICATION Spec
CONSTANTS
  Ids = {a}
  Tenants = {t}
  Columns = {title, status}
  Values = {x, y}
  Kinds = {}
  Procs = {p, q}
  Requests <- EditRequests
  Ingested <- StoredRows
  MaxRequests = 2
  Keep = Keep
  None = None
  a = a
  t = t
  title = title
  status = status
  x = x
  y = y
  p = p
  q = q
SYMMETRY Symmetry
PROPERTY OmittedFieldsUnchanged
CHECK_DEADLOCK FALSE
