SPECIFICATION IndexSpec
CONSTANTS
  Ids = {a, b, c}
  Tenants = {}
  Columns = {title}
  Values = {apple, beta}
  Kinds = {}
  Text = title
  MaxDocs = 6
  None = None
  a = a
  b = b
  c = c
  title = title
  apple = apple
  beta = beta
SYMMETRY Symmetry
INVARIANTS IndexTypeOK LiveTermsAreIndexed InsertsOnlyIsExact
PROPERTIES PlaceIsStable
CHECK_DEADLOCK FALSE
