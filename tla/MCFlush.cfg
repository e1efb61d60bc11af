SPECIFICATION Spec
CONSTANTS
  Ids = {a, b, c}
  Tenants = {}
  Columns = {title}
  Values = {x, y, blank, void}
  Kinds = {}
  None = None
  Title = title
  Compared = {title}
  Extras = {}
  Texts = {x, y}
  ReadsAs <- Read
  SlugOf <- Slugged
  Unset = x
  Stores <- SomeForests
  MaxChanges = 2
  a = a
  b = b
  c = c
  title = title
  x = x
  y = y
  blank = blank
  void = void
SYMMETRY Symmetry
INVARIANTS FlushSettles DriftIsExplained
PROPERTIES ConflictsAreSkipped FlushSparesForeign
CHECK_DEADLOCK FALSE
