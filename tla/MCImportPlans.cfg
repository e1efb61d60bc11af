SPECIFICATION Spec
CONSTANTS
  Ids = {a, b, c, d, e, f}
  Tenants = {t}
  Columns = {}
  Values = {}
  Kinds = {dependsOn, blocks}
  Ingested <- NoRows
  Repos = {r1, r2}
  Epics = {e1, e2}
  Names = {n1, n2, n3}
  DependsOn = dependsOn
  Blocks = blocks
  Workspaces <- PlanWorkspaces
  Plain <- OnlyContents
  MaxFailures = 2
  MaxWrites = 1
  None = None
  a = a
  b = b
  c = c
  d = d
  e = e
  f = f
  t = t
  r1 = r1
  r2 = r2
  e1 = e1
  e2 = e2
  n1 = n1
  n2 = n2
  n3 = n3
  dependsOn = dependsOn
  blocks = blocks
INVARIANTS NoStrays ImportedAsPlanned ReportIsHonest
PROPERTY OnlyDeclaredEdges
CHECK_DEADLOCK FALSE
