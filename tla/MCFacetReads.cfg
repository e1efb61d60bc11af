SPECIFICATION FairSpec
CONSTANTS
  Ids = {a, b, c}
  Tenants = {t}
  Columns = {status}
  Values = {open, done}
  Kinds = {dependsOn}
  Ingested <- NoRows
  DependsOn = dependsOn
  Status = status
  Done = done
  Scenarios <- ReadScenarios
  MaxWrites = 2
  Focus = a
  Other = b
  None = None
  a = a
  b = b
  c = c
  t = t
  status = status
  open = open
  done = done
  dependsOn = dependsOn
INVARIANTS NothingStableIsMissed NothingUnseenIsReported
PROPERTY ReadsAreAnswered
CHECK_DEADLOCK FALSE
