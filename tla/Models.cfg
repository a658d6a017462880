SPECIFICATION Spec
CONSTANTS
  a = a
  b = b
  x = x
  y = y
  c1 = c1
  c2 = c2
  i1 = i1
  i2 = i2
  d1 = d1
  Names = {a, b, x, y}
  None = None
  Keep = Keep
  Gone = Gone
  Instances = {i1, i2}
  Callers = {c1, c2}
  At <- CallerAt
  Imported = 2
  MaxRows = 3
  Contents = {1, 2}
  Deployments = {d1}
  Creates <- OneCreate
  Updates <- OneFieldEach
  Imports <- OneImport
  Yaml <- TwoModels
  FallbackAt = {i1}
  MaxReloads = 1
  MaxEvents = 2
INVARIANTS AliasesOwned QuietMeansCurrent FallbacksAcyclic
CHECK_DEADLOCK FALSE
