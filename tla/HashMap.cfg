SPECIFICATION Spec
CONSTANTS
  Thread = {a, b, c}
  AcquireFences = FALSE
  Key = {1, 2, 3}
  capacity = 2
  CONCURRENCY_LEVEL = 2
  null = null
  Uninit = Uninit
  Before <- MCBefore
  MaxPuts = 2
  MaxGets = 2
SYMMETRY Symmetry
INVARIANTS
  TypeOK
PROPERTIES
  ImplementsMap
