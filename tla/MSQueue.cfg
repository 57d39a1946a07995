SPECIFICATION MSSpec
CONSTANTS
  Thread = {t1, t2, t3}
  AcquireFences = FALSE
  null = null
  POISON = POISON
  MAX_FREELIST = 4
  INITIAL_FREE = 2
  CountRange = 16
  MaxEnqueues = 3
  MaxDequeues = 2
  MaxCalls = 4
SYMMETRY ThreadSymmetry
INVARIANTS
  MSTypeOK
  NodeInOnePlace
PROPERTIES
  EmptyIsJustified
  ImplementsQueue
