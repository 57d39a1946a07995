SPECIFICATION FairSpec
CONSTANTS
  Thread = {t1, t2, t3}
  Null = Null
  AcquireFences = FALSE
  MaxCalls = 3
INVARIANTS
  TypeOK
  HandoffHappensBefore
  NodeOutlivesAccess
  QueueOrder
PROPERTIES
  NobodyWaitsForever
