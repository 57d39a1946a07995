SPECIFICATION SPSCFairSpec
CONSTANTS
  Thread = {producer, consumer}
  Producer = producer
  Consumer = consumer
  AcquireFences = FALSE
  CountRange = 8
  null = null
  Uninit = Uninit
  MaxWakes = 1
  MaxEnqueues = 2
  MaxDequeues = 3
INVARIANTS
  SPSCTypeOK
PROPERTIES
  DequeueReturns
  ImplementsQueue
CHECK_DEADLOCK FALSE
