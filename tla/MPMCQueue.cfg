SPECIFICATION FairSpec
CONSTANTS
  Thread = {a, b, c}
  Writer = {a, c}
  Reader = {b, c}
  AcquireFences = FALSE
  t_size = 2
  CountRange = 8
  Started = 7
  MaxWrites = 3
  MaxReads = 3
INVARIANTS
  TypeOK
  BinHasOneHolder
  BinIsHandedOver
PROPERTIES
  WaitsEnd
