SPECIFICATION FairSpec
CONSTANTS
  Thread = {t1, t2, t3}
  AcquireFences = FALSE
  Argument <- MainArguments
  Uninit = Uninit
  MaxReads = 2
  MaxWrites = 2
INVARIANTS
  TypeOK
  ReadIsSnapshot
PROPERTIES
  ImplementsCounters
  WriteReturns
