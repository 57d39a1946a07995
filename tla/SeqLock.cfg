SPECIFICATION FairSpec
CONSTANTS
  Thread = {t1, t2, t3}
  AcquireFences = TRUE
  IntMax = 7
  MaxReads = 1
  MaxWrites = 2
INVARIANTS
  TypeOK
  ReadIsVersion
  SequenceCountsWrites
PROPERTIES
  CallsReturn
