SPECIFICATION Spec
CONSTANTS
  Thread = {t1, t2}
  AcquireFences = TRUE
  IntMax = 1
  MaxReads = 1
  MaxWrites = 2
INVARIANTS
  ReadIsConsistent
