SPECIFICATION Spec
CONSTANTS
  Thread = {t1, t2, t3}
  AcquireFences = FALSE
  Bias = 2
  MaxAttempts = 4
SYMMETRY ThreadSymmetry
INVARIANTS
  TypeOK
  HoldersCompatible
  CounterAccounts
  UnlockHappensBeforeLock
PROPERTIES
  FailsOnlyUnderContention
