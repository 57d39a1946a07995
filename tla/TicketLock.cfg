SPECIFICATION TicketFairSpec
CONSTANTS
  Thread = {t1, t2, t3}
  AcquireFences = FALSE
  UintRange = 4
  MaxRequests = 4
INVARIANTS
  TicketTypeOK
  HandoffHappensBefore
  FirstComeFirstServed
PROPERTIES
  LockIsGranted
  ImplementsLock
