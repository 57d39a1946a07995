SPECIFICATION DequeSpec
CONSTANTS
  Thread = {main, t1, t2}
  Owner = main
  AcquireFences = TRUE
  SizeMax = 15
  EMPTY = EMPTY
  TakeWhenNew = FALSE
  MaxPushes = 3
  MaxTakes = 2
  MaxSteals = 2
SYMMETRY ThiefSymmetry
INVARIANTS
  DequeTypeOK
  EachItemOnce
  TakeFailsOnlyWhenStolen
PROPERTIES
  ImplementsDeque
