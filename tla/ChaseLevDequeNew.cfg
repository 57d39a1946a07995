SPECIFICATION DequeSpec
CONSTANTS
  Thread = {main, t1}
  Owner = main
  AcquireFences = TRUE
  SizeMax = 15
  EMPTY = EMPTY
  TakeWhenNew = TRUE
  MaxPushes = 3
  MaxTakes = 2
  MaxSteals = 2
INVARIANTS
  EachItemOnce
