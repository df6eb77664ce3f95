CONSTANTS
  q1 = q1
  q2 = q2
  r = r
  x = x
  Call <- MCQueries
  Kind <- MCKind
  NoCall = NoCall
  MaxDeletes = 1
  MaxFaults = 0
SPECIFICATION Spec
INVARIANT EveryReadIsFresh
CHECK_DEADLOCK FALSE
