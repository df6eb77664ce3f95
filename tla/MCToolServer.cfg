CONSTANTS
  q1 = q1
  q2 = q2
  r = r
  x = x
  Call <- MCQueries
  Kind <- MCKind
  NoCall = NoCall
  MaxDeletes = 1
  MaxFaults = 1
SPECIFICATION Spec
INVARIANTS TypeOK FreshReads StopsOnlyAbandoned
PROPERTY EveryCallReturns
CHECK_DEADLOCK FALSE
