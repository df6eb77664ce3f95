CONSTANTS
  q1 = q1
  q2 = q2
  r = r
  x = x
  Call <- MCTools
  Kind <- MCKind
  NoCall = NoCall
  MaxDeletes = 0
  MaxFaults = 0
SPECIFICATION Spec
INVARIANT MaintenanceAlone
CHECK_DEADLOCK FALSE
