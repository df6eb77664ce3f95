CONSTANTS
  Server = {s1, s2}
  Restarter = {x}
  Daemon = {d1, d2}
  Nobody = Nobody
  None = None
  MaxFaults = 1
SPECIFICATION Spec
INVARIANT MarkerOfTheWatcher
CHECK_DEADLOCK FALSE
