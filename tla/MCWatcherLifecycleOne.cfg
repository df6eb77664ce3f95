CONSTANTS
  Server = {s1}
  Restarter = {x}
  Daemon = {d1, d2}
  Nobody = Nobody
  None = None
  MaxFaults = 0
SPECIFICATION Spec
INVARIANT OneDaemonPerProject
CHECK_DEADLOCK FALSE
