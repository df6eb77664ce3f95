CONSTANTS
  Server = {s1, s2}
  Restarter = {x}
  Daemon = {d1, d2}
  Nobody = Nobody
  None = None
  MaxFaults = 1
SPECIFICATION Spec
INVARIANTS TypeOK EndpointOfTheWatcher
PROPERTIES WatcherReturns DaemonsLeave
CHECK_DEADLOCK FALSE
