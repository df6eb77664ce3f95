\* A run is stopped once; files change between two runs only.
SPECIFICATION Spec
CONSTANTS
  Last = 2
  Including = {1, 2}
  Dispatching = {1, 2}
  MaxText = 2
  MaxReverts = 1
  MaxFaults = 1
  Forcing = {FALSE}
ACTION_CONSTRAINT QuietRuns
INVARIANT EveryUnchangedIsCurrent
