SPECIFICATION Spec
CONSTANTS
  Last = 2
  Including = {1, 2}
  Dispatching = {1, 2}
  MaxText = 2
  MaxReverts = 1
  MaxFaults = 0
  Forcing = {FALSE}
INVARIANT EveryUnchangedIsCurrent
