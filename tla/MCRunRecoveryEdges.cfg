\* Runs that are never stopped and never fail, some of them forced.
SPECIFICATION Spec
CONSTANTS
  Last = 2
  Including = {1, 2}
  Dispatching = {1, 2}
  MaxText = 1
  MaxReverts = 0
  MaxFaults = 0
  Forcing = {FALSE, TRUE}
INVARIANT StopLosesNoEdges
