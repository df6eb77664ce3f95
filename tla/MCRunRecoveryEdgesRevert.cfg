\* Runs that are never stopped, never fail and are never forced; a text may come back.
SPECIFICATION Spec
CONSTANTS
  Last = 2
  Including = {1, 2}
  Dispatching = {1, 2}
  MaxText = 2
  MaxReverts = 1
  MaxFaults = 0
  Forcing = {FALSE}
INVARIANT StopLosesNoEdges
