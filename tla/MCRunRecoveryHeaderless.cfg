SPECIFICATION Spec
CONSTANTS
  Last = 2
  Including = {1}
  Dispatching = {1, 2}
  MaxText = 2
  MaxReverts = 0
  MaxFaults = 0
  Forcing = {FALSE}
PROPERTY SettledRunsParseNothing
