SPECIFICATION Spec
CONSTANTS
  Last = 2
  Including = {1, 2}
  Dispatching = {1}
  MaxText = 2
  MaxReverts = 1
  MaxFaults = 2
  Forcing = {FALSE, TRUE}
INVARIANTS TypeOK UnchangedMeansCurrent LostEdgesReparsed LostMacrosExpanded
PROPERTIES IndexConverges SettledRunsParseNothing
CONSTRAINT FewDisturbances
