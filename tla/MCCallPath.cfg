CONSTANTS
  Function <- MCFunction
  Ctors = Ctors
  NoFunction = NoFunction
  Graphs <- MCGraphs
  Queries <- MCQueries
  MaxPaths = 2
SPECIFICATION Spec
INVARIANTS TypeOK PathsAreReal PathsAgreeWithCallers CalleesInvertCallers
PROPERTY SearchEnds
CHECK_DEADLOCK FALSE
