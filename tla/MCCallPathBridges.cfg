CONSTANTS
  Function <- MCFunction
  Ctors = Ctors
  NoFunction = NoFunction
  Graphs <- MCGraphs
  Queries <- MCQueries
  MaxPaths = 2
SPECIFICATION Spec
INVARIANT BridgesAreFollowed
CHECK_DEADLOCK FALSE
