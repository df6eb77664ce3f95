CONSTANTS
  Function <- MCFunction
  Ctors = Ctors
  NoFunction = NoFunction
  Graphs <- MCGraphs
SPECIFICATION Spec
INVARIANT VectorSlotIsUncertain
CHECK_DEADLOCK FALSE
