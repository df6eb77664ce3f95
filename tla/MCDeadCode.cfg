CONSTANTS
  Function <- MCFunction
  Ctors = Ctors
  NoFunction = NoFunction
  Graphs <- MCGraphs
SPECIFICATION Spec
INVARIANTS TypeOK ReportedIsUnreachable ReachedHasReason ComponentsAreCycles
CHECK_DEADLOCK FALSE
