SPECIFICATION Spec
CONSTANTS
  Files = {f1,f2}
  Runs = {r1, r2}
  Manuals = {m1,m2}
  MaxEdits = 1
  MaxCli = 1
  MaxOps = 2
  MaxBoots = 2
  None = None
CONSTRAINT FewWhenLost
SYMMETRY Symmetry
CHECK_DEADLOCK FALSE
INVARIANTS
  TypeOK
  NoForgottenChange
  MarkerTellsTheTruth
  OneIndexer
