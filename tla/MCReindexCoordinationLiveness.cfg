SPECIFICATION Spec
CONSTANTS
  Files = {f1}
  Runs = {r1, r2}
  Manuals = {m1}
  MaxEdits = 1
  MaxCli = 1
  MaxOps = 3
  MaxBoots = 1
  None = None
CHECK_DEADLOCK FALSE
PROPERTY ChangesGetIndexed
