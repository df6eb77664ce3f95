\* One run over two TUs is enough to refute WorldHasBuild.
SPECIFICATION Spec
CONSTANTS
  Runs = {r1}
  TUs = {t1, t2}
  States = {s1}
  Sensitive = {}
  Snapshots = {n1}
  Sessions = {}
  MaxWorld = 2
  Poisoned = Poisoned
  None = None
  MaxActors = 4
INVARIANT WorldHasBuild
