\* One run, one TU and the collector are enough to refute RootsSurvive.
SPECIFICATION Spec
CONSTANTS
  Runs = {r1}
  TUs = {t1}
  States = {s1}
  Sensitive = {}
  Snapshots = {n1}
  Sessions = {}
  MaxWorld = 2
  Poisoned = Poisoned
  None = None
  MaxActors = 4
PROPERTY RootsSurvive
