\* One run and one session are enough to refute ServedIsQueryable.
SPECIFICATION Spec
CONSTANTS
  Runs = {r1}
  TUs = {t1}
  States = {s1}
  Sensitive = {}
  Snapshots = {n1}
  Sessions = {q1}
  MaxWorld = 2
  Poisoned = Poisoned
  None = None
  MaxActors = 4
PROPERTY ServedIsQueryable
