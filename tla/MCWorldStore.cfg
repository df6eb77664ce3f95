SPECIFICATION Spec
CONSTANTS
  Runs = {r1, r2}
  TUs = {t1, t2}
  States = {s1}
  Sensitive = {s1}
  Snapshots = {n1}
  Sessions = {q1}
  MaxWorld = 2
  Poisoned = Poisoned
  None = None
  MaxActors = 3
CONSTRAINT FewActors
SYMMETRY Symmetry
INVARIANTS
  TypeOK
  OneWorldPerIdentity
  BoundToPublished
  SpellingUnique
PROPERTIES
  RowsImmutable
  ActivatedWorldKeepsRun
