\* Two processes and two keys: a renewal of one key commits what a refused
\* claim of the other key left uncommitted on the same connection.
SPECIFICATION Spec
CONSTANTS
  Owners = {w1, w2}
  Keys = {k1, k2}
  Digests = {d1, d2}
  None = None
  Gone = Gone
  MaxEvents = 1
SYMMETRY Symmetry
CONSTRAINTS
  FewEvents
  OneDoomed
INVARIANTS
  TypeOK
  OneShotConflictRecorded
PROPERTIES
  SuccessStands
  LiveClaimRespected
  NoDivergentAdoption
  ImplementsPublishedFacts
