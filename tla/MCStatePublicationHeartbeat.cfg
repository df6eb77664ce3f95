\* Two processes and one key are enough to refute HeartbeatOwnerConditional.
SPECIFICATION Spec
CONSTANTS
  Owners = {w1, w2}
  Keys = {k1}
  Digests = {d1, d2}
  None = None
  Gone = Gone
  MaxEvents = 4
PROPERTY HeartbeatOwnerConditional
