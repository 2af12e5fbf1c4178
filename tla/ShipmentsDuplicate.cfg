SPECIFICATION Spec
CONSTANTS
  Order = {o1}
  Uuid = {u1, u2}
  Handler = {h1, h2}
  None = None
  PollAttempts = 2
  MaxLost = 1
  MaxCrashes = 0
SYMMETRY Symmetry
INVARIANT OneLiveShipment
