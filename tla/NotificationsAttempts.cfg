SPECIFICATION Spec
CONSTANTS
  Order = {o1}
  Worker = {w1}
  None = None
  MaxCounted = 6
  MaxLost = 0
  MaxExpired = 0
  MaxCrashes = 1
INVARIANT AtMostThreeAttempts
