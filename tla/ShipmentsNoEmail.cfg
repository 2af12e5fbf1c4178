SPECIFICATION FairSpec
CONSTANTS
  Order = {o1}
  Uuid = {u1}
  Handler = {h1}
  None = None
  PollAttempts = 2
  MaxLost = 1
  MaxCrashes = 0
PROPERTY CreatedIsEmailed
