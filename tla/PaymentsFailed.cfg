SPECIFICATION Spec
CONSTANTS
  Key = {k1}
  PaymentId = {p1}
  Handler = {h1}
  None = None
  MaxFaults = 0
INVARIANT FailedIsExplicit
