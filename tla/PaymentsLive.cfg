SPECIFICATION FairSpec
CONSTANTS
  Key = {k1}
  PaymentId = {p1}
  Handler = {h1, h2}
  None = None
  MaxFaults = 1
PROPERTY ChargeIsRecorded
