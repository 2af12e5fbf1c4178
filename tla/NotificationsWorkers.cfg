SPECIFICATION StorefrontSpec
CONSTANTS
  Order = {o1, o2}
  Worker = {w1, w2}
  None = None
  MaxCounted = 2
  MaxLost = 1
  MaxExpired = 1
  MaxCrashes = 1
  Item = {i1}
  MaxQuantity = 2
  City = {c1}
  Customer = {u1}
  Nothing = Nothing
  MaxKeys = 2
  MaxCalls = 2
  MaxReloads = 1
  PollAttempts = 1
  MaxItems = 2
  MaxFiles = 2
  MaxRequests = 2
  MaxPosition = 3
INVARIANTS
  MailInv
  OneWorkerPerJob
  SentWasMailed
  OneMailPerOrder
  CheckoutInv
  ImagesInv
  OfficeTakesTheParcels
  OrderIsWhatWasSubmitted
  SubmittedOnce
  RowHasItsFile
  PositionsDistinct
CHECK_DEADLOCK FALSE
