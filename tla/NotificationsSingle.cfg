SPECIFICATION SiteSpec
CONSTANTS
  Order = {o1, o2}
  Worker = {w1}
  None = None
  MaxCounted = 6
  MaxLost = 1
  MaxExpired = 0
  MaxCrashes = 1
  Object = {"1", "2"}
  MaxEvents = 3
  ListedOrder = {1, 2, 3}
  Expensive = {1}
  Matching = {2, 3}
  Limit = 2
  MaxActions = 3
  MaxLoads = 2
  OrderId = {o1}
  Caller = {c1, c2}
  Life = 6
  Margin = 2
  Timeout = 1
  MaxTime = 12
  MaxVersion = 2
  MaxWrites = 1
INVARIANTS
  SiteInv
  RetentionInv
  BackupInv
  StackIsSound
  NothingPaidIsDeleted
  NoDeadToken
  SnapshotIsConsistent
  ServicesComeBack
  RunningCodeFitsSchema
PROPERTIES
  ImplementsOutbox
  EveryJobEnds
  ComesToRest
  StaysInStep
  TableSettles
CHECK_DEADLOCK FALSE
