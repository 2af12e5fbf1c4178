SPECIFICATION RacesSpec
CONSTANTS
  Key = {k1}
  PaymentId = {p1, p2}
  Handler = {h1, h2}
  None = None
  MaxFaults = 0
SYMMETRY Symmetry
INVARIANTS
  RacesInv
  PaidOrderWasCharged
  LocalOutcomeIsReal
  TwoLinksNeedARace
  ChargedAloneIsCurrent
PROPERTY ImplementsLifecycle
