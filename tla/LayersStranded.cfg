SPECIFICATION LayersSpec
CONSTANTS
  Object = {"1", "2"}
  MaxEvents = 2
INVARIANT PathRestoresLayers
CHECK_DEADLOCK FALSE
