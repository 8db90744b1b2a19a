SPECIFICATION Spec
CONSTANTS
  DirectSubmit = FALSE
  QueueBound = 1
  DropLimit = 4
  MaxFrame = 5
  MaxInFlight = 2
  MaxLosses = 2
  MaxCorrupt = 1
  MaxRefreshes = 1
  RfiEnabled = TRUE
  TupleBound = 2
INVARIANTS LossHandled
PROPERTIES DecodableUntilRefresh
CHECK_DEADLOCK FALSE
