SPECIFICATION Spec
CONSTANTS
  DirectSubmit = TRUE
  QueueBound = 0
  DropLimit = 3
  MaxFrame = 7
  MaxInFlight = 2
  MaxLosses = 3
  MaxCorrupt = 0
  MaxRefreshes = 1
  RfiEnabled = TRUE
  TupleBound = 2
INVARIANTS AnswerUnderWay TuplesOrdered
PROPERTIES DecoderGetsDecodable
CHECK_DEADLOCK FALSE
