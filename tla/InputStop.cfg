SPECIFICATION Spec
CONSTANTS
  c1 = c1
  c2 = c2
  Clients = {c1, c2}
  Scrollers = {c1}
  Events <- MCEvents
  Early <- MCEarly
  Amounts <- MCAmounts
  WheelDelta = 2
  DeltaMin <- MCDeltaMin
  DeltaMax = 2
  QueueBound = 2
  ShortText = 1
  Holders <- MCHolders
  MaxCalls = 2
PROPERTY StopReturns
