CONSTANTS
  DataShards = 2
  FecShards = 1
  SeqModulus = 16
  DirectSubmit = FALSE
  QueueBound = 1
  InitialDrop = 1
  FirstPosition = 8
  LastPacket = 18
  Odd <- MCOdd
  Crooked <- MCCrooked
  Window = 4
  MaxWaiting = 3
  MaxLost = 3
  MaxStray = 1
SPECIFICATION Spec
INVARIANTS BlockStateValid PlayedInOrder FastRecovery Unambiguous
PROPERTIES FecSuffices PlayoutSpec
