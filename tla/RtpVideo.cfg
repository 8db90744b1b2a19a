SPECIFICATION Spec
CONSTANTS
  Blocks <- MCTwoInTheMiddle
  Data = 3
  Parity = 1
  Extra = 1
  MaxLost = 3
  MaxReorder = 2
  MaxDup = 1
  DupAndReorder = FALSE
  Cooldown = 1
  SeqModulus = 16
  FirstSeq = 6
  Window = 2
INVARIANTS CountersAgree SubmittedWhole ReportsSound FecSuffices
CHECK_DEADLOCK FALSE
