SPECIFICATION Spec
CONSTANTS
  HasChoreographer = TRUE
  MaxTries = 1
  OutputLimit = 1
  MaxEvents = 2
CHECK_DEADLOCK FALSE
PROPERTY RecoveryTakesPlace
