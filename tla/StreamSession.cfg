SPECIFICATION Spec
CONSTANTS
  MaxActivities = 3
CHECK_DEADLOCK FALSE
PROPERTIES
  SlotSpec
  NextServed
