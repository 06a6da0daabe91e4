CONSTANTS
  Retries = 2
  EventSlots = 20
  Presses = 1
  BpsFaults = 0
SPECIFICATION Spec
INVARIANT StateAgrees
CHECK_DEADLOCK FALSE
