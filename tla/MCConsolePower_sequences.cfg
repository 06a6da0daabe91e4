CONSTANTS
  Retries = 2
  EventSlots = 20
  Presses = 2
  BpsFaults = 1
SPECIFICATION Spec
INVARIANTS OneSequence RequestsInStep StepsConfirmed
PROPERTY TransitionEnds
CHECK_DEADLOCK FALSE
