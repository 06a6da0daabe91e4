CONSTANTS
  TimerIds = {0, 1}
  Modulus = 10
  MinTime = 3
  Offset = 1
  Durations = {2, 3, 5}
  ExpiryValues = {1, 2, 3, 4, 5, 6, 7, 8, 9}
  Latency = 0
  StartTime = 6
  Horizon = 36
SPECIFICATION Spec
INVARIANT Punctual
CONSTRAINT Undisturbed
