CONSTANTS
  TimerIds = {0, 1, 2}
  Modulus = 10
  MinTime = 3
  Offset = 1
  Durations = {2, 3, 5}
  ExpiryValues = {1, 2, 4, 6, 7, 9}
  Latency = 1
  StartTime = 6
  Horizon = 19
SPECIFICATION Spec
INVARIANTS ListLinksRunning ListInOrder OnTime
PROPERTY NeverEarly
