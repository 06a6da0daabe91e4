CONSTANTS
  Capacity = 2
  TimerIds = {0, 1, 2}
  Messages = {0, 1}
  a = a
  b = b
  Devices = {a, b}
  Requests <- MCRequests
  PreemptPoints <- AllPoints
SPECIFICATION Spec
CONSTRAINT NotTorn
INVARIANTS ListMatchesPool EveryRequestWatched OneOutcome EndedRequestsLeave
PROPERTIES OtherTimersUntouched EveryRequestEnds
