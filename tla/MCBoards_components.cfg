CONSTANTS
  BusSize = 2
  StrikePoints = {"decided", "entered", "half set", "draining"}
  BmsTimers = 4
  FaultSources = {"killswitch"}
  Sections = 2
  FlashPages = {1, 2}
  Blobs <- ConfigBlobs
  Torn = torn
  BoardIds = {1, 2}
  DefaultId = 0
  LossMax = 2
  Commands <- MCCommands
  AnswerLen = 40
  Lossy = TRUE
  ChargerTimers = 3
  ChargerEvents = 2
  CurrentChecks = 2
  SolarCycles = 2
  Assertions = 2
SPECIFICATION BoardsSpec
INVARIANTS CommandFollowsFsm ChargedMeansBothPins FaultOpensRelays ConfirmedMeansClosed SensedOrFaulted LampsFollowSignal OneBlinker OneValidSection SomePageWhole ConfigSurvives DispatchedWasSent ReceptionWatched AnswerWhole ChargerSilent PoweredWhilePlugged FaultyArrayIsOpen
CONSTRAINT NotDisturbed
CHECK_DEADLOCK FALSE
