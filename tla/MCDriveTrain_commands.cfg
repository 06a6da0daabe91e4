CONSTANTS
  BusSize = 2
  DriveRetries = 2
  StrikePoints = {}
SPECIFICATION TrainSpec
CONSTRAINT NotCrossed
ACTION_CONSTRAINT PrechargeInTime
INVARIANTS TrainTypeOK DestinationInRange DriveMeansDriving
PROPERTY DriveTransitionEnds
