SPECIFICATION TimelineSpec
CONSTANTS
  Positions <- MCPositions
  Speeds <- MCSpeeds
  NormalSpeed = 2
  MaxClock = 4
INVARIANT
  TimelineTypeOK
PROPERTY
  ImplementsPlaybackClock
