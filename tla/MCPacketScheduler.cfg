SPECIFICATION FairSpec
CONSTANTS
  NumPackets = 4
  CaptureTime <- MCCaptureTime
  Prefetch = 2
  Speed = 1
  NormalSpeed = 2
  MaxClock = 3
  MaxStops = 3
CHECK_DEADLOCK FALSE
INVARIANTS
  TypeOK
  QuietAfterStop
  LossBoundedByStops
  HandedOverOnce
  NeverEarly
PROPERTY
  QueuedIsServed
