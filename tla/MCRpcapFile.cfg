SPECIFICATION Spec
CONSTANTS
  Times <- MCTimes
  Targets <- MCTargets
  KeyframeInterval = 1
  FlushThreshold = 2
  Wrap = 4
  Buckets = 2
  MaxPackets = 3
  MaxFaults = 1
  OverwriteOpen = FALSE
CHECK_DEADLOCK FALSE
INVARIANT
  HeaderTellsTheTruth
  ReadsToTheEnd
  DensityAddsUp
PROPERTY
  ImplementsPacketLog
  SeekReturns
