SPECIFICATION FairSpec
CONSTANTS
  http = http
  p1 = p1
  Callers <- MCCallers
  Offered <- MCOffered
  Faults <- MCFaults
  Protocols <- MCProtocols
  FileLengths <- MCFileLengths
  LoopRanges <- MCLoopRanges
  Prefetch = 1
CHECK_DEADLOCK FALSE
INVARIANTS
  StateTellsWhatRuns
  StopIsFinal
  NoStalePacketSent
  ShownActiveReplays
PROPERTY
  CallsReturn
