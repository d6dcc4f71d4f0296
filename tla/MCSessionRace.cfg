SPECIFICATION Spec
CONSTANTS
  http = http
  framework = framework
  p1 = p1
  p2 = p2
  Callers <- MCCallers
  Protocols <- MCProtocols
  Offered <- MCOffered
  Faults <- MCFaults
  FileLengths <- MCFileLengths
  LoopRanges <- MCLoopRanges
  Prefetch = 1
SYMMETRY Symmetry
CHECK_DEADLOCK FALSE
INVARIANT StopEndsReplay
