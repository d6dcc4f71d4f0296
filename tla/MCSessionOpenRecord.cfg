SPECIFICATION Spec
CONSTANTS
  http = http
  p1 = p1
  Callers <- MCCallers
  Protocols <- MCProtocols
  Offered <- MCOffered
  Faults <- MCFaults
  FileLengths <- MCFileLengths
  LoopRanges <- MCLoopRanges
  Prefetch = 3
CHECK_DEADLOCK FALSE
INVARIANT StopEndsCapture
