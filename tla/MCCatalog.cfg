SPECIFICATION Spec
CONSTANTS
  Bad = Bad
  Invalid = Bad
  AutoStart <- MCAutoStart
  Protocols <- MCProtocols
  Configs <- MCConfigs
  Default <- MCDefault
  Mappings <- MCMappings
  MaxFaults = 1
  MaxRequests = 3
CHECK_DEADLOCK FALSE
INVARIANT
  NothingStale
  EngineKnowsCaptures
  ShutdownClosesFile
PROPERTY
  StartedOnce
