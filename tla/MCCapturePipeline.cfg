SPECIFICATION FairSpec
CONSTANTS
  udp = udp
  tcp = tcp
  Protocols <- MCProtocols
  Requests <- MCRequests
  Plugins <- MCPlugins
  SharedIo <- MCNone
  Failing <- MCProtocols
  RingSize = 1
  MaxPackets <- MCPackets
  Filtered <- MCFiltered
  MaxRecordings = 1
INVARIANTS
  TypeOK
  CapturedIsWritten
  RecordingLeavesWriter
  StoppedIsQuiet
PROPERTIES
  NothingHangs
