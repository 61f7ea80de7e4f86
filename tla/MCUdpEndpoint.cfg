CONSTANTS
  p1 = p1
  p2 = p2
  p3 = p3
  Kinds <- MCKinds
  PcapData <- MCPcapData
  SendSize = 2
  WaitArgs <- MCWaitArgs
  RecvSize = 2
  DutDatagrams = 2
  Generated = Generated
  NoWait = NoWait
SPECIFICATION Spec
INVARIANTS
  TypeOK
  PcapSentExactlyOnce
PROPERTIES
  ThreadsEnd
CHECK_DEADLOCK FALSE
