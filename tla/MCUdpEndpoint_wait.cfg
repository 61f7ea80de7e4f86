CONSTANTS
  p1 = p1
  p2 = p2
  p3 = p3
  Kinds <- MCKindRnd
  PcapData <- MCPcapData
  SendSize = 2
  WaitArgs <- MCWaitArgsEqual
  RecvSize = 2
  DutDatagrams = 2
  Generated = Generated
  NoWait = NoWait
SPECIFICATION Spec
INVARIANT WaitWithinBounds
CHECK_DEADLOCK FALSE
