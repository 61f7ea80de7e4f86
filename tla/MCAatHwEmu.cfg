CONSTANTS
  p1 = p1
  p2 = p2
  p3 = p3
  PcapData <- MCPcapData
  Generated = Generated
  NoWait = NoWait
  SeqBits = 4
  HarnessIsns = {0}
  DutIsns = {0}
  RecvSizeArgs <- MCRecvSizeArgs
  NoSize = NoSize
  PayloadLens = {1}
  PadTo = 6
  DutBuf = 2
  EgressCap = 1
SPECIFICATION Spec
INVARIANTS
  TimestampMeansAllFed
PROPERTIES
  ScriptEnds
CHECK_DEADLOCK FALSE
