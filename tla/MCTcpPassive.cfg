CONSTANTS
  SeqBits = 4
  HarnessIsns <- MCHarnessIsns
  DutIsns <- MCDutIsns
  RecvSizeArgs <- MCRecvSizeArgs
  NoSize = NoSize
  DutSegments = 2
  PayloadLens <- MCPayloadLens
  PadTo = 6
  DutMayArp = TRUE
SPECIFICATION Spec
INVARIANTS
  TypeOK
  AckNumbersCumulative
  AckSeqIsRcvNxt
  CaptureIsDutData
PROPERTIES
  ProcessEnds
CHECK_DEADLOCK FALSE
