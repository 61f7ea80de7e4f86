CONSTANTS
  SeqBits = 4
  HarnessIsns <- MCHarnessIsns
  DutIsns <- MCDutIsnNoWrap
  RecvSizeArgs <- MCRecvSizeOmitted
  NoSize = NoSize
  DutSegments = 2
  PayloadLens <- MCPayloadLens
  PadTo = 6
  DutMayArp = FALSE
SPECIFICATION Spec
PROPERTY RunCompletes
CHECK_DEADLOCK FALSE
