CONSTANTS
  SeqBits = 4
  HarnessIsns <- MCHarnessIsns
  DutIsns <- MCDutIsns
  RecvSizeArgs <- MCRecvSizeGiven
  NoSize = NoSize
  DutSegments = 2
  PayloadLens <- MCPayloadLens
  PadTo = 6
  DutMayArp = FALSE
SPECIFICATION Spec
PROPERTY HandshakeAccepted
CHECK_DEADLOCK FALSE
