CONSTANTS
  Bytes <- MCBytes
  MaxLen = 5
  BusWidths <- MCBusWidths
  MaxPackets = 2
  NoWord = NoWord
SPECIFICATION Spec
INVARIANTS
  TypeOK
  ChunksMatchReference
  RoundTrip
PROPERTIES
  ImplementsPacketChannel
CHECK_DEADLOCK FALSE
