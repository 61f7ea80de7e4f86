CONSTANTS
  SeqBits = 4
  EthTypes = {"SEND"}
  SeqTxValues <- MCSeqTxUnset
  Unset = Unset
  PeerIsns <- MCPeerIsnMiddle
  PeerReplies = {"SYNACK"}
SPECIFICATION Spec
PROPERTY PeerEstablished
CHECK_DEADLOCK FALSE
