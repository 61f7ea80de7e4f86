CONSTANTS
  SeqBits = 4
  EthTypes = {"SEND", "RECEIVE"}
  SeqTxValues <- MCSeqTxValues
  Unset = Unset
  PeerIsns <- MCPeerIsns
  PeerReplies = {"SYNACK", "RSTACK"}
SPECIFICATION Spec
INVARIANTS
  TypeOK
  ConnectedOnlyToAcceptingPeer
PROPERTIES
  BothEstablished
CHECK_DEADLOCK FALSE
