----------------------------- MODULE MCTcpActive -----------------------------
(* Model-checking instance of TcpActive with 4-bit sequence numbers.      *)
(* The passing run takes seq_tx unset (as every caller in the repository *)
(* leaves it) or any value of the 4-bit space, and any peer ISN, so that  *)
(* seq_tx + 1 and seq_rx + 1 both reach 2^w.  The violation run leaves    *)
(* seq_tx unset; MCSeqTxTop and MCPeerIsnTop pin the two wrap cases.      *)
EXTENDS TcpActive

MCSeqTxValues == {Unset} \cup (0..(Mod - 1))
MCSeqTxUnset == {Unset}
MCSeqTxMiddle == {3}
MCSeqTxTop == {15}
MCPeerIsns == 0..(Mod - 1)
MCPeerIsnMiddle == {6}
MCPeerIsnTop == {15}
=============================================================================
