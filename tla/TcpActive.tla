------------------------------ MODULE TcpActive ------------------------------
(***************************************************************************)
(* _ipc_tcp_ip_base.tcp_active_connect (xtlm_ethernet.py): the harness     *)
(* opens a TCP connection to the hardware.  It sends a SYN with            *)
(* seq = self.seq_tx, waits for one frame, checks that it carries SYN and  *)
(* ACK and acknowledges seq_tx + 1, records the peer's seq in self.seq_rx  *)
(* and sends the final ACK (seq = seq_tx, ack = seq_rx + 1).                *)
(*                                                                         *)
(* No code of the repository assigns self.seq_tx: the constructor draws    *)
(* self.seq only.  seq_tx is therefore either unset (reading it raises     *)
(* AttributeError) or a value a caller stored in the attribute before the  *)
(* call; SeqTxValues holds both possibilities.                              *)
(*                                                                         *)
(* The peer is the hardware TCP server under simulation (the DUT), not     *)
(* code under src/, modelled from the spec: it answers a SYN with a        *)
(* SYN-ACK or, for a closed port, an RST-ACK, and completes the handshake  *)
(* on an ACK of its ISN + 1.  It does not apply RFC 793's acceptability   *)
(* test to that ACK's seq (see the README).                                *)
(***************************************************************************)
EXTENDS Integers, Sequences

CONSTANTS
  SeqBits,        \* width of TCP seq/ack (32 in the code)
  EthTypes,       \* ethType the endpoint is built with: subset of {"SEND", "RECEIVE"}
  SeqTxValues,    \* self.seq_tx at the call: a number, or Unset
  Unset,          \* the attribute does not exist
  PeerIsns,       \* initial sequence numbers the peer may pick
  PeerReplies     \* the peer's answer to a SYN: subset of {"SYNACK", "RSTACK"}

Mod == 2 ^ SeqBits

ASSUME SeqBits \in Nat \ {0}
ASSUME EthTypes \subseteq {"SEND", "RECEIVE"}
ASSUME SeqTxValues \subseteq (0..(Mod - 1)) \cup {Unset}
ASSUME PeerIsns \subseteq 0..(Mod - 1)
ASSUME PeerReplies \subseteq {"SYNACK", "RSTACK"}

VARIABLES
  ethType,   \* self.ethType
  seqTx,     \* self.seq_tx
  seqRx,     \* self.seq_rx (Unset until the SYN-ACK is accepted)
  apc,       \* tcp_active_connect: "init", "wait_synack", "done" (returned 0),
             \* "failed" (returned -1), "crashed" (raised)
  toPeer,    \* stream harness -> DUT (self.rx_axis of a SEND endpoint)
  fromPeer,  \* stream DUT -> harness (self.tx_axis of a SEND endpoint)
  ppc,       \* peer: "listen", "syn_rcvd", "established", "closed"
  peerIsn,   \* peer: its initial sequence number
  peerRcvNxt \* peer: RCV.NXT, the client sequence number it expects next

harnessVars == <<ethType, seqTx, seqRx, apc>>
peerVars == <<ppc, peerIsn, peerRcvNxt>>
vars == <<harnessVars, toPeer, fromPeer, peerVars>>

Segment(flags, seq, ack) == [flags |-> flags, seq |-> seq, ack |-> ack]

(* bytes(pkt) packs seq and ack as '!I'; a value >= 2^32 raises.           *)
Serializable(f) == f.seq < Mod /\ f.ack < Mod

Init ==
  /\ ethType \in EthTypes
  /\ seqTx \in SeqTxValues
  /\ seqRx = Unset
  /\ apc = "init"
  /\ toPeer = <<>>
  /\ fromPeer = <<>>
  /\ ppc = "listen"
  /\ peerIsn \in PeerIsns
  /\ peerRcvNxt = 0

-----------------------------------------------------------------------------
(* Harness: one call of tcp_active_connect.                                *)

(* The type check, then TCP(..., seq=self.seq_tx, flags='S') and           *)
(* _tcp_send on rx_axis.  A RECEIVE endpoint raises ValueError; an unset   *)
(* seq_tx raises AttributeError before anything is sent.                   *)
ActiveSendSyn ==
  /\ apc = "init"
  /\ IF ethType # "SEND" \/ seqTx = Unset
       THEN /\ apc' = "crashed"
            /\ UNCHANGED toPeer
       ELSE /\ toPeer' = Append(toPeer, Segment({"SYN"}, seqTx, 0))
            /\ apc' = "wait_synack"
  /\ UNCHANGED <<ethType, seqTx, seqRx, fromPeer, peerVars>>

(* Mutant of IsSynAck: only the ack number is tested.                    *)
IsSynAckNoFlags(sa) == sa.ack = seqTx + 1

(* flags & 0x12 == 0x12 and ack == self.seq_tx + 1, compared without      *)
(* reduction mod 2^32.                                                     *)
IsSynAck(sa) == {"SYN", "ACK"} \subseteq sa.flags /\ sa.ack = seqTx + 1

(* Mutant of SeqRxOf: the next expected seq is stored instead.            *)
SeqRxOfPlusOne(sa) == sa.seq + 1

(* self.seq_rx = syn_ack[TCP].seq                                          *)
SeqRxOf(sa) == sa.seq

(* Mutant of FinalAck: ack = self.seq_rx.                                  *)
FinalAckNoPlusOne(rx) == Segment({"ACK"}, seqTx, rx)

(* TCP(seq=self.seq_tx, ack=self.seq_rx + 1, flags='A')                    *)
FinalAck(rx) == Segment({"ACK"}, seqTx, rx + 1)

(* Sample one frame from tx_axis; unless it is the SYN-ACK, return -1.    *)
(* Otherwise record seq_rx and send the final ACK on rx_axis; bytes()     *)
(* raises on an ack of 2^32.                                               *)
ActiveRecvSynAck ==
  /\ apc = "wait_synack"
  /\ fromPeer # <<>>
  /\ LET sa == Head(fromPeer)
     IN IF ~IsSynAck(sa)
          THEN /\ apc' = "failed"
               /\ UNCHANGED <<seqRx, toPeer>>
          ELSE /\ seqRx' = SeqRxOf(sa)
               /\ IF Serializable(FinalAck(seqRx'))
                    THEN /\ toPeer' = Append(toPeer, FinalAck(seqRx'))
                         /\ apc' = "done"
                    ELSE /\ apc' = "crashed"
                         /\ UNCHANGED toPeer
  /\ fromPeer' = Tail(fromPeer)
  /\ UNCHANGED <<ethType, seqTx, peerVars>>

-----------------------------------------------------------------------------
(* Peer: the hardware TCP server (environment).                            *)

(* A listening peer answers a SYN: SYN-ACK with its ISN, or RST-ACK.      *)
PeerRecvSyn(reply) ==
  /\ ppc = "listen"
  /\ toPeer # <<>>
  /\ LET syn == Head(toPeer)
     IN /\ "SYN" \in syn.flags
        /\ peerRcvNxt' = (syn.seq + 1) % Mod
        /\ IF reply = "SYNACK"
             THEN /\ fromPeer' = Append(fromPeer,
                                   Segment({"SYN", "ACK"}, peerIsn, (syn.seq + 1) % Mod))
                  /\ ppc' = "syn_rcvd"
             ELSE /\ fromPeer' = Append(fromPeer,
                                   Segment({"RST", "ACK"}, 0, (syn.seq + 1) % Mod))
                  /\ ppc' = "closed"
  /\ toPeer' = Tail(toPeer)
  /\ UNCHANGED <<harnessVars, peerIsn>>

(* In SYN-RECEIVED the peer takes a segment; an ACK of ISN + 1 completes *)
(* the handshake, anything else is dropped.                                *)
PeerRecvAck ==
  /\ ppc = "syn_rcvd"
  /\ toPeer # <<>>
  /\ LET a == Head(toPeer)
     IN ppc' = IF "ACK" \in a.flags /\ a.ack = (peerIsn + 1) % Mod
               THEN "established"
               ELSE "syn_rcvd"
  /\ toPeer' = Tail(toPeer)
  /\ UNCHANGED <<harnessVars, fromPeer, peerIsn, peerRcvNxt>>

-----------------------------------------------------------------------------
Next ==
  \/ ActiveSendSyn
  \/ ActiveRecvSynAck
  \/ \E r \in PeerReplies : PeerRecvSyn(r)
  \/ PeerRecvAck

(* The calling thread runs the connect to its end; the simulated peer     *)
(* always processes what reaches it.                                       *)
Fairness ==
  /\ WF_vars(ActiveSendSyn) /\ WF_vars(ActiveRecvSynAck)
  /\ WF_vars(\E r \in PeerReplies : PeerRecvSyn(r)) /\ WF_vars(PeerRecvAck)

Spec == Init /\ [][Next]_vars /\ Fairness

-----------------------------------------------------------------------------
Segments == [flags : SUBSET {"SYN", "ACK", "RST"}, seq : 0..(Mod - 1), ack : 0..(Mod - 1)]

TypeOK ==
  /\ ethType \in EthTypes
  /\ seqTx \in SeqTxValues
  /\ seqRx \in (0..(Mod - 1)) \cup {Unset}
  /\ apc \in {"init", "wait_synack", "done", "failed", "crashed"}
  /\ toPeer \in Seq(Segments)
  /\ fromPeer \in Seq(Segments)
  /\ ppc \in {"listen", "syn_rcvd", "established", "closed"}
  /\ peerIsn \in 0..(Mod - 1)
  /\ peerRcvNxt \in 0..(Mod - 1)

(* tcp_active_connect returns 0 only towards a peer that accepted the     *)
(* SYN: a peer that refused it with RST-ACK is never taken as connected.   *)
ConnectedOnlyToAcceptingPeer ==
  apc = "done" => ppc \in {"syn_rcvd", "established"}

(* When tcp_active_connect returns 0, the peer reaches ESTABLISHED too:   *)
(* the final ACK completes the peer's side of the handshake.              *)
BothEstablished == (apc = "done") ~> (ppc = "established")

(* Handshake acceptance for the active side: a connect towards a peer     *)
(* that accepts the connection establishes it.                            *)
PeerEstablished == <>(ppc = "established")

=============================================================================
