------------------------------ MODULE TcpPassive ------------------------------
(***************************************************************************)
(* The egress side of aat_hw_emu.py: an ipc_tcp_ip_pcap endpoint of type   *)
(* RECEIVE (xtlm_ethernet.py) that accepts the TCP connection the hardware *)
(* opens (tcp_passive_connect, run by the main thread), then runs its two  *)
(* threads: _send_thread, a no-op for TCP, and _recv_thread, which         *)
(* captures recvSize segments and answers each with an ACK.  The main      *)
(* thread joins them and writes timestamp.log, the completion signal.      *)
(*                                                                         *)
(* The peer is the hardware TCP client under simulation (the DUT).  It is  *)
(* not code under src/ and is modelled from the spec: it may send one      *)
(* non-TCP frame (ARP) first, opens with a SYN, answers the SYN-ACK with   *)
(* an ACK, then sends DutSegments data segments whose sequence numbers     *)
(* advance modulo 2^SeqBits.                                               *)
(*                                                                         *)
(* A frame on the stream is a record; a frame travels whole, because one   *)
(* thread at a time writes each stream and Segmenter shows that the words  *)
(* of a frame reassemble to it.  Sequence numbers keep their width:        *)
(* scapy packs TCP seq and ack as unsigned 32-bit fields and raises on a   *)
(* larger value; SeqBits scales 32 down for TLC.                           *)
(***************************************************************************)
EXTENDS Integers, Sequences, SequencesExt

CONSTANTS
  SeqBits,      \* width of TCP seq/ack (32 in the code)
  HarnessIsns,  \* values random.randrange(0, 2**32 - 1) may return
  DutIsns,      \* initial sequence numbers the DUT may pick
  RecvSizeArgs, \* values of the -s argument: counts, or NoSize when omitted
  NoSize,       \* args.size = None
  DutSegments,  \* data segments the DUT sends on the connection
  PayloadLens,  \* TCP payload lengths of the DUT's data segments
  PadTo,        \* payload length below which an Ethernet frame is padded
  DutMayArp     \* whether the DUT may emit a non-TCP frame before its SYN

Mod == 2 ^ SeqBits

ASSUME SeqBits \in Nat \ {0}
ASSUME HarnessIsns \subseteq 0..(Mod - 2)
ASSUME DutIsns \subseteq 0..(Mod - 1)
ASSUME RecvSizeArgs \subseteq Nat \cup {NoSize}
ASSUME DutSegments \in Nat
ASSUME PayloadLens \subseteq Nat \ {0}
ASSUME PadTo \in Nat
ASSUME DutMayArp \in BOOLEAN

VARIABLES
  mainPc,     \* main thread of aat_hw_emu.py
  recvSize,   \* self.recvSize
  hseq,       \* self.seq
  rpc,        \* _recv_thread: "idle", "run", "done", or "died" (uncaught exception)
  spc,        \* _send_thread: "idle", "run", "done"
  pId,        \* _recv_thread local p_id
  toHarness,  \* stream DUT -> harness (self.rx_axis)
  toDut,      \* stream harness -> DUT (self.tx_axis)
  captured,   \* frames appended to the output pcap by _process_out_packet
  dpc,        \* DUT: "start", "closed", "syn_sent", "established"
  dutIsn,     \* DUT: its initial sequence number
  dutNxt,     \* DUT: SND.NXT
  dutRcvNxt,  \* DUT: RCV.NXT, the harness sequence number it expects
  dutData,    \* DUT history: data segments sent, in order
  dutAcks     \* DUT history: ACKs received after the handshake, in order

harnessVars == <<mainPc, recvSize, hseq, rpc, spc, pId, captured>>
dutVars == <<dpc, dutIsn, dutNxt, dutRcvNxt, dutData, dutAcks>>
vars == <<harnessVars, toHarness, toDut, dutVars>>

Flags == {"SYN", "ACK", "PSH"}

TcpFrame(flags, seq, ack, len, pad) ==
  [kind |-> "TCP", flags |-> flags, seq |-> seq, ack |-> ack, len |-> len, pad |-> pad]

ArpFrame == [kind |-> "ARP", flags |-> {}, seq |-> 0, ack |-> 0, len |-> 0, pad |-> 0]

(* Ethernet pads a frame to 60 bytes; a short payload may carry padding.  *)
Paddings(len) == IF len < PadTo THEN {0, PadTo - len} ELSE {0}

-----------------------------------------------------------------------------
(* Mutant of InitialSeq: randrange(0, 2**32), the top value included.    *)
InitialSeqWithTop == HarnessIsns \cup {Mod - 1}

(* random.randrange(0, 2**32 - 1): the seq drawn in _ipc_tcp_ip_base.      *)
InitialSeq == HarnessIsns

(* bytes(pkt) packs seq and ack as '!I'; a value >= 2^32 raises.           *)
Serializable(f) == f.seq < Mod /\ f.ack < Mod

(* _tcp_send: checksums deleted and recomputed on a rebuilt packet, then  *)
(* the raw bytes transmitted on strm.                                      *)
TcpSend(strm, f) == Append(strm, f)

(* Mutant of AckFor: the padding is not subtracted.                        *)
AckForKeepsPadding(p) == p.seq + (p.len + p.pad)

(* The ACK number _recv_thread computes: seq + len(p[Raw]), minus the     *)
(* padding; len(p[Raw]) counts the Padding layer that scapy hangs below   *)
(* Raw.                                                                    *)
AckFor(p) == p.seq + (p.len + p.pad) - p.pad

Init ==
  /\ mainPc = "init"
  /\ recvSize = 0
  /\ hseq = 0
  /\ rpc = "idle"
  /\ spc = "idle"
  /\ pId = 0
  /\ toHarness = <<>>
  /\ toDut = <<>>
  /\ captured = <<>>
  /\ dpc = "start"
  /\ dutIsn \in DutIsns
  /\ dutNxt = 0
  /\ dutRcvNxt = 0
  /\ dutData = <<>>
  /\ dutAcks = <<>>

-----------------------------------------------------------------------------
(* Harness, main thread.                                                   *)

(* ipc_tcp_ip_pcap(..., recvSize = args.size): int(recvSize) raises       *)
(* TypeError when -s is omitted; otherwise self.seq is drawn.              *)
Construct(arg) ==
  /\ mainPc = "init"
  /\ IF arg = NoSize
       THEN /\ mainPc' = "crashed"
            /\ UNCHANGED <<recvSize, hseq>>
       ELSE /\ mainPc' = "connect"
            /\ recvSize' = arg
            /\ hseq' \in InitialSeq
  /\ UNCHANGED <<rpc, spc, pId, captured, toHarness, toDut, dutVars>>

(* Mutant of SeqAfterSynAck: 'self.seq += 1' missing.                   *)
SeqAfterSynAckNoIncrement(s) == s

(* self.seq += 1 after the SYN-ACK is built: the SYN consumes one number. *)
SeqAfterSynAck(s) == s + 1

(* tcp_passive_connect up to the SYN-ACK: sample one frame; if it is not  *)
(* TCP with SYN set, return -1 and the script calls sys.exit(-1).          *)
(* Otherwise build the SYN-ACK, self.seq += 1, and send it; bytes() of a  *)
(* SYN-ACK whose ack overflows raises in the main thread.                  *)
PassiveRecvSyn ==
  /\ mainPc = "connect"
  /\ toHarness # <<>>
  /\ LET syn    == Head(toHarness)
         synAck == TcpFrame({"SYN", "ACK"}, hseq, syn.seq + 1, 0, 0)
     IN IF syn.kind # "TCP" \/ "SYN" \notin syn.flags
          THEN /\ mainPc' = "exited"
               /\ UNCHANGED <<hseq, toDut>>
          ELSE /\ hseq' = SeqAfterSynAck(hseq)
               /\ IF Serializable(synAck)
                    THEN /\ toDut' = TcpSend(toDut, synAck)
                         /\ mainPc' = "wait_ack"
                    ELSE /\ mainPc' = "crashed"
                         /\ UNCHANGED toDut
  /\ toHarness' = Tail(toHarness)
  /\ UNCHANGED <<recvSize, rpc, spc, pId, captured, dutVars>>

(* Mutant of PassiveRecvAck: the final sample_transaction() missing.      *)
PassiveRecvAckNoSample ==
  /\ mainPc = "wait_ack"
  /\ mainPc' = "connected"
  /\ UNCHANGED <<recvSize, hseq, rpc, spc, pId, captured, toHarness, toDut, dutVars>>

(* tcp_passive_connect: 'Receive ACK', any frame is taken as the ACK.     *)
PassiveRecvAck ==
  /\ mainPc = "wait_ack"
  /\ toHarness # <<>>
  /\ toHarness' = Tail(toHarness)
  /\ mainPc' = "connected"
  /\ UNCHANGED <<recvSize, hseq, rpc, spc, pId, captured, toDut, dutVars>>

(* connect returned 0: start_thread starts the send and receive threads.  *)
StartThreads ==
  /\ mainPc = "connected"
  /\ mainPc' = "joining"
  /\ rpc' = "run"
  /\ spc' = "run"
  /\ UNCHANGED <<recvSize, hseq, pId, captured, toHarness, toDut, dutVars>>

(* join_thread returns once both threads ended, normally or by an         *)
(* uncaught exception; then timestamp.log is written.                     *)
JoinAndFinish ==
  /\ mainPc = "joining"
  /\ spc = "done"
  /\ rpc \in {"done", "died"}
  /\ mainPc' = "done"
  /\ UNCHANGED <<recvSize, hseq, rpc, spc, pId, captured, toHarness, toDut, dutVars>>

-----------------------------------------------------------------------------
(* Harness threads.                                                        *)

(* _ipc_tcp_ip_base._send_thread: not implemented, returns at once.       *)
SendThread ==
  /\ spc = "run"
  /\ spc' = "done"
  /\ UNCHANGED <<mainPc, recvSize, hseq, rpc, pId, captured, toHarness, toDut, dutVars>>

(* Mutant of RecvMore: loop bound 'p_id <= self.recvSize'.              *)
RecvMoreOffByOne(id, n) == id <= n

(* The loop condition of _recv_thread: 'while p_id < self.recvSize'.      *)
RecvMore(id, n) == id < n

(* ipc_tcp_ip_pcap._process_out_packet: aat_hw_emu.py always passes      *)
(* recvPcapName, so the segment is wrpcap-appended to the output capture. *)
ProcessOutPacket(c, d) == Append(c, d)

(* One iteration of _recv_thread: sample a frame, append it to the pcap,  *)
(* p_id += 1, compute the ACK number and send an ACK with seq = self.seq. *)
(* p[Raw] raises when the segment has no payload; bytes() raises when the *)
(* ACK number reaches 2^32.  Either exception ends the thread.  The loop  *)
(* goes on only once the previous ACK's b_transport has returned, i.e.    *)
(* the DUT took it (toDut = <<>>); likewise for the loop exit.            *)
RecvSegment ==
  /\ rpc = "run"
  /\ RecvMore(pId, recvSize)
  /\ toDut = <<>>
  /\ toHarness # <<>>
  /\ LET p   == Head(toHarness)
         ack == TcpFrame({"ACK"}, hseq, AckFor(p), 0, 0)
     IN IF p.len > 0 /\ Serializable(ack)
          THEN /\ toDut' = TcpSend(toDut, ack)
               /\ UNCHANGED rpc
          ELSE /\ rpc' = "died"
               /\ UNCHANGED toDut
  /\ toHarness' = Tail(toHarness)
  /\ captured' = ProcessOutPacket(captured, Head(toHarness))
  /\ pId' = pId + 1
  /\ UNCHANGED <<mainPc, recvSize, hseq, spc, dutVars>>

(* 'while p_id < self.recvSize' fails: the thread finishes.               *)
RecvLoopExit ==
  /\ rpc = "run"
  /\ ~RecvMore(pId, recvSize)
  /\ toDut = <<>>
  /\ rpc' = "done"
  /\ UNCHANGED <<mainPc, recvSize, hseq, spc, pId, captured, toHarness, toDut, dutVars>>

-----------------------------------------------------------------------------
(* DUT: the hardware TCP client (environment).                             *)

DutArp ==
  /\ dpc = "start"
  /\ DutMayArp
  /\ toHarness' = Append(toHarness, ArpFrame)
  /\ dpc' = "closed"
  /\ UNCHANGED <<harnessVars, toDut, dutIsn, dutNxt, dutRcvNxt, dutData, dutAcks>>

DutSyn ==
  /\ dpc \in {"start", "closed"}
  /\ toHarness' = Append(toHarness, TcpFrame({"SYN"}, dutIsn, 0, 0, 0))
  /\ dpc' = "syn_sent"
  /\ UNCHANGED <<harnessVars, toDut, dutIsn, dutNxt, dutRcvNxt, dutData, dutAcks>>

DutRecvSynAck ==
  /\ dpc = "syn_sent"
  /\ toDut # <<>>
  /\ LET sa == Head(toDut)
     IN /\ {"SYN", "ACK"} \subseteq sa.flags
        /\ sa.ack = (dutIsn + 1) % Mod
        /\ dutRcvNxt' = (sa.seq + 1) % Mod
        /\ toHarness' = Append(toHarness,
                          TcpFrame({"ACK"}, (dutIsn + 1) % Mod, (sa.seq + 1) % Mod, 0, 0))
  /\ toDut' = Tail(toDut)
  /\ dutNxt' = (dutIsn + 1) % Mod
  /\ dpc' = "established"
  /\ UNCHANGED <<harnessVars, dutIsn, dutData, dutAcks>>

DutSendData(len, pad) ==
  /\ dpc = "established"
  /\ Len(dutData) < DutSegments
  /\ LET seg == TcpFrame({"ACK", "PSH"}, dutNxt, dutRcvNxt, len, pad)
     IN /\ toHarness' = Append(toHarness, seg)
        /\ dutData' = Append(dutData, seg)
  /\ dutNxt' = (dutNxt + len) % Mod
  /\ UNCHANGED <<harnessVars, toDut, dpc, dutIsn, dutRcvNxt, dutAcks>>

DutRecvAck ==
  /\ dpc = "established"
  /\ toDut # <<>>
  /\ dutAcks' = Append(dutAcks, Head(toDut))
  /\ toDut' = Tail(toDut)
  /\ UNCHANGED <<harnessVars, toHarness, dpc, dutIsn, dutNxt, dutRcvNxt, dutData>>

-----------------------------------------------------------------------------
HarnessNext ==
  \/ \E arg \in RecvSizeArgs : Construct(arg)
  \/ PassiveRecvSyn \/ PassiveRecvAck \/ StartThreads \/ JoinAndFinish
  \/ SendThread \/ RecvSegment \/ RecvLoopExit

DutNext ==
  \/ DutArp \/ DutSyn \/ DutRecvSynAck \/ DutRecvAck
  \/ \E len \in PayloadLens : \E pad \in Paddings(len) : DutSendData(len, pad)

Next == HarnessNext \/ DutNext

(* Every harness step is a statement of a running Python thread; the DUT *)
(* is a simulation that always progresses.  The DUT's choice to send an   *)
(* ARP first is not forced (no fairness on DutArp).                        *)
Fairness ==
  /\ WF_vars(\E arg \in RecvSizeArgs : Construct(arg)) /\ WF_vars(PassiveRecvSyn) /\ WF_vars(PassiveRecvAck)
  /\ WF_vars(StartThreads) /\ WF_vars(JoinAndFinish) /\ WF_vars(SendThread)
  /\ WF_vars(RecvSegment) /\ WF_vars(RecvLoopExit)
  /\ WF_vars(DutSyn) /\ WF_vars(DutRecvSynAck) /\ WF_vars(DutRecvAck)
  /\ WF_vars(\E len \in PayloadLens : \E pad \in Paddings(len) : DutSendData(len, pad))

Spec == Init /\ [][Next]_vars /\ Fairness

-----------------------------------------------------------------------------
Frame == [kind : {"TCP", "ARP"}, flags : SUBSET Flags, seq : Nat, ack : Nat,
          len : Nat, pad : Nat]

TypeOK ==
  /\ mainPc \in {"init", "connect", "wait_ack", "connected", "joining",
                 "done", "exited", "crashed"}
  /\ recvSize \in Nat
  /\ hseq \in 0..(Mod - 1)
  /\ rpc \in {"idle", "run", "done", "died"}
  /\ spc \in {"idle", "run", "done"}
  /\ pId \in Nat
  /\ toHarness \in Seq(Frame)
  /\ toDut \in Seq(Frame)
  /\ captured \in Seq(Frame)
  /\ dpc \in {"start", "closed", "syn_sent", "established"}
  /\ dutIsn \in 0..(Mod - 1)
  /\ dutNxt \in 0..(Mod - 1)
  /\ dutRcvNxt \in 0..(Mod - 1)
  /\ dutData \in Seq(Frame)
  /\ dutAcks \in Seq(Frame)

(* Payload bytes of the DUT's first k data segments.                      *)
BytesThrough(k) == FoldLeft(LAMBDA acc, s : acc + s.len, 0, SubSeq(dutData, 1, k))

(* Ack arithmetic (_recv_thread): the k-th ACK the DUT receives after the *)
(* handshake acknowledges exactly the DUT's bytes through its k-th data   *)
(* segment, modulo 2^32 and with link-layer padding excluded; no ACK runs *)
(* ahead of the data.                                                      *)
AckNumbersCumulative ==
  /\ Len(dutAcks) <= Len(dutData)
  /\ \A k \in 1..Len(dutAcks) : dutAcks[k].ack = (dutIsn + 1 + BytesThrough(k)) % Mod

(* The ACKs of _recv_thread carry the sequence number the DUT expects     *)
(* next: the SYN-ACK's seq plus one, i.e. self.seq after the increment    *)
(* done by tcp_passive_connect in the main thread.                        *)
AckSeqIsRcvNxt ==
  \A k \in 1..Len(dutAcks) : dutAcks[k].seq = dutRcvNxt

(* The output pcap holds the DUT's data segments, in order, and nothing   *)
(* else: the handshake ACK is consumed by tcp_passive_connect, never      *)
(* captured by _recv_thread.                                               *)
CaptureIsDutData == IsPrefix(captured, dutData)

(* The emulation process always ends: normally, by sys.exit(-1), or by an *)
(* uncaught exception in the main thread; no thread waits forever.         *)
ProcessEnds == <>(mainPc \in {"done", "exited", "crashed"})

(* timestamp.log, the completion signal, is written only after recvSize   *)
(* segments were captured and each of them acknowledged.                   *)
CompletionMeansAllAcked ==
  mainPc = "done" =>
    /\ Len(captured) = recvSize
    /\ Len(dutAcks) + Len(toDut) = recvSize

(* Handshake acceptance: once the DUT sent a well-formed SYN, the passive *)
(* endpoint answers it and reaches the established state.                  *)
HandshakeAccepted ==
  (dpc = "syn_sent") ~> (dpc = "established" /\ mainPc \in {"connected", "joining", "done"})

(* The emulation runs to completion (timestamp.log written) when the DUT  *)
(* behaves, including when the optional -s argument is omitted.           *)
RunCompletes == <>(mainPc = "done")

=============================================================================
