----------------------------- MODULE UdpEndpoint -----------------------------
(***************************************************************************)
(* One UDP endpoint of xtlm_ethernet.py: _ipc_udp_ip_base's two threads    *)
(* with the stimulus of either subclass.                                   *)
(*   "pcap": ipc_udp_ip_pcap, packets read from a capture with a cursor,   *)
(*           received datagrams appended to the output capture;            *)
(*   "rnd":  ipc_udp_ip_rnd_gen, sendSize packets built on demand after a  *)
(*           random wait; received datagrams are dropped.                  *)
(* The send thread transmits on one stream, the receive thread samples the *)
(* other.  The DUT side of both streams is the environment: it takes every *)
(* transmitted packet and sends DutDatagrams datagrams back.  A packet     *)
(* moves whole (Segmenter checks the word level).                          *)
(***************************************************************************)
EXTENDS Integers, Sequences, SequencesExt

CONSTANTS
  Kinds,         \* endpoint classes that may be built: subset of {"pcap", "rnd"}
  PcapData,      \* rdpcap(sendPcapName): the capture's packets, in order
  SendSize,      \* ipc_udp_ip_rnd_gen sendSize
  WaitArgs,      \* (minRandWait, maxRandWait) pairs passed to the constructor
  RecvSize,      \* recvSize
  DutDatagrams,  \* datagrams the DUT sends towards the endpoint
  Generated,     \* the packet _create_next_packet returns (a model value)
  NoWait         \* no _get_next_packet call has waited yet

ASSUME Kinds \subseteq {"pcap", "rnd"}
ASSUME SendSize \in Nat /\ RecvSize \in Nat /\ DutDatagrams \in Nat
ASSUME WaitArgs \subseteq (Nat \X Nat)

VARIABLES
  kind,      \* which class the endpoint is
  minW,      \* self.minRandWait
  maxW,      \* self.maxRandWait
  spc,       \* _send_thread: "idle", "run", "loop", "done", "died"
  total,     \* local totalPackets
  sId,       \* _send_thread loop index p_id
  cursor,    \* self.sendPcapIdx
  lastWait,  \* waitMs of the latest _get_next_packet call
  rpc,       \* _recv_thread: "idle", "run", "done"
  rId,       \* _recv_thread p_id
  toDut,     \* stream endpoint -> DUT
  fromDut,   \* stream DUT -> endpoint
  captured,  \* datagrams wrpcap'd by _process_out_packet
  dutGot,    \* DUT history: packets taken from toDut
  dutSent    \* DUT history: datagrams sent on fromDut

vars == <<kind, minW, maxW, spc, total, sId, cursor, lastWait, rpc, rId,
          toDut, fromDut, captured, dutGot, dutSent>>

MinOf(a, b) == IF a <= b THEN a ELSE b
MaxOf(a, b) == IF a >= b THEN a ELSE b

(* Datagrams the DUT emits: tagged with their index.                      *)
Datagram(n) == <<"dgram", n>>

(* The exception an index past the end of sendPcapData raises.           *)
IndexError == "IndexError"

-----------------------------------------------------------------------------
(* The waitMs _get_next_packet may pick: randrange(min, max) when the      *)
(* delta is positive (max excluded), else waitDelta itself.               *)
WaitChoices(lo, hi) ==
  IF hi - lo > 0 THEN lo..(hi - 1) ELSE {hi - lo}

(* ipc_udp_ip_pcap._get_num_send_packets: totalSendPackets, the number of *)
(* packets in the capture.                                                 *)
PcapNumSendPackets == Len(PcapData)

(* ipc_udp_ip_rnd_gen._get_num_send_packets: sendSize.                    *)
RndNumSendPackets == SendSize

(* self._get_num_send_packets(), dispatched on the endpoint's class.      *)
NumSendPackets(k) == IF k = "pcap" THEN PcapNumSendPackets ELSE RndNumSendPackets

(* Mutant of Normalise: the constructor keeps the bounds as given.      *)
NormaliseNoSwap(w) == w

(* ipc_udp_ip_rnd_gen.__init__: minRandWait = int(min(min, max)),         *)
(* maxRandWait = int(max(max, min)).                                       *)
Normalise(w) == <<MinOf(w[1], w[2]), MaxOf(w[2], w[1])>>

Init ==
  /\ kind \in Kinds
  /\ \E w \in WaitArgs : minW = Normalise(w)[1] /\ maxW = Normalise(w)[2]
  /\ spc = "idle"
  /\ total = 0
  /\ sId = 0
  /\ cursor = 0
  /\ lastWait = NoWait
  /\ rpc = "idle"
  /\ rId = 0
  /\ toDut = <<>>
  /\ fromDut = <<>>
  /\ captured = <<>>
  /\ dutGot = <<>>
  /\ dutSent = <<>>

-----------------------------------------------------------------------------
(* start_thread: both threads start.                                       *)
StartThreads ==
  /\ spc = "idle" /\ rpc = "idle"
  /\ spc' = "run" /\ rpc' = "run"
  /\ UNCHANGED <<kind, minW, maxW, total, sId, cursor, lastWait, rId,
                 toDut, fromDut, captured, dutGot, dutSent>>

(* _send_thread: totalPackets = self._get_num_send_packets().             *)
SendBegin ==
  /\ spc = "run"
  /\ total' = NumSendPackets(kind)
  /\ sId' = 0
  /\ spc' = "loop"
  /\ UNCHANGED <<kind, minW, maxW, cursor, lastWait, rpc, rId, toDut, fromDut,
                 captured, dutGot, dutSent>>

(* Mutant of GetNextPacket: the cursor is advanced before it is read.   *)
GetNextPacketEarlyAdvance(c) ==
  IF c + 1 < Len(PcapData) THEN PcapData[c + 2] ELSE IndexError

(* ipc_udp_ip_pcap._get_next_packet: sendPcapData[sendPcapIdx], or       *)
(* IndexError past the end.                                                *)
GetNextPacket(c) == IF c < Len(PcapData) THEN PcapData[c + 1] ELSE IndexError

(* The send thread's previous b_transport has returned (toDut = <<>>):    *)
(* the call blocks until the DUT takes the packet.                        *)
(* One iteration for ipc_udp_ip_pcap: p = sendPcapData[sendPcapIdx],      *)
(* sendPcapIdx += 1, then _transmit_packet(bytes(p)).  An index past the  *)
(* end raises IndexError before the increment and ends the thread.        *)
SendPcapPacket ==
  /\ spc = "loop"
  /\ kind = "pcap"
  /\ sId < total
  /\ toDut = <<>>
  /\ IF GetNextPacket(cursor) # IndexError
       THEN /\ toDut' = Append(toDut, GetNextPacket(cursor))
            /\ cursor' = cursor + 1
            /\ spc' = "loop"
       ELSE /\ spc' = "died"
            /\ UNCHANGED <<toDut, cursor>>
  /\ sId' = sId + 1
  /\ UNCHANGED <<kind, minW, maxW, total, lastWait, rpc, rId, fromDut,
                 captured, dutGot, dutSent>>

(* One iteration for ipc_udp_ip_rnd_gen: pick waitMs, sleep if positive,  *)
(* then transmit _create_next_packet().                                    *)
SendRndPacket ==
  /\ spc = "loop"
  /\ kind = "rnd"
  /\ sId < total
  /\ toDut = <<>>
  /\ lastWait' \in WaitChoices(minW, maxW)
  /\ toDut' = Append(toDut, Generated)
  /\ sId' = sId + 1
  /\ UNCHANGED <<kind, minW, maxW, spc, total, cursor, rpc, rId, fromDut,
                 captured, dutGot, dutSent>>

(* The for loop is exhausted and the last b_transport has returned: the   *)
(* send thread finishes.                                                   *)
SendEnd ==
  /\ spc = "loop"
  /\ sId >= total
  /\ toDut = <<>>
  /\ spc' = "done"
  /\ UNCHANGED <<kind, minW, maxW, total, sId, cursor, lastWait, rpc, rId,
                 toDut, fromDut, captured, dutGot, dutSent>>

(* Mutant of RecvMore: loop bound 'p_id <= self.recvSize'.              *)
RecvMoreOffByOne(id) == id <= RecvSize

(* The loop condition of _recv_thread: 'while p_id < self.recvSize'.      *)
RecvMore(id) == id < RecvSize

(* ipc_udp_ip_pcap._process_out_packet: wrpcap-appends the datagram to   *)
(* the output capture (recvPcapName given).                               *)
PcapProcessOutPacket(c, d) == Append(c, d)

(* ipc_udp_ip_rnd_gen._process_out_packet: the datagram is dropped.       *)
RndProcessOutPacket(c, d) == c

(* self._process_out_packet(udp_packet), dispatched on the class.         *)
ProcessOutPacket(c, d) ==
  IF kind = "pcap" THEN PcapProcessOutPacket(c, d) ELSE RndProcessOutPacket(c, d)

(* One iteration of _recv_thread: sample, p_id += 1, _process_out_packet: *)
(* the pcap class appends to the output capture, the rnd class drops it.  *)
RecvDatagram ==
  /\ rpc = "run"
  /\ RecvMore(rId)
  /\ fromDut # <<>>
  /\ fromDut' = Tail(fromDut)
  /\ rId' = rId + 1
  /\ captured' = ProcessOutPacket(captured, Head(fromDut))
  /\ UNCHANGED <<kind, minW, maxW, spc, total, sId, cursor, lastWait, rpc,
                 toDut, dutGot, dutSent>>

(* 'while p_id < self.recvSize' fails: the receive thread finishes.       *)
RecvEnd ==
  /\ rpc = "run"
  /\ ~RecvMore(rId)
  /\ rpc' = "done"
  /\ UNCHANGED <<kind, minW, maxW, spc, total, sId, cursor, lastWait, rId,
                 toDut, fromDut, captured, dutGot, dutSent>>

-----------------------------------------------------------------------------
(* DUT side of the two streams (environment).                              *)
DutTake ==
  /\ toDut # <<>>
  /\ dutGot' = Append(dutGot, Head(toDut))
  /\ toDut' = Tail(toDut)
  /\ UNCHANGED <<kind, minW, maxW, spc, total, sId, cursor, lastWait, rpc, rId,
                 fromDut, captured, dutSent>>

DutEmit ==
  /\ Len(dutSent) < DutDatagrams
  /\ fromDut' = Append(fromDut, Datagram(Len(dutSent) + 1))
  /\ dutSent' = Append(dutSent, Datagram(Len(dutSent) + 1))
  /\ UNCHANGED <<kind, minW, maxW, spc, total, sId, cursor, lastWait, rpc, rId,
                 toDut, captured, dutGot>>

Next ==
  \/ StartThreads \/ SendBegin \/ SendPcapPacket \/ SendRndPacket \/ SendEnd
  \/ RecvDatagram \/ RecvEnd
  \/ DutTake \/ DutEmit

Fairness ==
  /\ WF_vars(StartThreads) /\ WF_vars(SendBegin) /\ WF_vars(SendPcapPacket)
  /\ WF_vars(SendRndPacket) /\ WF_vars(SendEnd) /\ WF_vars(RecvDatagram)
  /\ WF_vars(RecvEnd) /\ WF_vars(DutTake) /\ WF_vars(DutEmit)

Spec == Init /\ [][Next]_vars /\ Fairness

-----------------------------------------------------------------------------
TypeOK ==
  /\ kind \in Kinds
  /\ minW \in Nat /\ maxW \in Nat /\ minW <= maxW
  /\ spc \in {"idle", "run", "loop", "done", "died"}
  /\ total \in Nat /\ sId \in Nat
  /\ cursor \in 0..Len(PcapData)
  /\ lastWait \in Nat \cup {NoWait}
  /\ rpc \in {"idle", "run", "done"}
  /\ rId \in 0..RecvSize
  /\ toDut \in Seq(ToSet(PcapData) \cup {Generated})
  /\ dutGot \in Seq(ToSet(PcapData) \cup {Generated})
  /\ fromDut \in Seq({Datagram(n) : n \in 1..DutDatagrams})
  /\ captured \in Seq({Datagram(n) : n \in 1..DutDatagrams})
  /\ dutSent \in Seq({Datagram(n) : n \in 1..DutDatagrams})

(* The capture-backed send thread hands the DUT the capture's packets in  *)
(* order, each exactly once, never reads past the end of the capture, and *)
(* has sent all of them when it finishes.                                  *)
PcapSentExactlyOnce ==
  kind = "pcap" =>
    /\ spc # "died"
    /\ IsPrefix(dutGot \o toDut, PcapData)
    /\ spc = "done" => dutGot \o toDut = PcapData

(* Both threads of the endpoint end, so join_thread returns.              *)
ThreadsEnd == <>(spc \in {"done", "died"} /\ rpc = "done")

(* Every random wait lies in [minRandWait, maxRandWait].                  *)
WaitWithinBounds == lastWait # NoWait => minW <= lastWait /\ lastWait <= maxW

=============================================================================
