------------------------------ MODULE Segmenter ------------------------------
(***************************************************************************)
(* _ipc_eth_base._transmit_packet (xtlm_ethernet.py): a packet is cut into *)
(* AXI-stream words of at most busWidthBytes bytes, each handed to the     *)
(* simulator with a blocking b_transport call.  The stream sink (the       *)
(* hardware model behind the xtlm socket) concatenates the words of a      *)
(* packet until it sees tlast.  The sink is the environment: it is not     *)
(* code of the repository and only stands for AXI-stream semantics.        *)
(*                                                                         *)
(* Bytes are a small alphabet; a packet is a non-empty sequence of bytes   *)
(* (every caller passes bytes(pkt) of an Ethernet frame, never b"").       *)
(***************************************************************************)
EXTENDS Integers, Sequences, SequencesExt

CONSTANTS
  Bytes,       \* the byte alphabet
  MaxLen,      \* longest packet handed to _transmit_packet
  BusWidths,   \* busWidthBytes values an endpoint may be created with
  MaxPackets,  \* number of packets the sending thread transmits
  NoWord       \* the stream slot holds no word

ASSUME MaxLen \in Nat \ {0}
ASSUME BusWidths \subseteq Nat \ {0}
ASSUME MaxPackets \in Nat

Packets == UNION {[1..n -> Bytes] : n \in 1..MaxLen}

FF == 255  \* one tkeep byte, b'\xFF'

VARIABLES
  busW,      \* self.busWidthBytes, fixed at construction
  data,      \* argument of the running _transmit_packet call
  length,    \* local 'length': bytes still to send
  i,         \* local 'i': index of the next word
  pc,        \* "idle" between calls, "loop" inside the while loop
  axis,      \* the word in flight on the stream, or NoWord
  sent,      \* history: packets handed to _transmit_packet, in order
  emitted,   \* history: words produced by the running call
  buf,       \* sink: bytes of the packet being reassembled
  received   \* sink: packets completed by a tlast word

vars == <<busW, data, length, i, pc, axis, sent, emitted, buf, received>>

MinOf(a, b) == IF a <= b THEN a ELSE b

(* Python slice s[a:b] for 0 <= a <= b: clamps b to len(s).               *)
PySlice(s, a, b) == SubSeq(s, a + 1, MinOf(b, Len(s)))

Word == [data : Seq(Bytes), data_length : Nat, tlast : BOOLEAN, tkeep : Seq({FF})]

Init ==
  /\ busW \in BusWidths
  /\ data = <<>>
  /\ length = 0
  /\ i = 0
  /\ pc = "idle"
  /\ axis = NoWord
  /\ sent = <<>>
  /\ emitted = <<>>
  /\ buf = <<>>
  /\ received = <<>>

(* Entry of _transmit_packet(strm, data): length = len(data); i = 0.       *)
TransmitPacket(d) ==
  /\ pc = "idle"
  /\ Len(sent) < MaxPackets
  /\ data' = d
  /\ length' = Len(d)
  /\ i' = 0
  /\ pc' = "loop"
  /\ sent' = Append(sent, d)
  /\ emitted' = <<>>
  /\ UNCHANGED <<busW, axis, buf, received>>

(* The word one iteration of the loop builds, with left bytes still to   *)
(* send at index k: data_length = min(length, busW), tlast once nothing  *)
(* is left, data = data[busW*i : busW*i + data_length], tkeep one FF per *)
(* byte.                                                                  *)
(* Mutants: the slice taken at i instead of busW * i; data_length = busW; *)
(* tlast tested before 'length -= data_length'.                           *)
WordOfNoStride(d, w, k, left) ==
  LET n == MinOf(left, w)
  IN [data |-> PySlice(d, k, k + n), data_length |-> n,
      tlast |-> left - n = 0, tkeep |-> [j \in 1..n |-> FF]]

WordOfNoMin(d, w, k, left) ==
  [data |-> PySlice(d, w * k, w * k + w), data_length |-> w,
   tlast |-> left - w = 0, tkeep |-> [j \in 1..w |-> FF]]

WordOfEarlyTlast(d, w, k, left) ==
  LET n == MinOf(left, w)
  IN [data |-> PySlice(d, w * k, w * k + n), data_length |-> n,
      tlast |-> left = 0, tkeep |-> [j \in 1..n |-> FF]]

WordOf(d, w, k, left) ==
  LET n == MinOf(left, w)
  IN [data        |-> PySlice(d, w * k, w * k + n),
      data_length |-> n,
      tlast       |-> left - n = 0,
      tkeep       |-> [j \in 1..n |-> FF]]

(* One iteration of 'while length > 0': build the word and b_transport it; *)
(* b_transport blocks until the previous word has been taken.             *)
SendWord ==
  /\ pc = "loop"
  /\ length > 0
  /\ axis = NoWord
  /\ LET w == WordOf(data, busW, i, length)
     IN /\ axis' = w
        /\ emitted' = Append(emitted, w)
        /\ length' = length - w.data_length
  /\ i' = i + 1
  /\ UNCHANGED <<busW, data, pc, sent, buf, received>>

(* The while condition fails: the call returns.                           *)
EndTransmit ==
  /\ pc = "loop"
  /\ length <= 0
  /\ pc' = "idle"
  /\ UNCHANGED <<busW, data, length, i, axis, sent, emitted, buf, received>>

(* Environment: the stream sink takes the word and reassembles on tlast.   *)
SinkTakeWord ==
  /\ axis # NoWord
  /\ axis' = NoWord
  /\ IF axis.tlast
       THEN /\ received' = Append(received, buf \o axis.data)
            /\ buf' = <<>>
       ELSE /\ buf' = buf \o axis.data
            /\ UNCHANGED received
  /\ UNCHANGED <<busW, data, length, i, pc, sent, emitted>>

Next ==
  \/ \E d \in Packets : TransmitPacket(d)
  \/ SendWord
  \/ EndTransmit
  \/ SinkTakeWord

(* The sending thread loops until all its packets are sent, and the       *)
(* simulator always completes a b_transport call.                         *)
Fairness ==
  /\ WF_vars(\E d \in Packets : TransmitPacket(d))
  /\ WF_vars(SendWord)
  /\ WF_vars(EndTransmit)
  /\ WF_vars(SinkTakeWord)

Spec == Init /\ [][Next]_vars /\ Fairness

-----------------------------------------------------------------------------
(* Reference segmentation, from the contract of segment(buffer, w):       *)
(* consecutive chunks of w bytes, the final one shorter or equal, exactly *)
(* the final one marked last, tkeep one FF per valid byte.                 *)
Chunk(c, last) ==
  [data |-> c, data_length |-> Len(c), tlast |-> last, tkeep |-> [k \in 1..Len(c) |-> FF]]

RECURSIVE SegmentRef(_, _)
SegmentRef(d, w) ==
  IF Len(d) <= w
    THEN <<Chunk(d, TRUE)>>
    ELSE <<Chunk(SubSeq(d, 1, w), FALSE)>> \o SegmentRef(SubSeq(d, w + 1, Len(d)), w)

-----------------------------------------------------------------------------
TypeOK ==
  /\ busW \in BusWidths
  /\ data \in Packets \cup {<<>>}
  /\ length \in 0..MaxLen
  /\ i \in 0..MaxLen
  /\ pc \in {"idle", "loop"}
  /\ axis \in Word \cup {NoWord}
  /\ sent \in Seq(Packets)
  /\ emitted \in Seq(Word)
  /\ buf \in Seq(Bytes)
  /\ received \in Seq(Seq(Bytes))

(* The words _transmit_packet has produced for the running packet are a   *)
(* prefix of the reference segmentation of that packet, and the whole of  *)
(* it once the call returned: chunk boundaries, data_length, tkeep and    *)
(* the single final tlast agree with segment(buffer, busWidthBytes).      *)
ChunksMatchReference ==
  sent # <<>> =>
    /\ IsPrefix(emitted, SegmentRef(data, busW))
    /\ pc = "idle" => emitted = SegmentRef(data, busW)

(* Round trip: every packet the sink has reassembled from words is, byte  *)
(* for byte and in order, a packet _transmit_packet was given, and the    *)
(* partial buffer is a prefix of the next one.                             *)
RoundTrip ==
  /\ IsPrefix(received, sent)
  /\ buf # <<>> => /\ Len(received) < Len(sent)
                   /\ IsPrefix(buf, sent[Len(received) + 1])

(* _transmit_packet and the sink together implement a reliable FIFO       *)
(* packet stream: each tlast word completes exactly the oldest packet not *)
(* yet reassembled, with its bytes unchanged, every other step leaves the *)
(* packet-level view alone, and every packet handed to _transmit_packet   *)
(* is eventually reassembled (no packet is left without its tlast word).  *)
Chan == INSTANCE PacketChannel
          WITH Msgs <- Packets, MaxMsgs <- MaxPackets,
               handed <- sent, delivered <- received

ImplementsPacketChannel == Chan!ChanSpec

=============================================================================
