# TLA+ models of the AAT hardware-emulation harness

This directory holds TLA+ models of the Python harness under
`src/Accelerated_Algorithmic_Trading/emulation/runtime/`. The harness drives the
Accelerated Algorithmic Trading hardware in Vitis hardware emulation over xtlm
AXI-stream sockets. The modules are checked with TLC.

## 1. Inventory

### Components

| Component | Source | State | Operations |
|---|---|---|---|
| Segmenter (`_ipc_eth_base._transmit_packet`) | `xtlm_ethernet.py:66-83` | `busWidthBytes`; the locals `length`, `i` | cuts a byte buffer into AXI-stream words (`data_length`, `tkeep`, `tlast`) and calls blocking `b_transport` once per word |
| Endpoint base (`_ipc_eth_base`) | `xtlm_ethernet.py:40-116` | name, port, type (SEND/RECEIVE), stream handles `tx_axis`/`rx_axis`, `recvSize`, the two threads | `__init__` (`int(recvSize)`), `start_thread`, `join_thread`, `__del__` (disconnect) |
| TCP endpoint (`_ipc_tcp_ip_base`, `ipc_tcp_ip_pcap`) | `xtlm_ethernet.py:119-223, 287-307` | `self.seq` (random ISN), `seq_tx`/`seq_rx` (read but never set), pcap cursor | `_tcp_send` (checksum recompute, then segment), `tcp_passive_connect`, `tcp_active_connect`, `_recv_thread` (capture plus ACK per segment), `_send_thread` (no-op) |
| UDP endpoint (`_ipc_udp_ip_base`, `ipc_udp_ip_pcap`) | `xtlm_ethernet.py:227-281` | pcap data and cursor `sendPcapIdx`, `recvSize` | `_send_thread` (send every pcap packet), `_recv_thread` (capture `recvSize` datagrams), `_get_next_packet`, `_process_out_packet` |
| Procedural UDP source (`ipc_udp_ip_rnd_gen`) | `xtlm_ethernet.py:313-340` | `sendSize`, `minRandWait`, `maxRandWait`, `waitDelta` | `_get_next_packet` (random wait, then `_create_next_packet`, which is abstract here) |
| Main script (`aat_hw_emu.py`) | `aat_hw_emu.py:27-67` | three endpoints: two UDP ingress, one TCP egress | build endpoints, passive TCP connect, start all threads, join all, write `timestamp.log` |
| `create_udp_packet` | `xtlm_ethernet.py:345-352` | none | pure packet construction (scapy) |
| ICMP checksum script (`ipcs.py`) | `hw/.../icmp_server/ipcs.py` | none | one-off checksum computation, printed to stdout as `hex()[2:]` |
| Register export and templating scripts | `hw/.../scripts/*.py` | none | xlsx to CSV and Jinja templating (file format conversion) |

### Interactions

* Each endpoint has two stream handles, one per direction. A stream is a
  blocking, in-order, full-duplex xtlm socket to the simulator. `b_transport`
  blocks until the word is taken. `sample_transaction` blocks until a frame
  arrives. There are no timeouts and no cancellation.
* The main thread runs `tcp_passive_connect` on the egress endpoint before any
  thread starts. The connect writes `self.seq`, and the egress `_recv_thread`
  reads it later. The happens-before edge is `start_thread`.
* The two ingress UDP endpoints and the egress endpoint then run their send and
  receive threads in parallel. The ingress endpoints feed market data to the
  hardware. The hardware (the DUT, the device under test) answers on the TCP
  egress, and the egress `_recv_thread` captures and ACKs it.
* A thread that raises an exception ends. `join_thread` still returns, and the
  main thread writes `timestamp.log`, the completion signal used outside.

### Hard behaviours

* 32-bit sequence arithmetic with no `% 2**32`. scapy packs TCP `seq` and
  `ack` as unsigned 32-bit fields and raises when a value is too large.
* An exception in a worker thread is not propagated. The run still "finishes".
* Blocking reads with no timeout. A DUT that sends fewer segments than
  `recvSize` hangs the script.
* Handshake frames are consumed blindly: the final ACK is not checked.
* Word boundaries at multiples of the bus width, and the `tlast` marker.
* Three endpoints run six threads in parallel with no cross-synchronisation.

### What makes each component correct

* Segmenter: the words reassemble byte-exactly, in order. Chunks are full
  except the last. Exactly the last word carries `tlast`. `tkeep` matches
  `data_length`.
* TCP passive endpoint: the SYN-ACK acknowledges `ISN+1`. Every data ACK is
  cumulative, modulo 2^32, with padding excluded. Every ACK carries the
  sequence number the peer expects. Only data segments are captured. Exactly
  `recvSize` segments are processed. The run always ends, and
  `timestamp.log` means the capture is complete.
* TCP active endpoint: sends a SYN with its ISN, validates the SYN-ACK, then
  ACKs with `peer_seq + 1`.
* ICMP checksum script: the printed digits, read back as a number, are the
  RFC 1071 checksum of the byte-reversed header, so a receiver's
  one's-complement sum is `0xFFFF`. The printed text has at most four digits.
* Main script: `timestamp.log` means both ingress endpoints fed the whole
  capture, and the script ends whatever the interleaving of its threads.
* UDP endpoints: every pcap packet is sent exactly once and in order. The
  cursor never passes the end. Exactly `recvSize` datagrams are captured.
* Random source: every wait lies in `[min, max]`, and there is no wait only
  when `min = max = 0`.

## 2. Modules and runs

| Module | Models | Status |
|---|---|---|
| `Segmenter.tla` / `MCSegmenter.tla` | `_transmit_packet` word by word, against a stream sink that reassembles on `tlast`; a RECURSIVE reference segmentation; a refinement of `PacketChannel` | done |
| `PacketChannel.tla` | the abstract promise of a stream: a reliable FIFO of whole packets with eventual delivery (from the spec, no code) | done |
| `TcpPassive.tla` / `MCTcpPassive.tla` | the `aat_out` endpoint: construction, `tcp_passive_connect`, `_send_thread`, `_recv_thread`, and the main thread's connect, start, join and timestamp; the DUT TCP client as environment | done |
| `UdpEndpoint.tla` / `MCUdpEndpoint.tla` | one UDP endpoint of either class: `start_thread`; `_send_thread` with the pcap cursor or the `rnd_gen` wait; `_recv_thread` with the capture; the DUT side of both streams as environment | done |
| `TcpActive.tla` / `MCTcpActive.tla` | `tcp_active_connect` of a SEND endpoint (`xtlm_ethernet.py:190-223`), against a DUT TCP server that accepts (SYN-ACK) or refuses (RST-ACK) | done |
| `IcmpChecksum.tla` / `MCIcmpChecksum.tla` | the whole of `ipcs.py`: byte reversal, `hexlify`, and `calculateChecksum` with its loops as steps, and the `hex(...)[2:]` text printed; an RFC 1071 reference sum | done |
| `AatHwEmu.tla` / `MCAatHwEmu.tla` | the whole of `aat_hw_emu.py`: two `UdpEndpoint` instances (`aat_in_a`, `aat_in_b`) and a `TcpPassive` instance (`aat_out`) composed with `INSTANCE ... WITH`, and one DUT that turns every ingress packet into an egress order | done |

### Modelling choices

* A frame in `TcpPassive` and `UdpEndpoint` moves whole on a stream.
  `Segmenter` checks separately that the words of one frame reassemble to the
  frame, and that this is a reliable FIFO (`ImplementsPacketChannel`).
* `b_transport` blocks until the frame is taken. A sending thread therefore
  takes its next step only once its stream is empty (`toDut = <<>>`). This is
  what lets back-pressure from the DUT reach the senders in `AatHwEmu`.
* Sequence numbers are `SeqBits` wide. 32 bits is out of reach for TLC, so the
  runs use 4 bits. The overflow behaviour is kept: a field `>= 2^SeqBits`
  makes `bytes()` raise, as `struct.pack('!I')` does. The harness ISN is drawn
  from `0..2^SeqBits - 2`, matching `randrange(0, 2**32 - 1)`.
* A payload shorter than `PadTo` (6 bytes: a 60-byte Ethernet minimum minus 54
  header bytes) may arrive with padding. `len(p[Raw])` counts the Padding
  layer that scapy attaches below Raw, and the code subtracts it again.
* The DUT is the trading hardware. It is not Python code under `src/`, so it
  is modelled from the spec:
  * In `TcpPassive` it is the TCP client. It may send one ARP frame first,
    opens with a SYN, answers a correct SYN-ACK with an ACK, and sends
    `DutSegments` data segments.
  * In `TcpActive` it is a TCP server. It answers a SYN with a SYN-ACK or an
    RST-ACK, and is established by an ACK of its ISN + 1. Like the spec, it
    does not check the ACK's own sequence number.
  * In `AatHwEmu` it takes an ingress packet only while it holds fewer than
    `DutBuf` undecided orders. It writes an order to the egress stream only
    while that stream holds fewer than `EgressCap` frames.
* In `IcmpChecksum` a hex string is a sequence of digit values.
  `int(c, 16)` is applied to every digit, and `upper()` does not change
  values. The Python version is a constant, because `binascii.hexlify` of a
  `str` raises under Python 3. `hex(n)[2:]` is the RECURSIVE operator
  `HexDigits`: base-16 digits with no prefix and no leading zeros.
* The class-specific methods a base-class thread calls
  (`_get_num_send_packets`, `_process_out_packet`) are one definition per
  class, and a dispatching definition picks one by the endpoint's class.
* An uncaught exception ends the thread (`rpc = "died"`) or the process
  (`mainPc = "crashed"`). `sys.exit(-1)` gives `mainPc = "exited"`.

### Runs

| Run | Cfg | Expect | Checks |
|---|---|---|---|
| segmenter | `MCSegmenter.cfg` | pass | `ChunksMatchReference`, `RoundTrip`, `ImplementsPacketChannel` for packets of 1..5 bytes, widths 1..3, two packets back to back |
| tcp_passive | `MCTcpPassive.cfg` | pass | `AckNumbersCumulative`, `AckSeqIsRcvNxt`, `CaptureIsDutData`, `ProcessEnds`; includes the ARP-first exit, the missing `-s` crash and both overflow crashes |
| tcp_ack_wrap | `MCTcpPassive_ackwrap.cfg` | violation | `CompletionMeansAllAcked`: the receive thread dies on an ACK number of `2^w`, and `timestamp.log` is written anyway |
| tcp_synack_wrap | `MCTcpPassive_synwrap.cfg` | violation | `HandshakeAccepted`: a SYN with seq `2^w - 1` makes `tcp_passive_connect` raise |
| tcp_no_size | `MCTcpPassive_nosize.cfg` | violation | `RunCompletes`: without `-s`, `int(None)` raises before the connect |
| udp_endpoint | `MCUdpEndpoint.cfg` | pass | `PcapSentExactlyOnce`, `ThreadsEnd` for a 3-packet capture endpoint and a 2-packet procedural one, with wait bounds (0,0) and reversed (3,1) |
| udp_wait_equal | `MCUdpEndpoint_wait.cfg` | violation | `WaitWithinBounds`: with bounds (2,2), `waitMs = waitDelta = 0` |
| tcp_active | `MCTcpActive.cfg` | pass | `ConnectedOnlyToAcceptingPeer`, `BothEstablished` over every 4-bit `seq_tx` and peer ISN, both roles, and both peer answers |
| tcp_active_unset | `MCTcpActive_unset.cfg` | violation | `PeerEstablished`: `seq_tx` is never assigned, so no SYN is ever sent |
| icmp_checksum | `MCIcmpChecksum.cfg` | pass | `ChecksumVerifies` for every hex string of length 0..5 over {0, 1, F}, two inputs whose carries need the second fold, and the script's own literal, under Python 2 and 3 |
| aat_hw_emu | `MCAatHwEmu.cfg` | pass | `TimestampMeansAllFed`, `ScriptEnds` with a 3-packet capture, so 6 orders, and `-s` of 6 or 3 |
| aat_hw_emu_short | `MCAatHwEmu_short.cfg` | violation | `ScriptEnds`: with `-s 2`, the leftover orders fill the DUT and the egress stream, an ingress `b_transport` never returns, and the joins hang |

Bounds:
* `TcpPassive`: two data segments and `SeqBits = 4` are enough. With DUT ISN
  12, a 7-byte segment crosses 2^4. ISN 15 puts the SYN at the top of the
  space, and ISN 0 never wraps.
* `Segmenter`: packets of up to 5 bytes with widths 1..3 cover three cases:
  a length that is an exact multiple of the width, a length that is not, and a
  packet shorter than one word. Two packets back to back catch a `tlast` or a
  byte that leaks into the next packet.
* `TcpActive`: every 4-bit value is tried for both ISNs, so both tops of the
  space are reached.
* `IcmpChecksum`: 16-bit arithmetic is kept exactly. It needs no scaling
  because the values stay within TLC's integers.
* `AatHwEmu`: a 3-packet capture gives six orders, with `DutBuf = 2` and
  `EgressCap = 1`. Every thread can be blocked by another. Once the egress
  receive thread stops, at most three orders wait unread: one on the egress
  stream and two in the DUT. The runs sit on both sides of that boundary:
  `-s 3` still ends and `-s 2` hangs. `-s 6` is the case where `-s` matches
  the orders sent.

Fairness. Every harness step is a statement of a running Python thread, and the
simulator always completes a transfer. Weak fairness therefore holds for every
harness action and every DUT action, except the DUT's optional ARP frame.
`IcmpChecksum` is a single sequential computation and checks no liveness. The
runs set `CHECK_DEADLOCK FALSE` because the process really stops. The liveness
properties (`ProcessEnds`, `ThreadsEnd`, `ScriptEnds`) turn a hang into a
violation.

### Mutants

Each property of a passing run is checked against a mutant: a plausible bug
in one mapped definition, under which TLC must find the property violated.
The mutated definitions are kept small on purpose:
* a loop condition (`RecvMore`: `<=` for `<`);
* one computed field (`AckFor`, `FinalAck`, `SeqAfterSynAck`);
* one helper of the word builder (`WordOf`) or of the checksum (`FoldCarries`,
  `Complement16`).

A mutant sits just before the definition it replaces, and its comment names
the bug.

### Order of the remaining work

1. A DUT that sends pure ACKs or keep-alives (zero payload), which would reach
   the `p[Raw]` IndexError (`xtlm_ethernet.py:155`). The harness sends the
   hardware no data on the TCP connection, so there is nothing for the
   hardware to acknowledge. The modelled DUT therefore sends only data.

## 3. Findings

* `xtlm_ethernet.py:155`: `ack = p[TCP].seq + len(p[Raw])` is not reduced
  modulo 2^32. When the DUT's sequence space wraps, `bytes()` raises in
  `_recv_thread`. The thread dies without sending an ACK, `join_thread`
  returns, and `timestamp.log` is written although the capture is short
  (`tcp_ack_wrap`).
* `xtlm_ethernet.py:180`: `ack = syn[TCP].seq + 1` overflows when the DUT's
  ISN is `2^32 - 1`, so the passive handshake raises (`tcp_synack_wrap`).
* `xtlm_ethernet.py:328`: with `minRandWait == maxRandWait > 0`, `waitMs` is
  `waitDelta`, which is 0, so the source never waits. `randrange(min, max)`
  also never returns `max`. The spec says waits lie in `[min, max]` and that
  no wait happens only when both are 0 (`udp_wait_equal`).
* `aat_hw_emu.py:37,49` and `xtlm_ethernet.py:54`: `-s` is optional with
  default `None`, and `int(None)` raises. The spec says the count defaults to
  unbounded or derived (`tcp_no_size`).
* `xtlm_ethernet.py:197`: `tcp_active_connect` reads `self.seq_tx`, which no
  code assigns, so it raises `AttributeError` before sending a SYN
  (`tcp_active_unset`). Every caller in the repository leaves `seq_tx`
  unset, so the code after line 197 never runs. `tcp_active` checks that
  code for a caller that sets the attribute, and no run is kept for what it
  would do at the wrap.
* `xtlm_ethernet.py:146`: the egress receive loop stops after `-s` segments.
  When the hardware sends more orders than `-s` plus what it and the streams
  can buffer, the back-pressure reaches the ingress `b_transport`, and
  `aat_hw_emu.py` hangs in `join_thread`. The spec leaves it to the caller to
  end the process, and the script has no way to do so (`aat_hw_emu_short`).

## 4. Not modelled

* `_create_next_packet` is abstract in the source. The model returns a model
  value `Generated`. The `sleep` itself is timing only; the model records the
  chosen `waitMs`.
* Checksum recomputation is scapy's. The model keeps only its effect: the
  frame is serialised, or it raises.
* `create_udp_packet` only builds a scapy packet from its arguments, and no
  code of the repository calls it. There is no state and no step to check.
* `export_csv.py` and `run_templating.py` are not modelled. spec.md (line 4)
  places them outside the core as pure format converters, and no code of the
  repository reads their output. Each is one sequential pass over its
  input: every sheet's rows written to a CSV file, or one Jinja template
  rendered. There are no threads, no shared state, no protocol and no
  arithmetic, so a model checker would only restate library calls
  (`openpyxl`, `csv`, `yaml`, `jinja2`). One defect is plain from the code.
  `extractDataFromSheets` rewrites a `True` cell as `"TRUE"` but leaves
  `False`, so `csv.writer` writes it as `False`. An xlsx `FALSE` therefore
  comes out as `False` while `TRUE` stays `TRUE` (`export_csv.py:50-52`). A
  unit test on one sheet shows this without a model.
* The pcap file I/O (`rdpcap`, `wrpcap`) is modelled as the in-memory sequence
  it produces (`captured`).
* The content of the output file before the run. `wrpcap(..., append=True)`
  never truncates it, so a rerun with the same `-o` appends to the last
  run's capture. The spec prescribes the append-only log, and the model's
  capture starts empty.
* The order contents and the trading logic of the hardware are not in this
  repository's Python. The DUT produces one order per ingress packet.
