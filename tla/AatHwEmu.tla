------------------------------- MODULE AatHwEmu -------------------------------
(***************************************************************************)
(* The whole of aat_hw_emu.py: two ipc_udp_ip_pcap SEND endpoints (aat_in_a *)
(* on port 0, aat_in_b on port 2) both fed the same input capture, and the *)
(* ipc_tcp_ip_pcap RECEIVE endpoint aat_out on port 1.  The main thread    *)
(* builds the three, runs tcp_passive_connect on aat_out, starts the six   *)
(* threads, joins them and writes timestamp.log.                           *)
(*                                                                         *)
(* Each endpoint is its own module, instantiated here; the environment     *)
(* actions of those modules are replaced by one DUT, the trading hardware  *)
(* (modelled from the spec, not code under src/): it takes an ingress     *)
(* packet only while fewer than DutBuf orders are waiting in it, answers   *)
(* every ingress packet with one order, a TCP data segment on the egress   *)
(* connection, and puts an order on the egress stream only while fewer     *)
(* than EgressCap frames wait there.  Those two bounds are the back-       *)
(* pressure a blocking b_transport exerts on the writer.                   *)
(***************************************************************************)
EXTENDS Integers, Sequences

CONSTANTS
  PcapData,     \* rdpcap(args.inputFile): the packets both ingress endpoints send
  Generated, NoWait,
  SeqBits, HarnessIsns, DutIsns, RecvSizeArgs, NoSize, PayloadLens, PadTo,
  DutBuf,       \* orders the DUT holds before it stops taking ingress packets
  EgressCap     \* frames the egress stream holds before the DUT's write blocks

VARIABLES
  aKind, aMinW, aMaxW, aSpc, aTotal, aSId, aCursor, aLastWait, aRpc, aRId,
  aToDut, aFromDut, aCaptured, aDutGot, aDutSent,
  bKind, bMinW, bMaxW, bSpc, bTotal, bSId, bCursor, bLastWait, bRpc, bRId,
  bToDut, bFromDut, bCaptured, bDutGot, bDutSent,
  mainPc, recvSize, hseq, rpc, spc, pId, toHarness, toDut, captured,
  dpc, dutIsn, dutNxt, dutRcvNxt, dutData, dutAcks,
  backlog       \* DUT: orders decided and not yet written to the egress stream

aVars == <<aKind, aMinW, aMaxW, aSpc, aTotal, aSId, aCursor, aLastWait, aRpc,
           aRId, aToDut, aFromDut, aCaptured, aDutGot, aDutSent>>
bVars == <<bKind, bMinW, bMaxW, bSpc, bTotal, bSId, bCursor, bLastWait, bRpc,
           bRId, bToDut, bFromDut, bCaptured, bDutGot, bDutSent>>
outVars == <<mainPc, recvSize, hseq, rpc, spc, pId, toHarness, toDut, captured,
             dpc, dutIsn, dutNxt, dutRcvNxt, dutData, dutAcks>>
vars == <<aVars, bVars, outVars, backlog>>

(* ipc_udp_ip_pcap(..., SEND, sendPcapName = args.inputFile): recvSize    *)
(* keeps its default 0 and nothing is sent towards the harness.            *)
InA == INSTANCE UdpEndpoint
         WITH Kinds <- {"pcap"}, SendSize <- 0, WaitArgs <- {<<0, 0>>},
              RecvSize <- 0, DutDatagrams <- 0,
              kind <- aKind, minW <- aMinW, maxW <- aMaxW, spc <- aSpc,
              total <- aTotal, sId <- aSId, cursor <- aCursor,
              lastWait <- aLastWait, rpc <- aRpc, rId <- aRId, toDut <- aToDut,
              fromDut <- aFromDut, captured <- aCaptured, dutGot <- aDutGot,
              dutSent <- aDutSent

InB == INSTANCE UdpEndpoint
         WITH Kinds <- {"pcap"}, SendSize <- 0, WaitArgs <- {<<0, 0>>},
              RecvSize <- 0, DutDatagrams <- 0,
              kind <- bKind, minW <- bMinW, maxW <- bMaxW, spc <- bSpc,
              total <- bTotal, sId <- bSId, cursor <- bCursor,
              lastWait <- bLastWait, rpc <- bRpc, rId <- bRId, toDut <- bToDut,
              fromDut <- bFromDut, captured <- bCaptured, dutGot <- bDutGot,
              dutSent <- bDutSent

(* The DUT sends one order per ingress packet: twice the capture in all.   *)
Out == INSTANCE TcpPassive
         WITH DutSegments <- 2 * Len(PcapData), DutMayArp <- FALSE

Init == InA!Init /\ InB!Init /\ Out!Init /\ backlog = 0

-----------------------------------------------------------------------------
(* Main thread.  Construction and tcp_passive_connect are aat_out's own   *)
(* steps (Out); the ingress endpoints are idle until their threads start. *)
MainConnect ==
  /\ \/ \E arg \in RecvSizeArgs : Out!Construct(arg)
     \/ Out!PassiveRecvSyn
     \/ Out!PassiveRecvAck
  /\ UNCHANGED <<aVars, bVars, backlog>>

(* Mutant of StartAll: aat_in_b.start_thread() left out.                  *)
StartAllNoB ==
  /\ Out!StartThreads
  /\ InA!StartThreads
  /\ UNCHANGED <<bVars, backlog>>

(* aat_in_a.start_thread(); aat_in_b.start_thread(); aat_out.start_thread() *)
StartAll ==
  /\ Out!StartThreads
  /\ InA!StartThreads
  /\ InB!StartThreads
  /\ UNCHANGED backlog

(* A thread of an endpoint has ended, normally or by an exception.        *)
Ended(sendPc, recvPc) == sendPc \in {"done", "died"} /\ recvPc = "done"

(* Mutant of JoinAll: aat_in_b.join_thread() left out.                    *)
JoinAllNoB ==
  /\ Ended(aSpc, aRpc)
  /\ Out!JoinAndFinish
  /\ UNCHANGED <<aVars, bVars, backlog>>

(* The three join_thread calls return, then timestamp.log is written.     *)
JoinAll ==
  /\ Ended(aSpc, aRpc)
  /\ Ended(bSpc, bRpc)
  /\ Out!JoinAndFinish
  /\ UNCHANGED <<aVars, bVars, backlog>>

(* A step of one of the six worker threads.                                *)
ThreadA ==
  /\ \/ InA!SendBegin \/ InA!SendPcapPacket \/ InA!SendEnd
     \/ InA!RecvDatagram \/ InA!RecvEnd
  /\ UNCHANGED <<bVars, outVars, backlog>>

ThreadB ==
  /\ \/ InB!SendBegin \/ InB!SendPcapPacket \/ InB!SendEnd
     \/ InB!RecvDatagram \/ InB!RecvEnd
  /\ UNCHANGED <<aVars, outVars, backlog>>

ThreadOut ==
  /\ Out!SendThread \/ Out!RecvSegment \/ Out!RecvLoopExit
  /\ UNCHANGED <<aVars, bVars, backlog>>

-----------------------------------------------------------------------------
(* DUT (environment).                                                      *)

(* The TCP client side of the handshake and the ACKs it takes back.       *)
DutTcp ==
  /\ Out!DutSyn \/ Out!DutRecvSynAck \/ Out!DutRecvAck
  /\ UNCHANGED <<aVars, bVars, backlog>>

(* The DUT takes the packet an ingress b_transport offers, if it has room. *)
DutIngestA ==
  /\ backlog < DutBuf
  /\ InA!DutTake
  /\ backlog' = backlog + 1
  /\ UNCHANGED <<bVars, outVars>>

DutIngestB ==
  /\ backlog < DutBuf
  /\ InB!DutTake
  /\ backlog' = backlog + 1
  /\ UNCHANGED <<aVars, outVars>>

(* The DUT writes an order to the egress stream, if the stream has room.  *)
DutOrder ==
  /\ backlog > 0
  /\ Len(toHarness) < EgressCap
  /\ \E len \in PayloadLens : \E pad \in Out!Paddings(len) : Out!DutSendData(len, pad)
  /\ backlog' = backlog - 1
  /\ UNCHANGED <<aVars, bVars>>

Next ==
  \/ MainConnect \/ StartAll \/ JoinAll
  \/ ThreadA \/ ThreadB \/ ThreadOut
  \/ DutTcp \/ DutIngestA \/ DutIngestB \/ DutOrder

(* Every thread of the script, and the simulated hardware, keeps running. *)
Fairness ==
  /\ WF_vars(MainConnect) /\ WF_vars(StartAll) /\ WF_vars(JoinAll)
  /\ WF_vars(ThreadA) /\ WF_vars(ThreadB) /\ WF_vars(ThreadOut)
  /\ WF_vars(DutTcp) /\ WF_vars(DutIngestA) /\ WF_vars(DutIngestB)
  /\ WF_vars(DutOrder)

Spec == Init /\ [][Next]_vars /\ Fairness

-----------------------------------------------------------------------------
(* timestamp.log is written only once both ingress endpoints have handed  *)
(* the hardware the whole input capture: completion of the run means all  *)
(* market data was fed, whatever the interleaving of the six threads.     *)
TimestampMeansAllFed ==
  mainPc = "done" => aDutGot = PcapData /\ bDutGot = PcapData

(* The emulation ends (timestamp.log, sys.exit or an exception) when -s   *)
(* matches the orders the hardware sends: no thread blocks for ever.      *)
ScriptEnds == <>(mainPc \in {"done", "exited", "crashed"})

=============================================================================
