---------------------------- MODULE PacketChannel ----------------------------
(***************************************************************************)
(* What a packet stream between an endpoint and the hardware promises: a  *)
(* reliable FIFO of whole packets.  The sender hands over packets, the     *)
(* receiver gets each one exactly once, unchanged and in the order sent,   *)
(* and every packet handed over is eventually delivered.  Words, bus       *)
(* widths and tlast are below this level of description.                   *)
(***************************************************************************)
EXTENDS Naturals, Sequences

CONSTANTS
  Msgs,     \* the packets that may be sent
  MaxMsgs   \* the number of packets the sender hands over

VARIABLES
  handed,     \* packets given to the stream, in order
  delivered   \* packets the receiver has got, in order

chanVars == <<handed, delivered>>

ChanInit == handed = <<>> /\ delivered = <<>>

Send(m) ==
  /\ Len(handed) < MaxMsgs
  /\ handed' = Append(handed, m)
  /\ UNCHANGED delivered

(* The oldest undelivered packet reaches the receiver.                    *)
Deliver ==
  /\ Len(delivered) < Len(handed)
  /\ delivered' = Append(delivered, handed[Len(delivered) + 1])
  /\ UNCHANGED handed

ChanNext == (\E m \in Msgs : Send(m)) \/ Deliver

ChanSpec == ChanInit /\ [][ChanNext]_chanVars /\ WF_chanVars(Deliver)

=============================================================================
