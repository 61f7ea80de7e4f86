----------------------------- MODULE MCAatHwEmu -----------------------------
(* Model-checking instance of AatHwEmu: a three-packet input capture fed *)
(* by both ingress endpoints, so the DUT answers with six one-byte orders; *)
(* 4-bit sequence numbers with ISN 0 on both sides (no wrap: that is      *)
(* TcpPassive's question).  The DUT holds two undecided orders and the    *)
(* egress stream one frame, so three orders can wait unread while every   *)
(* ingress packet has been taken.  -s is 6 (the orders sent) or 3 (the    *)
(* smallest count that still lets the ingress finish); in the short run   *)
(* it is 2, one below that boundary.                                       *)
EXTENDS AatHwEmu

CONSTANTS p1, p2, p3

MCPcapData == <<p1, p2, p3>>
MCRecvSizeArgs == {3, 6}
MCRecvSizeShort == {2}
=============================================================================
