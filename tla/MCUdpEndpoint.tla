---------------------------- MODULE MCUdpEndpoint ----------------------------
(* Model-checking instance of UdpEndpoint: a three-packet capture, a      *)
(* procedural source of two packets, wait bounds given in order (0, 0) and *)
(* reversed (3, 1), two datagrams received.                                *)
EXTENDS UdpEndpoint

CONSTANTS p1, p2, p3

MCKinds == {"pcap", "rnd"}
MCPcapData == <<p1, p2, p3>>
MCWaitArgs == {<<0, 0>>, <<3, 1>>}
MCWaitArgsEqual == {<<2, 2>>}
MCKindRnd == {"rnd"}
=============================================================================
