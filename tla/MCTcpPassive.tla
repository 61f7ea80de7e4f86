---------------------------- MODULE MCTcpPassive ----------------------------
(* Model-checking instance of TcpPassive.  Sequence numbers are 4 bits    *)
(* wide (2^32 scaled to 16) so that wrap-around is reached within two     *)
(* segments.  The harness ISN is either end of randrange(0, 2^w - 1); the  *)
(* DUT ISN is 0 (no wrap), 12 (the data stream wraps) or 15 (the SYN      *)
(* itself sits at the top of the space).  Payloads of 1 byte (padded or   *)
(* not to the 60-byte Ethernet minimum) and 7 bytes (never padded).        *)
EXTENDS TcpPassive

MCHarnessIsns == {0, 14}
MCDutIsns == {0, 12, 15}
MCPayloadLens == {1, 7}
MCRecvSizeArgs == {2, NoSize}
MCRecvSizeGiven == {2}
MCRecvSizeOmitted == {NoSize}
MCDutIsnNoWrap == {0}
=============================================================================
