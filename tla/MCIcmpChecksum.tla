---------------------------- MODULE MCIcmpChecksum ----------------------------
(* Model-checking instance of IcmpChecksum.  Headers: every hex string of *)
(* up to 5 digits over {0, 1, F} (lengths that need padding, odd byte and *)
(* odd digit counts), three-word strings whose deferred sum needs the     *)
(* second carry fold once byte-reversed (0100FFFFFFFF reverses to         *)
(* FFFFFFFF0001, whose sum 0x1FFFF folds to 0x10000), and the literal the *)
(* script holds.                                                           *)
EXTENDS IcmpChecksum

MCShort == UNION {[1..n -> {0, 1, 15}] : n \in 0..5}

MCCarry == {<<0, 1, 0, 0, 15, 15, 15, 15, 15, 15, 15, 15>>,
            <<15, 15, 15, 15, 15, 15, 15, 15, 0, 1, 0, 0>>}

MCLiteral == <<3, 7, 3, 6, 3, 5, 3, 4, 3, 3, 3, 2, 3, 1, 3, 0, 2, 15, 2, 14, 2, 13, 2, 12, 2, 11, 2, 10, 2, 9, 2, 8, 2, 7, 2, 6, 2, 5, 2, 4, 2, 3, 2, 2, 2, 1, 2, 0, 1, 15, 1, 14, 1, 13, 1, 12, 1, 11, 1, 10, 1, 9, 1, 8, 1, 7, 1, 6, 1, 5, 1, 4, 1, 3, 1, 2, 1, 1, 1, 0, 0, 0, 0, 0, 0, 0, 0, 0, 0, 0, 0, 13, 1, 8, 8, 10, 0, 0, 0, 0, 0, 0, 0, 0, 5, 1, 12, 13, 5, 5, 11, 8, 0, 1, 0, 0, 11, 4, 6, 3, 11, 7, 11, 8, 0, 0, 0, 8>>

MCHeaders == MCShort \cup MCCarry \cup {MCLiteral}
=============================================================================
