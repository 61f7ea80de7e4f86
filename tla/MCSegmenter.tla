---------------------------- MODULE MCSegmenter ----------------------------
(* Model-checking instance of Segmenter: packets of 1..5 bytes over a     *)
(* two-letter alphabet, bus widths 1..3 (so lengths both multiples and    *)
(* non-multiples of the width, and packets shorter than one word), two    *)
(* packets back to back so that a stale word or tlast would spill into    *)
(* the next packet.                                                        *)
EXTENDS Segmenter

MCBytes == {0, 1}
MCBusWidths == {1, 2, 3}
=============================================================================
