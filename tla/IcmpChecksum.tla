----------------------------- MODULE IcmpChecksum -----------------------------
(***************************************************************************)
(* hw/tcp_udp_ip/hls/icmp_server/ipcs.py: the script behind the ICMP       *)
(* server's checksum test vector.  It byte-reverses a hex dump of a header *)
(* (hexstream_reverse_bytes), upper-cases it, calls binascii.hexlify on    *)
(* it, and prints calculateChecksum(header, len(header)): the 16-bit       *)
(* one's-complement checksum over the hex digits taken four at a time.     *)
(*                                                                         *)
(* A hex string is a sequence of digit values 0..15: int(c, 16) is the    *)
(* conversion the code applies to every digit, and upper() leaves the      *)
(* values alone.  calculateChecksum's loops are steps of the model, and   *)
(* the printed checksum is the digit sequence hex(...)[2:] produces.       *)
(***************************************************************************)
EXTENDS Integers, Sequences, SequencesExt

CONSTANTS
  Headers,      \* the ip_header literals the script may be edited to hold
  Interpreters  \* Python major versions the script may run under: subset of {2, 3}

ASSUME Headers \subseteq Seq(0..15)
ASSUME Interpreters \subseteq {2, 3}

VARIABLES
  input,    \* the literal ip_header
  py,       \* the interpreter's major version
  hdr,      \* ip_header (the local of calculateChecksum once it runs)
  size,     \* calculateChecksum's size
  cksum,    \* calculateChecksum's cksum
  pointer,  \* calculateChecksum's pointer
  result,   \* the value calculateChecksum returned
  printed,  \* cs, the digits the script prints
  pc        \* "reverse", "hexlify", "pad", "sum", "print", "done", "crashed"

vars == <<input, py, hdr, size, cksum, pointer, result, printed, pc>>

NoResult == -1

MinOf(a, b) == IF a <= b THEN a ELSE b

(* Python slice s[a:b] for 0 <= a <= b.                                   *)
PySlice(s, a, b) == SubSeq(s, a + 1, MinOf(b, Len(s)))

(* split_string_into_len: consecutive pieces of size digits, the last one *)
(* shorter when the length is not a multiple of size.                      *)
SplitIntoLen(s, sz) ==
  [k \in 1..((Len(s) + sz - 1) \div sz) |-> PySlice(s, (k - 1) * sz, k * sz)]

(* hexstream_reverse_bytes: the two-digit pieces in reverse order, joined. *)
HexstreamReverseBytes(s) == FlattenSeq(Reverse(SplitIntoLen(s, 2)))

(* int(digits, 16).                                                        *)
HexValue(ds) == FoldLeft(LAMBDA acc, d : 16 * acc + d, 0, ds)

(* hex(n)[2:] for n >= 0: the base-16 digits of n without the '0x' prefix *)
(* and without leading zeros, a single 0 for n = 0.                        *)
RECURSIVE HexDigits(_)
HexDigits(n) == IF n < 16 THEN <<n>> ELSE HexDigits(n \div 16) \o <<n % 16>>

Init ==
  /\ input \in Headers
  /\ py \in Interpreters
  /\ hdr = input
  /\ size = 0
  /\ cksum = 0
  /\ pointer = 0
  /\ result = NoResult
  /\ printed = <<>>
  /\ pc = "reverse"

-----------------------------------------------------------------------------
(* Script body: print, reverse the bytes, upper().                         *)
ReverseHeader ==
  /\ pc = "reverse"
  /\ hdr' = HexstreamReverseBytes(hdr)
  /\ pc' = "hexlify"
  /\ UNCHANGED <<input, py, size, cksum, pointer, result, printed>>

(* binascii.hexlify(ip_header): accepted as a str by Python 2, a          *)
(* TypeError (a bytes-like object is required) under Python 3.  Then      *)
(* calculateChecksum(ip_header, len(ip_header)) is entered.                *)
Hexlify ==
  /\ pc = "hexlify"
  /\ IF py = 3
       THEN /\ pc' = "crashed"
            /\ UNCHANGED size
       ELSE /\ pc' = "pad"
            /\ size' = Len(hdr)
  /\ UNCHANGED <<input, py, hdr, cksum, pointer, result, printed>>

(* while len(ip_header) % 4 != 0: append "0", size += 1.                  *)
Pad ==
  /\ pc = "pad"
  /\ Len(hdr) % 4 # 0
  /\ hdr' = Append(hdr, 0)
  /\ size' = size + 1
  /\ UNCHANGED <<input, py, cksum, pointer, result, printed, pc>>

(* The padding loop ends; cksum = 0, pointer = 0.                         *)
PadDone ==
  /\ pc = "pad"
  /\ Len(hdr) % 4 = 0
  /\ cksum' = 0
  /\ pointer' = 0
  /\ pc' = "sum"
  /\ UNCHANGED <<input, py, hdr, size, result, printed>>

(* while size > 1: add the next four digits as one 16-bit word.           *)
AddWord ==
  /\ pc = "sum"
  /\ size > 1
  /\ cksum' = cksum + HexValue(PySlice(hdr, pointer, pointer + 4))
  /\ size' = size - 4
  /\ pointer' = pointer + 4
  /\ UNCHANGED <<input, py, hdr, result, printed, pc>>

(* Mutant of FoldCarries: the carry folded once only.                   *)
FoldCarriesOnce(c) == (c \div 65536) + (c % 65536)

(* cksum = (cksum >> 16) + (cksum & 0xffff); cksum += (cksum >> 16).      *)
FoldCarries(c) ==
  LET c1 == (c \div 65536) + (c % 65536)
  IN c1 + (c1 \div 65536)

(* Mutant of Complement16: ~cksum without '& 0xFFFF'.                     *)
Complement16NoMask(c) == -c - 1

(* (~cksum) & 0xFFFF for a non-negative cksum.                            *)
Complement16(c) == 65535 - (c % 65536)

(* The loop ends: 'if size' adds a lone digit, the carries are folded and *)
(* the complement is returned.                                            *)
Finish ==
  /\ pc = "sum"
  /\ size <= 1
  /\ LET c0 == IF size # 0 THEN cksum + hdr[pointer + 1] ELSE cksum
     IN result' = Complement16(FoldCarries(c0))
  /\ pc' = "print"
  /\ UNCHANGED <<input, py, hdr, size, cksum, pointer, printed>>

(* cs = hex(calculateChecksum(...))[2:]; print(cs).                       *)
PrintChecksum ==
  /\ pc = "print"
  /\ printed' = HexDigits(result)
  /\ pc' = "done"
  /\ UNCHANGED <<input, py, hdr, size, cksum, pointer, result>>

Next == ReverseHeader \/ Hexlify \/ Pad \/ PadDone \/ AddWord \/ Finish \/ PrintChecksum

Spec == Init /\ [][Next]_vars

-----------------------------------------------------------------------------
(* Reference: RFC 1071's one's-complement sum, each addition folding its  *)
(* carry back in at once, over 16-bit words of four hex digits, a short   *)
(* final word padded with zero digits on the right.                       *)
Words(s) ==
  [k \in 1..((Len(s) + 3) \div 4) |->
     LET w == PySlice(s, 4 * (k - 1), 4 * k)
     IN HexValue(w) * 16 ^ (4 - Len(w))]

OnesAdd(a, b) == IF a + b > 65535 THEN a + b - 65535 ELSE a + b

OnesSum(ws) == FoldLeft(OnesAdd, 0, ws)

-----------------------------------------------------------------------------
TypeOK ==
  /\ input \in Headers
  /\ py \in Interpreters
  /\ hdr \in Seq(0..15)
  /\ size \in Int
  /\ cksum \in Nat
  /\ pointer \in Nat
  /\ result \in 0..65535 \cup {NoResult}
  /\ printed \in Seq(0..15)
  /\ pc \in {"reverse", "hexlify", "pad", "sum", "print", "done", "crashed"}

(* The printed checksum, its digits read back as a number, is the one an  *)
(* ICMP receiver verifies: the one's-complement sum of the byte-reversed  *)
(* header's words and the checksum is 0xFFFF, and it equals 0xFFFF minus  *)
(* the RFC 1071 sum, including when the deferred carries of               *)
(* calculateChecksum exceed 16 bits; it never has more than four digits.  *)
ChecksumVerifies ==
  pc = "done" =>
    LET ws == Words(HexstreamReverseBytes(input))
        cs == HexValue(printed)
    IN /\ Len(printed) \in 1..4
       /\ cs = 65535 - OnesSum(ws)
       /\ OnesSum(Append(ws, cs)) = 65535

=============================================================================
