------------------------------ MODULE Checksum ------------------------------
(***************************************************************************)
(* The Internet checksum of nat/checksum.go and its use for the IPv4       *)
(* header (nat/ipv4.go, the SetChecksum(0); SetChecksum(^Calculate-        *)
(* Checksum()) pair of nat/snat.go), with the byte width a constant: a     *)
(* byte has ByteBits bits, the code's uint16 has 2 * ByteBits and its      *)
(* uint32 accumulator 4 * ByteBits, so every shift, truncation and carry   *)
(* keeps its place.  The code is checked against RFC 1071's definition,    *)
(* the ones' complement sum of the 16-bit words, over every buffer of up   *)
(* to MaxLen bytes: a state is one input (a buffer and an initial sum).   *)
(***************************************************************************)
EXTENDS Integers, Sequences

CONSTANTS ByteBits, \* bits per byte (8 in the code)
          MaxLen    \* longest buffer checked

Byte == 0..(2^ByteBits - 1)
W    == 2^(2 * ByteBits)    \* values of a uint16
Acc  == 2^(4 * ByteBits)    \* values of a uint32
Word == 0..(W - 1)
Bufs == UNION {[1..n -> Byte] : n \in 0..MaxLen}

\* Bytes 2 * ByteBits apart form a word (b << 8 | c).
Shl(b) == b * 2^ByteBits

VARIABLES buf,   \* the bytes summed
          init   \* the initial (partial) sum handed in

vars == <<buf, init>>

----------------------------------------------------------------------------
(* Mutant: ChecksumCombine drops the end-around carry. *)
ChecksumCombineNoCarry(a, b) == (a + b) % W

----------------------------------------------------------------------------

\* ChecksumCombine: uint16(v + v>>16) of v = a + b.
ChecksumCombine(a, b) == LET v == a + b IN (v + v \div W) % W

\* The loop of Checksum over an even-length buffer: v += buf[i]<<8 + buf[i+1]
\* in a uint32.
RECURSIVE SumWords(_, _)
SumWords(b, v) ==
  IF Len(b) < 2 THEN v
  ELSE SumWords(Tail(Tail(b)), (v + Shl(b[1]) + b[2]) % Acc)

\* Checksum(buf, initial): an odd last byte is added first as a high byte,
\* then the words; the uint32 is folded into a uint16 by ChecksumCombine.
Checksum(b, initial) ==
  LET l == Len(b)
      v0 == IF l % 2 = 1 THEN (initial + Shl(b[l])) % Acc ELSE initial
      v == SumWords(SubSeq(b, 1, l - (l % 2)), v0)
  IN ChecksumCombine(v % W, v \div W)

\* The header scaled to two words, the checksum field the second (the
\* IPv4 header keeps it at an even offset, 10).
HdrLen == 4
CsumAt == 3
SetChecksum(h, v) == [h EXCEPT ![CsumAt] = v \div 2^ByteBits, ![CsumAt + 1] = v % 2^ByteBits]
CalculateChecksum(h) == Checksum(h, 0)
Complement(v) == W - 1 - v

(* Mutant: the header checksum is computed without zeroing the field. *)
HeaderChecksumStale(h) == SetChecksum(h, Complement(CalculateChecksum(h)))

\* ipHeader.SetChecksum(0); ipHeader.SetChecksum(^ipHeader.CalculateChecksum()).
HeaderChecksum(h) ==
  LET z == SetChecksum(h, 0) IN SetChecksum(z, Complement(CalculateChecksum(z)))

----------------------------------------------------------------------------
(* RFC 1071: the ones' complement sum of the buffer's 16-bit words, an odd *)
(* last byte padded with a zero byte. *)

Words(b) ==
  LET p == IF Len(b) % 2 = 1 THEN Append(b, 0) ELSE b
  IN [i \in 1..(Len(p) \div 2) |-> Shl(p[2 * i - 1]) + p[2 * i]]

OnesAdd(a, c) == IF a + c >= W THEN a + c - (W - 1) ELSE a + c

RECURSIVE OnesSum(_, _)
OnesSum(ws, a) == IF ws = <<>> THEN a ELSE OnesSum(Tail(ws), OnesAdd(a, Head(ws)))

----------------------------------------------------------------------------

Init ==
  /\ buf \in Bufs
  /\ init \in Word

\* Every input is an initial state; a step sums the buffer one byte longer.
Extend ==
  /\ Len(buf) < MaxLen
  /\ \E b \in Byte : buf' = Append(buf, b)
  /\ UNCHANGED init

Next == Extend

Spec == Init /\ [][Next]_vars

----------------------------------------------------------------------------
(* Properties *)

\* The inputs, and every result Checksum returns, are uint16 values.
TypeOK ==
  /\ buf \in Bufs /\ init \in Word
  /\ Checksum(buf, init) \in Word

\* Checksum is RFC 1071's ones' complement sum of the words: the uint32
\* accumulation, the odd byte placed high and the single fold of
\* ChecksumCombine together lose no carry, for every buffer and initial sum.
ChecksumIsOnesSum == Checksum(buf, init) = OnesSum(Words(buf), init)

\* A header whose checksum was set by SetChecksum(0) and
\* SetChecksum(^CalculateChecksum()) passes the receiver's check: its
\* checksum is all ones, whatever the field held before.
HeaderVerifies ==
  Len(buf) = HdrLen =>
    CalculateChecksum(HeaderChecksum(buf)) = W - 1

=============================================================================
