------------------------------- MODULE MCNat -------------------------------
(***************************************************************************)
(* The NAT packet path's two checked parts in one run: fragment            *)
(* reassembly (FragQueue) and the Internet checksum (Checksum).  They      *)
(* share no state; part, chosen in Init, says which of them moves, and the *)
(* other stays in one fixed state, so the state spaces add up.             *)
(***************************************************************************)
EXTENDS Naturals, Sequences

CONSTANTS MaxDup, FirstFragmentFirst, ByteBits, MaxLen

VARIABLES part,
          fq, flight, arrived, sending, dups, delivered, crashed,
          buf, init

\* Offsets and lengths in 8-byte units.
Frag(o, l, m) == [off |-> o, len |-> l, more |-> m]

\* A datagram cut into four fragments of unequal length.
D1 == <<Frag(0, 2, TRUE), Frag(2, 1, TRUE), Frag(3, 2, TRUE), Frag(5, 1, FALSE)>>
\* A later datagram with the same key (IP id reused), cut differently.
D2 == <<Frag(0, 1, TRUE), Frag(1, 3, TRUE), Frag(4, 1, FALSE)>>

TwoDatagrams == <<D1, D2>>

FQ == INSTANCE FragQueue WITH Datagrams <- TwoDatagrams
CS == INSTANCE Checksum

fqVars == <<fq, flight, arrived, sending, dups, delivered, crashed>>
csVars == <<buf, init>>
vars == <<part, fqVars, csVars>>

Init ==
  \/ part = "frag" /\ FQ!Init /\ buf = <<>> /\ init = 0
  \/ part = "csum" /\ FQ!Init /\ CS!Init

Next ==
  \/ part = "frag" /\ FQ!Next /\ UNCHANGED <<part, csVars>>
  \/ part = "csum" /\ CS!Next /\ UNCHANGED <<part, fqVars>>

Spec == Init /\ [][Next]_vars

----------------------------------------------------------------------------

\* Both modules' type invariants (the idle one stays in its initial state).
TypeOK == part \in {"frag", "csum"} /\ FQ!TypeOK /\ CS!TypeOK

\* See FragQueue: completed() hands on exactly one whole datagram.
CompleteIsExact == FQ!CompleteIsExact

\* See Checksum: Checksum is RFC 1071's ones' complement sum.
ChecksumIsOnesSum == CS!ChecksumIsOnesSum

\* See Checksum: a header checksummed by SetChecksum(0) and
\* SetChecksum(^CalculateChecksum()) verifies.
HeaderVerifies == CS!HeaderVerifies

=============================================================================
