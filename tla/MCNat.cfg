\* FragQueue: two datagrams that share the key (IP id reuse), fragments in
\* any order, one duplicated delivery.  Checksum: bytes of 2 bits (words
\* of 4, the accumulator of 8), every buffer of up to 4 bytes, every cut
\* and every initial sum; 4 bytes make the two-word header.  Deadlock
\* checking is off: once the network is empty the packet path waits for
\* the next packet, a panic ends the process, and a checksum input is
\* final at its longest.
CONSTANTS
  MaxDup = 1
  FirstFragmentFirst = FALSE
  ByteBits = 2
  MaxLen = 4
SPECIFICATION Spec
CHECK_DEADLOCK FALSE
INVARIANT TypeOK
INVARIANT CompleteIsExact
INVARIANT ChecksumIsOnesSum
INVARIANT HeaderVerifies
