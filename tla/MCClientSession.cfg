\* Three clients of one zone; client a's peer sends two frames, so a's
\* reader reuses a pooled buffer, and each frame is flooded to b and c,
\* sent to one of them, or dropped.  Channels of one slot, no encryption.
\* Deadlock checking is off: once the bounded traffic is read, written or
\* dropped the goroutines wait on their sockets and channels, and a panic
\* ends the process.
CONSTANTS
  a = a
  b = b
  c = c
  Clients <- MCClients
  Senders <- MCSenders
  ChanSize = 1
  MaxFrames = 2
  CryptOn = FALSE
  Parts = {"session", "wire"}
  CryptIds = {0, 5}
  NodeCrypts <- MCNodeCrypts
  TapLens = {1514}
  AnnZones = {1, 762}
  MaxUser <- MCMaxUser
  MaxDial = 1
  MaxFail = 1
  FailEnds = {"s1"}
  ChanCap = 1
SPECIFICATION Spec
CHECK_DEADLOCK FALSE
INVARIANT TypeOK
INVARIANT RefCovers
INVARIANT DeliveredPlain
