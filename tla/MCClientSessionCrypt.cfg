\* Same clients and traffic with encryption on: a frame flooded to b and c
\* sits in both channels, and each writer encrypts the same buffer.
CONSTANTS
  a = a
  b = b
  c = c
  Clients <- MCClients
  Senders <- MCSenders
  ChanSize = 1
  MaxFrames = 2
  CryptOn = TRUE
  Parts = {"session"}
  CryptIds = {0, 5}
  NodeCrypts <- MCNodeCrypts
  TapLens = {1514}
  AnnZones = {1, 762}
  MaxUser <- MCMaxUser
  MaxDial = 1
  MaxFail = 1
  FailEnds = {"s1"}
  ChanCap = 1
SPECIFICATION Spec
CHECK_DEADLOCK FALSE
INVARIANT WireEncryptedOnce
