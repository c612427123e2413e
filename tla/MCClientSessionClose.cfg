\* Same clients and traffic: a client closes while another reader is in
\* PutPktToChan2 between its IsClose test and the send.
CONSTANTS
  a = a
  b = b
  c = c
  Clients <- MCClients
  Senders <- MCSenders
  ChanSize = 1
  MaxFrames = 2
  CryptOn = FALSE
  Parts = {"session"}
  CryptIds = {0, 5}
  NodeCrypts <- MCNodeCrypts
  TapLens = {1514}
  AnnZones = {1, 762}
  MaxUser <- MCMaxUser
  MaxDial = 1
  MaxFail = 1
  FailEnds = {"s1"}
  ChanCap = 1
SPECIFICATION Spec
CHECK_DEADLOCK FALSE
INVARIANT NoSendOnClosed
