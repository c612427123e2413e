\* Heartbeat: hbID scaled to 2 bits (ids 1..3, 0 skipped on the wrap).
\* Each path holds one message, so at most two heartbeat messages are in
\* flight besides the current request: fewer than the three ids, as the
\* code's 65535 ids exceed what pktchan (1024) and the socket buffers hold.
\* Two idle periods before the link is dropped; the peer sends two frames
\* or requests, and other clients forward frames without bound.
\* BackupLink: two dial targets (the least for choseBackup to pick between
\* slaves and for one slave to fail while the other is active), two delay
\* values (a strict minimum and a tie), three slave failures.
\* Wire: S and R encrypt and H does not, one dial per link, s1 may fail
\* once, channels of one slot, no tap traffic.
CONSTANTS
  HBBits = 2
  HeartbeatCnt = 2
  OutCap = 1
  InCap = 1
  MaxData = 2
  Slots = {1, 2}
  Delays = {1, 2}
  MaxFail = 3
  CryptIds = {0, 5}
  WNodeCrypts <- MCWNodeCrypts
  TapLens = {1514}
  AnnZones = {1}
  WMaxUser <- MCWMaxUser
  MaxDial = 1
  WMaxFail = 1
  FailEnds = {"s1"}
  ChanCap = 1
SPECIFICATION Spec
INVARIANT TypeOK
INVARIANT ReplyIdsUnambiguous
INVARIANT ActiveListed
PROPERTY DeadPeerClosed
PROPERTY EventuallyActive
PROPERTY HandshakeCompletes
PROPERTY AnnouncementJoins
