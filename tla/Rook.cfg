SPECIFICATION FairSpec
CONSTANTS
  PingIdle = 2
  DeadAfter = 7
  Window = {1}
  Parts = 2
  TcpCap = 2
  SeqSpace = 12
  TcpSenders = {"client", "host"}
  UdpSenders = {"host"}
  Limits <- MCLimits
INVARIANTS LatestWins WholeMessages NoFalseDeath
PROPERTIES SilentPeerNoticed WritesEnd
CHECK_DEADLOCK FALSE
