SPECIFICATION Spec
CONSTANTS
  u1 = u1  u2 = u2  u3 = u3  ip1 = ip1  ip2 = ip2
  Ip <- MCIp
  None = None
  Band = {b1}
  Udp = {u1, u2, u3}
  Conn = {}
  Link = {}
  RouteId = {1}
  FrameLen = {1}
  FrameType = {"route", "addressed", "plain"}
  UdpLoop = udp
  Slots = {}
  MaxBands = 1
  MaxPeersPerBand = 3
  UdpValidationPackets = 2
  UdpQueueBytes = 0
  QueueDepth = 0
  FedDepth = 0
  Ttl = 1
  MaxTime = 3
  SinkId = {s1, s2, s3}
SYMMETRY Symmetry
INVARIANTS NoStaleRebind SinkIffEligible NeverBlackHoled
PROPERTIES OnlyRebindStripsId
