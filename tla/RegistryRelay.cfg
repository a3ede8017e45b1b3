SPECIFICATION Spec
CONSTANTS
  u1 = u1  u2 = u2  u3 = u3  ip1 = ip1  ip2 = ip2
  Ip <- MCIp
  None = None
  Band = {b1, b2}
  Udp = {u1, u2}
  Conn = {c1}
  Link = {l1}
  RouteId = {}
  FrameLen = {1}
  FrameType = {"route", "plain"}
  UdpLoop = udp
  Slots = {t1}
  MaxBands = 1
  MaxPeersPerBand = 2
  UdpValidationPackets = 1
  UdpQueueBytes = 2
  QueueDepth = 1
  FedDepth = 1
  Ttl = 0
  MaxTime = 1
  SinkId = {s1, s2}
SYMMETRY Symmetry
INVARIANTS BudgetExact CapsHold ConnRegisteredWhileOpen RelayIsolation
