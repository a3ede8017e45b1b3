SPECIFICATION Spec
CONSTANTS
  s1 = s1  s2 = s2  m1 = m1  m2 = m2
  Chunks <- MCChunks
  Window <- MCWindow1
  Side = {s1, s2}
  Message = {m1, m2}
  DefaultWindow = 2
  MaxRetries = 1
  Senders = {s1, s2}
  Closers = {s1, s2}
  Leavers = {}
  Connectors = {s1}
  Reopeners = {}
  SlowTransfer = {}
  MaxSends = 1
  NetCap = 2
  NoChunk = NoChunk
PROPERTIES OrderlyClose
CHECK_DEADLOCK FALSE
