SPECIFICATION TimedSpec
CONSTANTS
  s1 = s1  s2 = s2  m1 = m1  m2 = m2
  Chunks <- MCChunks
  Window <- MCWindow12
  Side = {s1, s2}
  Message = {m1, m2}
  DefaultWindow = 2
  MaxRetries = 1
  Senders = {s1, s2}
  Closers = {s1}
  Leavers = {s2}
  Connectors = {s1, s2}
  Reopeners = {}
  SlowTransfer = {s1}
  MaxSends = 1
  NetCap = 2
  NoChunk = NoChunk
INVARIANTS NeverStalled CopiesAgree NothingRetiredEarly EofComplete
PROPERTIES RefinesFifo EverythingSettles
CHECK_DEADLOCK FALSE
