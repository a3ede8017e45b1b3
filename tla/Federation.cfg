SPECIFICATION FairSpec
CONSTANTS
  h1 = h1  h2 = h2  b1 = b1
  None = None
  Hub = {h1, h2}
  Band = {b1}
  Dials <- MCDials
  Local <- MCLocal
  QueueDepth = 1
  PipeCap = 1
  MaxConns = 2
  MaxCuts = 1
  MaxFrames = 1
  MaxChanges = 2
INVARIANTS InjectedOnce RelayAuthorised
PROPERTIES LinksHeal
CHECK_DEADLOCK FALSE
