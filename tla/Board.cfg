SPECIFICATION FairSpec
CONSTANTS
  None = None
  Node = {1, 2}
  Key = {k1}
  Peers <- MCPeers
  MaxWrites = 2
  MaxRestarts = 1
  Restarters = {1}
  Movers = {2}
  Pushers = {2}
  Deleters = {2}
  NetCap = 1
INVARIANTS DigestSound ChangesTold
PROPERTIES NeverBackwards Convergence
