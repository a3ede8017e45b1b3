SPECIFICATION Spec
CONSTANTS
  s1 = s1  s2 = s2  chacha = chacha  aes = aes
  None = None
  Node = {s1, s2}
  Cipher = {chacha, aes}
  Baseline = chacha
  Prefs <- MCPrefs
  Lists = {}
  PeerCap = 2
  RebaseCap = 2
  Initiators <- MCBothWays
  Announcers = {}
  Notifiers = {}
  Streamers = {}
  Leavers = {}
  Restarters = {}
  Keepers = {}
  Duplicates = FALSE
  SeqStart <- MCStart11
  MaxSeq = 1
  MaxEpoch = 1
  QueueCap <- MCQueue11
INVARIANTS SuitesAgree
CHECK_DEADLOCK FALSE
