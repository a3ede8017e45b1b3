SPECIFICATION FairSpec
CONSTANTS
  s1 = s1  s2 = s2  chacha = chacha  aes = aes
  None = None
  Node = {s1, s2}
  Cipher = {chacha, aes}
  Baseline = chacha
  Prefs <- MCPrefs
  Lists <- MCLists
  PeerCap = 2
  RebaseCap = 2
  Initiators = {}
  Announcers <- MCTo1
  Notifiers = {}
  Streamers = {}
  Leavers <- MCTo1
  Restarters = {}
  Keepers = {s1}
  Duplicates = FALSE
  SeqStart <- MCStart31
  MaxSeq = 3
  MaxEpoch = 1
  QueueCap <- MCQueue11
INVARIANTS RegistryCurrent
PROPERTIES SilentPeersForgotten
CHECK_DEADLOCK FALSE
