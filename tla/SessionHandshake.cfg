SPECIFICATION Spec
CONSTANTS
  s1 = s1  s2 = s2  chacha = chacha  aes = aes
  None = None
  Node = {s1, s2}
  Cipher = {chacha, aes}
  Baseline = chacha
  Prefs <- MCPrefs
  Lists = {}
  PeerCap = 2
  RebaseCap = 2
  Initiators <- MCTo1
  Announcers = {}
  Notifiers <- MCTo1
  Streamers <- MCTo1
  Leavers = {}
  Restarters = {s2}
  Keepers = {}
  Duplicates = TRUE
  SeqStart <- MCStart12
  MaxSeq = 2
  MaxEpoch = 2
  QueueCap <- MCQueue12
INVARIANTS AcceptedBelowMark RegistryCurrent StreamSessionsInOrder
PROPERTIES NoDowngrade
CHECK_DEADLOCK FALSE
