SPECIFICATION FairSpec
CONSTANTS
  f1 = f1  f2 = f2
  None = None
  File = {f1, f2}
  First = f1
  Total <- MCTotal
  MaxRange = 2
  MaxReplaced = 1
  MaxResumed = 1
  NetCap = 1
INVARIANTS OneFileIntact VerdictCurrent VerdictEarned
PROPERTIES VerdictReached
