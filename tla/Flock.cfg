SPECIFICATION FairSpec
CONSTANTS
  Procs = {p1, p2, p3, p4}
  MaxCrashes = 2
INVARIANTS HolderKeepsLock
PROPERTIES CrashRecovered
