SPECIFICATION FairSpec
CONSTANTS
  Dirs = {d1}
  MaxEntries = 3
  Calls = {c1}
  None = None
INVARIANTS OneAfterAnother StateIsCurrent
PROPERTIES StateIsKept EveryoneReturns
CHECK_DEADLOCK FALSE
