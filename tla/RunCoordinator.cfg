SPECIFICATION FairSpec
CONSTANTS
  Keys = {k1}
  Callers = {c1, c2}
  Entries = {e1, e2, e3}
  Fibers = {f1, f2}
  NoEntry = NoEntry
  NoFiber = NoFiber
INVARIANTS NobodyOrphaned
PROPERTIES ImplementsSerial JoinCoversWakes InterruptWaitsForCleanup EventuallySerial CallersReturn
