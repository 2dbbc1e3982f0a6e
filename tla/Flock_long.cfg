SPECIFICATION Spec
CONSTANTS
  Procs = {p1, p2, p3}
  MaxCrashes = 0
INVARIANTS MutualExclusion
