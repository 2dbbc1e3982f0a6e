SPECIFICATION Spec
CONSTANTS
  Ids = {j1}
  g1 = g1
  g2 = g2
  Gens <- MCGens
  Callers = {c1, c2}
  MaxRuns <- MCMaxRuns
  None = None
SYMMETRY Permute
INVARIANTS Consistent OneRunAtATime LatestOutputWins
PROPERTIES EndsOnce
