SPECIFICATION SyncSpec
CONSTANTS
  Sessions = {s1}
  Remotes = {w1, w2}
  Home = Home
  Warps = {m1, m2}
  Nowhere = Nowhere
  Project = Project
  Origins = {w1}
  Patching = {Home}
  MaxLen = 3
INVARIANTS OneSource HistoryFits
PROPERTIES NothingLeftBehind CatchesUp
