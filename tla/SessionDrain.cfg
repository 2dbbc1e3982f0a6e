SPECIFICATION FairSpec
CONSTANTS
  Sessions = {s1}
  Ids = {i1, i2, m1}
  History = {m1}
  Deliveries = {"steer", "queue"}
  Resumes = {TRUE, FALSE}
  Times = {t1}
  Clients = {c1}
  MaxSeq = 5
  Steps = 2
  None = None
INVARIANTS PromotedInOrder NothingStranded AskedBeforeIdle
PROPERTIES DuePromoted
