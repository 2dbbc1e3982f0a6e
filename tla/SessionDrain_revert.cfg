SPECIFICATION Spec
CONSTANTS
  Sessions = {s1}
  Ids = {i1,m1}
  History = {m1}
  Deliveries = {"steer","queue"}
  Resumes = {TRUE}
  Times = {t1}
  Clients = {c1, c2}
  MaxSeq = 5
  Steps = 2
  None = None
SYMMETRY Permute
INVARIANTS TablesAgree AcceptedIsRecorded
