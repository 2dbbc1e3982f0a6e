SPECIFICATION FairStreamSpec
CONSTANTS
  Aggregates = {a1}
  Ids = {i1, i2, i3}
  Owners = {o1}
  NoOwner = NoOwner
  Writers = {w1}
  Subscribers = {s1}
  MaxSeq = 2
INVARIANTS LogContiguous ProjectedInOrder GapFree
PROPERTIES FencedByOwner StreamsCatchUp
