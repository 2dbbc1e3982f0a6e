SPECIFICATION Spec
CONSTANTS
    s1 = s1  s2 = s2  build = build  plan = plan  edit = edit  bash = bash
    a1 = a1  a2 = a2  a3 = a3  p1 = p1  p2 = p2
    Asks = {a1, a2, a3}
    Replies = {p1, p2}
    Sessions = {s1, s2}
    Agents = {build, plan}
    DefaultAgent = build
    Resources = {edit, bash}
    Rules <- MCRules
    Requests <- MCRequests
    MaxChanges = 1
    None = None
SYMMETRY Symmetry
CHECK_DEADLOCK FALSE
INVARIANTS WaitersAnswerable
PROPERTIES GrantedOnGrounds RepliesSettle
