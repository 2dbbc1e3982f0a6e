SPECIFICATION Spec
CONSTANTS
    c1 = c1  c2 = c2  c3 = c3  c4 = c4
    Calls = {c1, c2, c3, c4}
    None = None
SYMMETRY CallSymmetry
INVARIANTS WorkIsReachable WaitersAnswered
