SPECIFICATION PcSpec
CONSTANTS
    Users = {u1, u2}
    Blocks = {b1, b2, b3}
    Frames = {p1, p2, p3}
    MaxPages = 2
    None = None
SYMMETRY Symmetry
INVARIANTS CacheHolds 
CHECK_DEADLOCK FALSE
