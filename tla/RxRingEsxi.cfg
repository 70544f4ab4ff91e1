SPECIFICATION Spec
CONSTANTS
    Size = 4
    RefillThres = 2
    Parts = 1
    Budget = 2
    Pages = {p1, p2, p3, p4}
    AllocFails = {}
    Vmklnx = TRUE
    NoPage = NoPage
SYMMETRY PageSymmetry
INVARIANTS RingOrder DmaSafe WholePacket
CHECK_DEADLOCK FALSE
