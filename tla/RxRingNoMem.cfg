SPECIFICATION Spec
CONSTANTS
    Size = 3
    RefillThres = 1
    Parts = 2
    Budget = 2
    Pages = {p1, p2, p3}
    AllocFails = {"poll"}
    Vmklnx = FALSE
    NoPage = NoPage
SYMMETRY PageSymmetry
INVARIANTS SkbUntouched FreesOwnPages
CHECK_DEADLOCK FALSE
