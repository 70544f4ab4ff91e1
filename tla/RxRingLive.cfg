SPECIFICATION FairSpec
CONSTANTS
    Size = 3
    RefillThres = 1
    Parts = 1
    Budget = 1
    Pages = {p1, p2, p3}
    AllocFails = {}
    Vmklnx = FALSE
    NoPage = NoPage
PROPERTIES RingMoves DeviceRefilled
CHECK_DEADLOCK FALSE
