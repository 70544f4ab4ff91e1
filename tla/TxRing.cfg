SPECIFICATION Spec
CONSTANTS
    Size = 5
    FragsMax = 2
    RestartThres = 3
    CleanBudget = 2
    Skbs = {s1, s2}
    Shapes <- AllShapes
    FailAt = {2}
    Torn = {"xmit"}
    NoSkb = NoSkb
SYMMETRY SkbSymmetry
INVARIANTS RingOrder DmaSafe
PROPERTIES WholePacket InOrderService
