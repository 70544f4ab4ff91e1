SPECIFICATION FairSpec
CONSTANTS
    Size = 6
    FragsMax = 2
    RestartThres = 3
    CleanBudget = 2
    Skbs = {s1, s2}
    Shapes <- LongShape
    FailAt = {2}
    Torn = {}
    NoSkb = NoSkb
PROPERTIES QueueResumes TxCompletes
