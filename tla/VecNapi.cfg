SPECIFICATION VecFairSpec
CONSTANTS
    Kinds = {TRUE, FALSE}
    Shared = TRUE
    Missed = TRUE
    Repolls = TRUE
    PollFails = TRUE
    TxBudget = 2
    RxBudget = 2
    MaxWork = 3
INVARIANTS IrqOnlyWhenIdle RingsLeftAlone
PROPERTIES WorkServed StopReturns
