SPECIFICATION Spec
CONSTANTS
    NV = 2
    NE = 1
    NL = 4
    V6 = 2
    Vids = {0, 1, 2}
    NumRss = 1
    MaxQueue = 3
    Disc = Disc
    NoQueue = NoQueue
    NoRule = NoRule
    Specs <- MCSpecs
INVARIANTS NoGhostFilter VlanPasses
PROPERTY RulesTakeEffect
