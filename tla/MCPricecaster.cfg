SPECIFICATION Spec
CONSTANTS
    Jobs = {j1, j2}
    Programs = {p1, p2}
    Assets = {a1}
    Prices = {1}
    NumPrices = 2
    MaxApps = 2
    Validity = 1
    MaxRound = 3
INVARIANTS
    CreatesProgramOfItsTime
    ReadsAreOfTheFirstMoment
PROPERTY
    WaitEndsUnlessLost
