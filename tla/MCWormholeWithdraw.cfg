SPECIFICATION FairSpec
CONSTANTS
    c1 = c1
    c2 = c2
    Callers <- MCCallers
INVARIANTS
    LandedIsNeverDenied
PROPERTIES
    KeepsPromise
    CallsSettle
