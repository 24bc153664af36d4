SPECIFICATION FairSpec
CONSTANTS
    t1 = t1
    t2 = t2
    t3 = t3
    SigTxs <- MCSigTxs
    MaxFailures = 4
    MaxFreshStarts = 1
INVARIANTS
    PostNeedsAllSignatures
    ProgressIsHonest
    OnlyUnsignedForgotten
PROPERTY
    RetryingRedeems
