SPECIFICATION Spec
CONSTANTS
    c1 = c1
    c2 = c2
    Callers <- MCCallers
    MilisInSecond = 2
    DefaultExpiry = 1
    Expirations = {1, 3}
    NoExpiration = NoExpiration
    StartTime = 2
    MaxBatch = 2
    MaxOrders = 3
    MaxTime = 3
INVARIANT
    CappedBySessionOnly
