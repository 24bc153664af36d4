SPECIFICATION LruSpec
CONSTANTS
    c1 = c1
    c2 = c2
    k1 = k1
    k2 = k2
    k3 = k3
    None = None
    Callers <- MCCallers
    Keys <- MCKeys
    Caches <- MCCaches
    MaxItems = 2
    Expiration = 1
    MaxTime = 4
PROPERTY
    EvictsOldestUpdate
