SPECIFICATION Spec
CONSTANTS
    c1 = c1
    c2 = c2
    c3 = c3
    cache = cache
    None = None
    Callers <- MCCallers
    Caches <- MCCaches
    Expiration = 1
    MaxTime = 4
SYMMETRY CallerSymmetry
INVARIANTS
    BoundedStaleness
    ForceIsObserved
