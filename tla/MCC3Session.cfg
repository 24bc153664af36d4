SPECIFICATION Spec
CONSTANTS
    c1 = c1
    l1 = l1
    l2 = l2
    Calls = {c1}
    Logins = {l1, l2}
    Instruments <- MCInstruments
    InitialListed = 2
    Requests <- MCRequests
    Validity = 0
    SessionDuration = 0
    MaxNonces = 1
    MaxKeys = 2
    MaxAccounts = 3
    MaxBusy = 2
    MaxTime = 2
SYMMETRY MCSymmetry
INVARIANTS
    SignedAsAsked
    RefusalsAreExplained
CHECK_DEADLOCK FALSE
