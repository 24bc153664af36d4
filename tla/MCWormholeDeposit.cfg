SPECIFICATION FairSpec
CONSTANTS
    c1 = c1
    c2 = c2
    vaa1 = vaa1
    vaa2 = vaa2
    None = None
    Empty = Empty
    Callers <- MCCallers
    SignedVAAs <- MCSignedVAAs
INVARIANTS
    RedeemedMeansAccepted
    CompletionNeverRetracted
    OnlySignedVaaSubmitted
    RedeemedStaysQuiet
PROPERTIES
    KeepsPromise
    CallsSettle
