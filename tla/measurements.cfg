CONSTANTS
    None = None
    Settings <- MCSettings
    MaxHits = 2
SPECIFICATION MeasureSpec
INVARIANTS
    VerdictsAreRight
    HoldsIsProof
    ZeroIsProof
