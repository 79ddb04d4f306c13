CONSTANTS
    None = None
    Malformed = Malformed
    Threads = {h1, h2}
    Requests <- ThreadRequests
    Backend = "in-memory"
    OnUnenforceable = "bypass"
    MaxRequests = 3
    MaxTime = 1
SYMMETRY ThreadSymmetry
SPECIFICATION Spec
INVARIANTS
    ForbiddenNeverRetained
PROPERTIES
    NoReusePastMaxAge
    KeepsPromise
    WaitFree
