CONSTANTS
    None = None
    Malformed = Malformed
    Threads = {h1, h2}
    Requests <- ThreadRequests
    Backend = "in-memory"
    OnUnenforceable = "bypass"
    MaxRequests = 3
    MaxTime = 2
SPECIFICATION Spec
INVARIANTS
    FailsForCause
