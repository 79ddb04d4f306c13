CONSTANTS
    None = None
    Malformed = Malformed
    Threads = {h1, h2}
    Requests <- RejectedRequests
    Backend = "salt-only"
    OnUnenforceable = "reject"
    MaxRequests = 2
    MaxTime = 0
SPECIFICATION Spec
INVARIANTS
    StoredIsEnforceable
    FailsForCause
PROPERTIES
    KeepsPromise
