CONSTANTS
    None = None
    Malformed = Malformed
    Threads = {h1}
    Requests <- SequentialRequests
    Backend = "in-memory"
    OnUnenforceable = "bypass"
    MaxRequests = 2
    MaxTime = 1
SPECIFICATION Spec
INVARIANTS
    TypeOK
    BoundaryHolds
    CallsKeepBoundary
    ApproximateKeptApart
    StoredIsReported
    RetainedIsKept
    FailsForCause
    HoistingKeepsOwnShare
    EachFragmentOnce
PROPERTIES
    ReuseWithinNamespaces
    DeletedWhenDue
