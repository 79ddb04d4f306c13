CONSTANTS
    None = None
    Malformed = Malformed
    Threads = {h1}
    Requests <- LifetimeRequests
    Backend = "in-memory"
    OnUnenforceable = "bypass"
    MaxRequests = 3
    MaxTime = 2
SPECIFICATION Spec
PROPERTIES
    ReadNeverRestarts
