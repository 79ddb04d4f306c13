CONSTANTS
    None = None
    Malformed = Malformed
    Unsupported = Unsupported
    Threads = {h1}
    Tokens <- MCTokens
    Connections <- OddConnections
    Requests <- OddRequests
    Bodies <- OddBodies
    Backend = "vllm"
    OnUnenforceable = "bypass"
    MaxRequests = 2
    MaxTime = 0
SPECIFICATION ProxySpec
INVARIANTS
    DuplicatesAreDeclared
