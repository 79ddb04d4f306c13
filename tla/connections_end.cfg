CONSTANTS
    None = None
    Malformed = Malformed
    Unsupported = Unsupported
    Threads = {h1, h2}
    Tokens <- MCTokens
    Connections <- EndingConnections
    Requests <- EndingRequests
    Bodies <- EndingBodies
    Backend = "in-memory"
    OnUnenforceable = "bypass"
    MaxRequests = 3
    MaxTime = 1
SPECIFICATION FairUpstreamSpec
PROPERTIES
    EveryConnectionEnds
    ConnectionsCountDown
