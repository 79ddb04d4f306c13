CONSTANTS
    None = None
    Malformed = Malformed
    Unsupported = Unsupported
    Threads = {h1}
    Tokens <- MCTokens
    Connections <- ServedConnections
    Requests <- ServedRequests
    Bodies <- ServedBodies
    Backend = "vllm"
    OnUnenforceable = "bypass"
    MaxRequests = 2
    MaxTime = 0
SPECIFICATION ProxySpec
INVARIANTS
    ProxyTypeOK
    AdvertisedIsServed
    CodeTellsDefect
    BypassIsFresh
    ReuseWithinRequestNamespaces
    GovernedKeptApart
    StatusBoundaryIsActual
