CONSTANTS
    None = None
    Malformed = Malformed
    Unsupported = Unsupported
    Threads = {h1}
    Tokens <- MCTokens
    Connections <- EngineConnections
    Requests <- EngineRequests
    Bodies <- EngineBodies
    Backend = "vllm"
    OnUnenforceable = "bypass"
    MaxRequests = 3
    MaxTime = 0
SPECIFICATION ProxySpec
PROPERTIES
    EngineKeepsPromise
