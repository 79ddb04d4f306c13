CONSTANTS
    None = None
    Malformed = Malformed
    Threads = {h1}
    Requests <- CompositionRequests
    Backend = "vllm"
    OnUnenforceable = "bypass"
    MaxRequests = 1
    MaxTime = 0
SPECIFICATION Spec
INVARIANTS
    GreatestLowerBound
    NeverRelaxed
