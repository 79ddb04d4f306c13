CONSTANTS
    None = None
    Malformed = Malformed
    Threads = {runner}
    Script <- MCScript
    Requests <- MCRequests
    Backend = "in-memory"
    OnUnenforceable = "bypass"
    MaxRequests = 200
    MaxTime = 1000
SPECIFICATION SuiteSpec
INVARIANTS
    SuitePasses
    EveryMemberEarnsItsPlace
