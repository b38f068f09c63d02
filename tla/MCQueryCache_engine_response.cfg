CONSTANTS
    n1 = n1
    n2 = n2
    r1 = r1
    r2 = r2
    r3 = r3
    Nodes <- MCNodes
    Requests <- MCRequests
    NodeOf <- MCNodeOf
    TTL = 1
    WaitETA = 1
    Faults = FALSE
    None = None
    Failed = Failed
SPECIFICATION Spec
INVARIANT StoredIsEngineResponse
