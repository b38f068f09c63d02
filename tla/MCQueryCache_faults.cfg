CONSTANTS
    n1 = n1
    n2 = n2
    r1 = r1
    r2 = r2
    r3 = r3
    Nodes <- MCNodes
    Requests <- MCRequests
    NodeOf <- MCNodeOf
    TTL = 2
    WaitETA = 3
    Faults = TRUE
    None = None
    Failed = Failed
SPECIFICATION Spec
INVARIANTS TypeOK StoredBeforeServed BoundedStaleness
PROPERTY ReadThrough
