CONSTANTS
    Calls = {e1, e2, e3}
    Weight = 50
    MaxRetries = 3
    HasReplica = TRUE
    None = None
SPECIFICATION FairSpec
INVARIANTS TypeOK SessionPerCall NeverSilentNone ReplicaSeenHealthy
PROPERTY CallsEnd
