CONSTANTS
    MaxLines = 4
    Kinds = {"plain", "recovery", "long"}
SPECIFICATION FairSpec
INVARIANTS TypeOK OutputOutlivesReplica
PROPERTIES LinesReachLog WaitReturnsServing
