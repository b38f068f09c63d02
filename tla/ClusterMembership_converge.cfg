CONSTANTS
    Nodes = {n1, n2}
    Loopback = lo
    Undiscoverable = {n2}
    ReaderWritable = TRUE
    MaxRemovals = 1
    Faults = TRUE
SPECIFICATION FairSpec
INVARIANT TypeOK
PROPERTIES PoolsConverge DeadPeerForgotten
