CONSTANTS
    r1 = r1
    r2 = r2
    Requests <- MCRequests
    Traffic <- MCTraffic
    Configs <- MCConfigs
    Failed = Failed
    None = None
SPECIFICATION FairSpec
INVARIANTS TypeOK UnseenServersSpared  SameIdentitySameKey StoredWithinMaximum
PROPERTY RequestsAnswered
CHECK_DEADLOCK FALSE
