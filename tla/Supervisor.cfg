CONSTANTS
    StartupTimeout = 2
    ReadonlyTimeout = 3
    ShutdownTimeout = 1
    CleanUps = {"http-server"}
SPECIFICATION FairSpec
INVARIANTS TypeOK NoOrphans ExitTellsKilled
PROPERTIES ShutdownLastsForCause DeadChildStopsServer ImplementsReadiness
