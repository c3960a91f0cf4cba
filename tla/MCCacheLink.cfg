SPECIFICATION FairSpec
CONSTANTS
    Commands = {c1, c2, c3}
    RequireSafe = TRUE
    MaxRestarts = 2
CHECK_DEADLOCK FALSE
INVARIANTS
    RunsAtMostOnce
    LockHolderConnects
PROPERTIES
    OnlySafeCacheRuns
    WithdrawnForCause
    CallsReturn
