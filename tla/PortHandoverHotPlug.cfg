CONSTANTS
    Coll <- Collectors
    Key = {1}
    MaxInc = 2
    Op = {o1}
    NoOp = NoOp
    Kinds = {"flash"}
    Specs = {"forever"}
    RemoveMissTicks = 2
    MayMiss = TRUE
    MayPause = FALSE
    ReopenMin = 1
    ReopenMax = 1
    SilentReopen = FALSE
    CloseMayFail = FALSE
SPECIFICATION LoopFairSpec
INVARIANT NoOrphanHold
PROPERTY RemovedCollectorEnds
