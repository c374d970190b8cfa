CONSTANTS
    Coll <- Collectors
    Key = {1}
    MaxInc = 1
    Op = {o1, o2}
    NoOp = NoOp
    Kinds = {"release", "flash", "reset", "reopen", "resume"}
    Specs = {"forever"}
    RemoveMissTicks = 3
    MayMiss = FALSE
    MayPause = TRUE
    ReopenMin = 1
    ReopenMax = 1
    SilentReopen = FALSE
    CloseMayFail = FALSE
SPECIFICATION Spec
INVARIANT ToolHasPortAlone
