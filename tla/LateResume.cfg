CONSTANTS
    Coll <- Collectors
    Key = {1}
    MaxInc = 1
    Op = {o1}
    NoOp = NoOp
    Kinds = {"release", "flash"}
    Specs = {"timed"}
    RemoveMissTicks = 3
    MayMiss = FALSE
    MayPause = FALSE
    ReopenMin = 1
    ReopenMax = 1
    SilentReopen = FALSE
    CloseMayFail = FALSE
SPECIFICATION Spec
INVARIANT ToolHasPortAlone
