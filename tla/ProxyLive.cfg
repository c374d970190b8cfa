CONSTANTS
    Coll = {c1}
    Lsn = {l1}
    Conn = {x1, x2}
    Caller = {k1}
    None = None
SPECIFICATION FairSpec
CHECK_DEADLOCK FALSE
PROPERTY GoneClientFreesSlot
PROPERTY DialIsAnswered
PROPERTY StopHangsUp
