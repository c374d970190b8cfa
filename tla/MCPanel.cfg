\* FrontEnds: a flash command that tries twice, two tasks after one another, a stream.
CONSTANTS
    Client = {c1}
    Attempts = 2
    Task = {t1, t2}
    Viewer = {v1}
    Free = Free
    SockCap = 1
    ChanCap = 1
    HistCap = 1
\* LiveTail
    MaxDay = 1
    MaxSfx = 1
    MaxLines = 3
    MaxWire = 2
    MaxPong = 1
    MaxBreak = 2
SPECIFICATION PanelSpec
INVARIANT CutOff
PROPERTY NotTwice
PROPERTY Released
PROPERTY StreamEnds
PROPERTY Follows
CHECK_DEADLOCK FALSE
