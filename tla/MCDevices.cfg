\* BoardNames: three boards of one model whose tokens collide.
CONSTANTS
    Key = {a, b, c}
    Ticker = {"watch", "tray"}
    Base <- SameBase
    Token <- SameToken
    MaxPlug = 4
    MaxGlitch = 1
    MaxFail = 1
\* PauseFile: two editors; the watch loop reloads.
    Pattern = {p1, p2}
    Editor = {e1, e2}
    Reloader = {"watch"}
    MaxEdits = 3
\* LineFeed
    MaxTail = 2
    MaxChunk = 3
    MaxBytes = 5
\* FactStore
    Name = {n1, n2}
    Value = {v1, v2}
    DevKeys = 1
    MaxTold = 3
SPECIFICATION DevicesSpec
INVARIANT NamesTrue
INVARIANT NothingLost
PROPERTY FactsKept
PROPERTY SuccessorInherits
PROPERTY Settles
PROPERTY InForce
CHECK_DEADLOCK FALSE
