CONSTANTS
    Peer = {p1}
    Conn = {c1, c2}
    Admin = {a1, a2}
    Loop = {l1}
    NoPeer = NoPeer
    AutoApprove = FALSE
    SaveMayFail = TRUE
    MaxStart = 1
SPECIFICATION AccessSpec
INVARIANT RevokedIsCut
INVARIANT DecisionSurvives
PROPERTY CloseEnds
CHECK_DEADLOCK FALSE
