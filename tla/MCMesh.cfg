\* MeshLinks: one peer, two addresses, one of them a seed.
CONSTANTS
    Id = {i1}
    Addr = {x1, x2}
    Home <- AllHomes
    Static = {x1}
    None = None
    MaxLoop = 2
    MaxMoves = 3
    MaxExpiry = 1
\* MeshTunnels
    Tunnel = {t1, t2}
    Pattern = {p1, p2}
    Device = {d1}
    DeviceOf <- OneDevice
    NoTunnel = NoTunnel
\* MeshShare
    Client = {k1}
    Files = 2
    MaxChunk = 2
    SidCap = 3
    MaxRestart = 1
\* MeshCall
    Asked = {q1, q2}
SPECIFICATION MeshSpec
INVARIANT NotForgotten
INVARIANT EndpointGivenBack
INVARIANT FlashesWhole
INVARIANT ServedAlone
INVARIANT AnswerTrue
PROPERTY LinkedAgain
PROPERTY HangUpEnds
PROPERTY AsksEnd
CHECK_DEADLOCK FALSE
