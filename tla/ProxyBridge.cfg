CONSTANTS
    Coll = {c1, c2}
    Lsn = {l1, l2}
    Conn = {x1, x2}
    Caller = {k1}
    None = None
SPECIFICATION Spec
SYMMETRY Symmetry
CHECK_DEADLOCK FALSE
INVARIANT OneClient
INVARIANT OneListener
