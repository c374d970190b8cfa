--------------------------- MODULE MCProxyBridge ---------------------------
(* ProxyBridge for TLC: collectors, listeners, connections and callers are *)
(* interchangeable, which the safety run uses (not the liveness one).      *)
EXTENDS ProxyBridge, TLC

Symmetry == Permutations(Coll) \cup Permutations(Lsn)
            \cup Permutations(Conn) \cup Permutations(Caller)
=============================================================================
