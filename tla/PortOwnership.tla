--------------------------- MODULE PortOwnership ---------------------------
(***************************************************************************)
(* What the release/flash contract promises, and nothing else: a port has  *)
(* at most one user at a time.  The collector takes a free port and gives  *)
(* it back; so does a caller of Suspend/Resume; neither takes it from the  *)
(* other (docs/en/architecture.md, "Pause / release / flash").             *)
(***************************************************************************)
CONSTANT Port
VARIABLE owner

TypeOK == owner \in [Port -> {"free", "collector", "caller"}]

Init == owner = [p \in Port |-> "free"]

Takes(p, who) == owner[p] = "free" /\ owner' = [owner EXCEPT ![p] = who]
Yields(p) == owner[p] # "free" /\ owner' = [owner EXCEPT ![p] = "free"]

Next == \E p \in Port :
            Takes(p, "collector") \/ Takes(p, "caller") \/ Yields(p)

Spec == Init /\ [][Next]_owner
=============================================================================
