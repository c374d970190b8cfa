------------------------------ MODULE MCAccess ------------------------------
(***************************************************************************)
(* Who may use a node, for TLC.  Nothing looks at the link loops and the   *)
(* sweeper but Close, which looks at no decision: a behaviour has either   *)
(* all its users and no loop, or the loops and one user, whose decisions   *)
(* let connections serve when the node is closed.                          *)
(***************************************************************************)
EXTENDS MeshAccess

VARIABLE part   \* who is at work

OneAdmin == CHOOSE a \in Admin : TRUE

AccessInit == part \in {"users", "loops"} /\ Init

\* A loop that has not started stays away; other users stay idle.
AccessNext ==
    /\ Next
    /\ part = "users" => UNCHANGED loop
    /\ part = "loops" => \A a \in Admin \ {OneAdmin} : UNCHANGED admin[a]
    /\ UNCHANGED part

AccessSpec == AccessInit /\ [][AccessNext]_<<vars, part>> /\ Fairness
=============================================================================
