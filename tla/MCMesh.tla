------------------------------- MODULE MCMesh -------------------------------
(***************************************************************************)
(* The parts of the mesh beside the pairing, for TLC: the links, the       *)
(* tunnels, the shared files and the calls.  They have no state in common, *)
(* so that a behaviour chooses one of them at the start and leaves the     *)
(* others at rest; their product would only interleave them.               *)
(***************************************************************************)
EXTENDS MeshLinks, MeshTunnels, MeshShare, MeshCall

\* One peer at any of the addresses; every pattern matches the one device.
AllHomes == [i \in Id |-> Addr]
OneDevice == [p \in Pattern |-> CHOOSE d \in Device : TRUE]

VARIABLE part   \* the part at work

meshVars == <<part, linksVars, tunnelVars, shareVars, callVars>>
AtLinks   == part = "links"   /\ UNCHANGED <<part, tunnelVars, shareVars, callVars>>
AtTunnels == part = "tunnels" /\ UNCHANGED <<part, linksVars, shareVars, callVars>>
AtShare   == part = "share"   /\ UNCHANGED <<part, linksVars, tunnelVars, callVars>>
AtCalls   == part = "calls"   /\ UNCHANGED <<part, linksVars, tunnelVars, shareVars>>

\* A part at rest has one initial state.
MeshInit ==
    /\ part \in {"links", "tunnels", "share", "calls"}
    /\ LinksInit /\ TunnelInit /\ ShareInit /\ CallInit
    /\ part # "tunnels" => \A t \in Tunnel :
            tun[t].pattern = CHOOSE p \in Pattern : TRUE
    /\ part # "share" => ~ro /\ \A c \in Client :
            job[c].kind = "dump" /\ \A x \in File : job[c].size[x] = MaxChunk

MeshNext == \/ AtLinks /\ LinksNext
            \/ AtTunnels /\ TunnelNext
            \/ AtShare /\ ShareNext
            \/ AtCalls /\ CallNext

(***************************************************************************)
(* Fairness: goroutines run.  Beacons arrive again and again, but not      *)
(* while the listener is at work on one, hence the strong fairness.        *)
(***************************************************************************)
LinksRun == /\ \A l \in Loop : WF_meshVars(AtLinks /\ LoopStep(l))
            /\ WF_meshVars(AtLinks /\ BeaconLink)
            /\ \A i \in Id : SF_meshVars(AtLinks /\ BeaconIn(i))
TunnelsRun == \A t \in Tunnel : /\ WF_meshVars(AtTunnels /\ DialStep(t))
                                /\ WF_meshVars(AtTunnels /\ ServeStep(t))

\* A peer may never answer.
CallsRun == \A p \in Asked : /\ WF_meshVars(AtCalls /\ CallStep(p))
                             /\ WF_meshVars(AtCalls /\ (Report(p) \/ TimeOut(p)))

MeshSpec == MeshInit /\ [][MeshNext]_meshVars /\ LinksRun /\ TunnelsRun /\ CallsRun
=============================================================================
