------------------------------ MODULE MCPanel ------------------------------
(***************************************************************************)
(* What a user sees of a running daemon, for TLC: the control socket and   *)
(* the panel's tasks, and a log that is followed.  As in MCMesh the two    *)
(* have no state in common, and a behaviour chooses one of them.  Nor has  *)
(* a command for another node anything in common with the tasks, since it  *)
(* takes no opMu: those are at rest while the commands are such.           *)
(***************************************************************************)
EXTENDS FrontEnds, LiveTail

VARIABLE part   \* the part at work

panelRunVars == <<part, frontVars, tailVars>>
AtFront == /\ part \in {"front", "away"} /\ exit # "closed"
           /\ part = "away" => UNCHANGED <<task, job>>
           /\ UNCHANGED <<part, tailVars>>
AtTail  == part = "tail"  /\ UNCHANGED <<part, frontVars>>

\* A part at rest has one initial state.
PanelInit ==
    /\ part \in {"front", "away", "tail"}
    /\ FrontInit /\ TailInit
    /\ elsewhere = (IF part = "away" THEN Client ELSE {})
    /\ part # "tail" => viewer = "local"
PanelNext == \/ AtFront /\ FrontNext
             \/ AtTail /\ TailNext

(***************************************************************************)
(* Fairness: goroutines run and time passes, for the write deadline, the   *)
(* watchdog and the redialling.  A tool of this node ends however much it  *)
(* prints, since it is killed after flash_timeout_s, hence the strong      *)
(* fairness.  Nothing is assumed of another node, nor of the call to it.   *)
(***************************************************************************)
FrontRuns ==
    /\ \A c \in Client : /\ WF_panelRunVars(AtFront /\ (Respond(c) \/ WriteTimeout(c)))
                         /\ SF_panelRunVars(AtFront /\ ClientToolEnds(c))
    /\ \A t \in Task : /\ WF_panelRunVars(AtFront /\ (Bail(t) \/ TaskStarts(t) \/ TaskEnds(t)))
                       /\ SF_panelRunVars(AtFront /\ TaskToolEnds(t))
    /\ \A v \in Viewer : WF_panelRunVars(AtFront /\ Show(v))
TailRuns ==
    /\ WF_panelRunVars(AtTail /\ (LocalLook \/ LocalRead))
    /\ WF_panelRunVars(AtTail /\ TailPoll)
    /\ WF_panelRunVars(AtTail /\ TailRecv)
    /\ WF_panelRunVars(AtTail /\ (Watchdog \/ Redial))
    /\ \A s \in Sender : WF_panelRunVars(AtTail /\ (SendLock(s) \/ SendWrite(s)))

PanelSpec == PanelInit /\ [][PanelNext]_panelRunVars /\ FrontRuns /\ TailRuns
=============================================================================
