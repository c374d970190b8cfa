--------------------------- MODULE SuspendResume ---------------------------
(***************************************************************************)
(* The Suspend/Resume handshake of internal/collector/suspend.go between a *)
(* collector and a caller that keeps to the contract: it uses the port     *)
(* only after Suspend returned true, and is the only one to call Resume.   *)
(* (The daemon's operations are such callers as long as its watcher leaves *)
(* them alone; PortHandover says when it does not.)                        *)
(***************************************************************************)
EXTENDS CollectorLoop

VARIABLES caller,    \* where the caller is: "idle", "polling" inside Suspend,
                     \* "owner" once it returned true, "flashing"
          reopening  \* a Reopen call is between its two halves

vars == <<collectorVars, caller, reopening>>

TypeOK ==
    /\ CollectorTypeOK
    /\ caller \in [Coll -> {"idle", "polling", "owner", "flashing"}]
    /\ reopening \in [Coll -> BOOLEAN]

Init ==
    /\ CollectorInit(Coll)
    /\ caller = [c \in Coll |-> "idle"]
    /\ reopening = [c \in Coll |-> FALSE]

Becomes(c, s) == caller' = [caller EXCEPT ![c] = s] /\ UNCHANGED reopening

\* Suspend may be called again by a caller that already has the port
\* (a second release of a released device).
CallSuspend(c) == caller[c] \in {"idle", "owner"} /\ SuspendBegin(c) /\ Becomes(c, "polling")
SuspendTrue(c) == caller[c] = "polling" /\ SuspendConfirm(c) /\ Becomes(c, "owner")
SuspendFalse(c) == caller[c] = "polling" /\ SuspendTimeout(c) /\ Becomes(c, "idle")
StartFlash(c) == caller[c] = "owner" /\ SetFlashing(c, TRUE) /\ Becomes(c, "flashing")
EndFlash(c) == caller[c] = "flashing" /\ SetFlashing(c, FALSE) /\ Becomes(c, "owner")
CallResume(c) == caller[c] = "owner" /\ Resume(c) /\ Becomes(c, "idle")

CallReopen(c) ==
    /\ ~reopening[c]
    /\ ReopenRequest(c)
    /\ reopening' = [reopening EXCEPT ![c] = TRUE]
    /\ UNCHANGED caller
FinishReopen(c) ==
    /\ reopening[c]
    /\ ReopenClose(c)
    /\ reopening' = [reopening EXCEPT ![c] = FALSE]
    /\ UNCHANGED caller

CallStop(c) == ~stop[c] /\ Stop(c) /\ UNCHANGED <<caller, reopening>>

\* The watcher reloads the PAUSED file and the match changes.
PauseChanges(c) ==
    /\ paused' = [paused EXCEPT ![c] = ~@]
    /\ UNCHANGED <<loopVars, srVars, handle, stop, reopenReq, caller, reopening>>

Loop(c) == CollectorStep(c) /\ UNCHANGED <<caller, reopening>>
Disturbance(c) == (SilentTurn(c) \/ ReadError(c)) /\ UNCHANGED <<caller, reopening>>

Calls(c) ==
    \/ CallSuspend(c) \/ SuspendTrue(c) \/ SuspendFalse(c)
    \/ StartFlash(c) \/ EndFlash(c) \/ CallResume(c)
    \/ CallReopen(c) \/ FinishReopen(c) \/ CallStop(c) \/ PauseChanges(c)

Next == \E c \in Coll : Loop(c) \/ Disturbance(c) \/ Calls(c)

Spec == Init /\ [][Next]_vars

\* The Go scheduler runs every runnable goroutine, every sleep, ticker and
\* read timeout (1 s) ends, and a read on a closed handle fails.  An open that
\* may succeed again and again is assumed to succeed in the end: OpenPort of a
\* plugged-in device that nobody holds.
Fairness == \A c \in Coll :
    /\ WF_vars(Loop(c))
    /\ SF_vars(OpenOk(c) /\ UNCHANGED <<caller, reopening>>)
    /\ WF_vars(handle[c] # "open" /\ Disturbance(c))
    /\ WF_vars(FinishReopen(c))

FairSpec == Spec /\ Fairness
-----------------------------------------------------------------------------
(* Safety.                                                                 *)

Owns(c) == caller[c] \in {"owner", "flashing"}

\* From the moment Suspend returned true to the call of Resume the collector
\* is never in its read loop: a port opened in the window Suspend cannot see
\* is given up at the second look (#72) before a byte is read from it.
OwnerSilencesCollector == \A c \in Coll : Owns(c) => pc[c] # "reading"

\* A collector is never held by nobody: a Suspend that gave up left no hold
\* behind that no Resume will ever clear (#55).
NoOrphanHold == \A c \in Coll : held[c] => caller[c] # "idle"

\* The sleep after a session that had opened the port is always the shortest
\* one, whatever failures came before it (issue #4).
FreshBackoff == \A c \in Coll :
    pc[c] = "backoff" /\ reason[c] # "openFailed" => nap[c] = ReopenMin

-----------------------------------------------------------------------------
(* The contract: the collector and the caller never use the port together. *)

Owner == [c \in Coll |-> IF Owns(c) THEN "caller"
                         ELSE IF pc[c] = "reading" THEN "collector" ELSE "free"]

Ownership == INSTANCE PortOwnership WITH Port <- Coll, owner <- Owner
OwnershipSpec == Ownership!Spec
-----------------------------------------------------------------------------
(* Liveness.                                                               *)

\* A collector nobody wants to stop, hold or pause any more collects again,
\* whatever Suspend, Resume, Reopen and read errors came before; only a port
\* that could not be closed is lost.
CollectionResumes == \A c \in Coll :
    <>[](caller[c] = "idle" /\ ~paused[c] /\ ~stop[c] /\ handle[c] # "leaked")
        => []<>(pc[c] = "reading")
=============================================================================
