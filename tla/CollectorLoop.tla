--------------------------- MODULE CollectorLoop ---------------------------
(***************************************************************************)
(* The per-device collector goroutine (internal/collector): Run, one       *)
(* session of collectOnce, and the methods other goroutines call on it     *)
(* (Suspend, Resume, Reopen, Stop).  This module holds the state and the   *)
(* steps; the modules that EXTEND it say who calls the methods:            *)
(* SuspendResume (one caller that follows the contract) and PortHandover   *)
(* (the daemon's operations and its watcher).                              *)
(*                                                                         *)
(* A step of a collector is one access to state another goroutine can see. *)
(* The two reads Held() and pause.Matches() are one step; the bytes that   *)
(* are read and what becomes of them are not modelled here.                *)
(*                                                                         *)
(* An operator whose name ends in _Bug is the operator before which it     *)
(* stands with a plausible mistake in it.  No specification uses it: it is *)
(* there to see the properties fail (README, "Mutants").                   *)
(***************************************************************************)
EXTENDS Integers

CONSTANTS Coll,          \* the collectors
          ReopenMin,     \* cfg.ReopenMinS
          ReopenMax,     \* cfg.ReopenMaxS
          SilentReopen,  \* cfg.SilentReopenS > 0
          CloseMayFail   \* port.Close may fail twice (the handle leaks)

ASSUME CollectorAssumption ==
    /\ ReopenMin \in Nat \ {0}
    /\ ReopenMax \in Nat \ {0}
    /\ SilentReopen \in BOOLEAN
    /\ CloseMayFail \in BOOLEAN

VARIABLES pc,        \* where the Run goroutine is
          reason,    \* the collectExit of the last session
          backoff,   \* Run's local backoff
          nap,       \* length of the sleep under way, 0 when awake
          held,      \* sr.held
          portOpen,  \* sr.portOpen
          state,     \* sr.state
          handle,    \* the OS handle of the port: "none", "open" or "leaked"
          stop,      \* the stop channel is closed
          reopenReq, \* reopenReq
          paused     \* pause.Matches(dev): the PAUSED list in force matches

loopVars == <<pc, reason, backoff, nap>>
srVars   == <<held, portOpen, state>>
collectorVars == <<loopVars, srVars, handle, stop, reopenReq, paused>>

PC == {"none", "top", "hold", "opening", "opened", "recheck", "reading",
       "closing", "closed", "after", "backoff", "exit"}
Reasons == {"none", "stopped", "paused", "openFailed", "readError", "silent"}

CollectorTypeOK ==
    /\ pc \in [Coll -> PC]
    /\ reason \in [Coll -> Reasons]
    /\ backoff \in [Coll -> Nat]
    /\ nap \in [Coll -> Nat]
    /\ held \in [Coll -> BOOLEAN]
    /\ portOpen \in [Coll -> BOOLEAN]
    /\ state \in [Coll -> {"collecting", "suspended", "flashing"}]
    /\ handle \in [Coll -> {"none", "open", "leaked"}]
    /\ stop \in [Coll -> BOOLEAN]
    /\ reopenReq \in [Coll -> BOOLEAN]
    /\ paused \in [Coll -> BOOLEAN]

\* A collector as NewCollector leaves it; "started" are those whose Run runs.
CollectorInit(started) ==
    /\ pc = [c \in Coll |-> IF c \in started THEN "top" ELSE "none"]
    /\ reason = [c \in Coll |-> "none"]
    /\ backoff = [c \in Coll |-> ReopenMin]
    /\ nap = [c \in Coll |-> 0]
    /\ held = [c \in Coll |-> FALSE]
    /\ portOpen = [c \in Coll |-> FALSE]
    /\ state = [c \in Coll |-> "collecting"]
    /\ handle = [c \in Coll |-> "none"]
    /\ stop = [c \in Coll |-> FALSE]
    /\ reopenReq = [c \in Coll |-> FALSE]
    /\ paused = [c \in Coll |-> FALSE]

Goto(c, l) == pc' = [pc EXCEPT ![c] = l]
Wanted(c) == held[c] \/ paused[c]     \* somebody wants the port released
-----------------------------------------------------------------------------
(* Run, outside a session.                                                 *)

\* The loop head: stop first, then a wanted release, else open the port.
LoopHead(c) ==
    /\ pc[c] = "top"
    /\ \/ stop[c] /\ Goto(c, "exit")
       \/ ~stop[c] /\ Wanted(c) /\ Goto(c, "hold")
       \/ ~stop[c] /\ ~Wanted(c) /\ Goto(c, "opening")
    /\ UNCHANGED <<reason, backoff, nap, srVars, handle, stop, reopenReq, paused>>

\* waitHeldCleared: leave on stop, or on a tick that finds nobody wanting it.
WaitHeldCleared(c) ==
    /\ pc[c] = "hold"
    /\ \/ stop[c] /\ Goto(c, "exit")
       \/ ~Wanted(c) /\ Goto(c, "top")
    /\ UNCHANGED <<reason, backoff, nap, srVars, handle, stop, reopenReq, paused>>

\* What the backoff is once a session's exit reason is known (issue #4).
BackoffAfter(c) == IF reason[c] = "openFailed" THEN backoff[c] ELSE ReopenMin
Double(b) == IF 2 * b < ReopenMax THEN 2 * b ELSE ReopenMax

\* A session that ends with the collector stopped: Run returns.
LeaveLoop(c) ==
    /\ pc[c] = "after"
    /\ stop[c]
    /\ Goto(c, "exit")
    /\ backoff' = [backoff EXCEPT ![c] = BackoffAfter(c)]
    /\ UNCHANGED <<reason, nap, srVars, handle, stop, reopenReq, paused>>

\* A released port, or a session cut by Reopen: go round at once.
GoRound(c) ==
    /\ pc[c] = "after"
    /\ ~stop[c]
    /\ \/ reason[c] = "paused"
       \/ reason[c] # "openFailed" /\ reopenReq[c]
    /\ Goto(c, "top")
    /\ backoff' = [backoff EXCEPT ![c] = BackoffAfter(c)]
    /\ reopenReq' = [reopenReq EXCEPT ![c] = FALSE]
    /\ UNCHANGED <<reason, nap, srVars, handle, stop, paused>>

\* An open that failed, or a session that was lost: sleep, then a longer one.
BackOff(c) ==
    /\ pc[c] = "after"
    /\ ~stop[c]
    /\ \/ reason[c] = "openFailed"
       \/ reason[c] # "paused" /\ ~reopenReq[c]
    /\ Goto(c, "backoff")
    /\ nap' = [nap EXCEPT ![c] = BackoffAfter(c)]
    /\ backoff' = [backoff EXCEPT ![c] = Double(BackoffAfter(c))]
    /\ reopenReq' = [reopenReq EXCEPT ![c] = FALSE]
    /\ UNCHANGED <<reason, srVars, handle, stop, paused>>

\* sleep: the timer fires, or the collector is stopped.
Sleep(c) ==
    /\ pc[c] = "backoff"
    /\ \/ stop[c] /\ Goto(c, "exit")
       \/ Goto(c, "top")
    /\ nap' = [nap EXCEPT ![c] = 0]
    /\ UNCHANGED <<reason, backoff, srVars, handle, stop, reopenReq, paused>>
-----------------------------------------------------------------------------
(* collectOnce: one session.                                               *)

EndSession(c, r, l) ==
    /\ reason' = [reason EXCEPT ![c] = r]
    /\ Goto(c, l)

\* OpenPort succeeds: the OS handle exists, nobody else has been told.
OpenOk(c) ==
    /\ pc[c] = "opening"
    /\ handle[c] = "none"
    /\ handle' = [handle EXCEPT ![c] = "open"]
    /\ Goto(c, "opened")
    /\ UNCHANGED <<reason, backoff, nap, srVars, stop, reopenReq, paused>>

\* OpenPort fails: no device, a foreign holder, or a handle leaked earlier.
OpenFail(c) ==
    /\ pc[c] = "opening"
    /\ EndSession(c, "openFailed", "after")
    /\ UNCHANGED <<backoff, nap, srVars, handle, stop, reopenReq, paused>>

\* curPort and portOpen are published.
PublishOpen(c) ==
    /\ pc[c] = "opened"
    /\ portOpen' = [portOpen EXCEPT ![c] = TRUE]
    /\ Goto(c, "recheck")
    /\ UNCHANGED <<reason, backoff, nap, held, state, handle, stop, reopenReq, paused>>

\* The mistake of issue #72: the read loop is entered without a second look.
Recheck_Bug(c) ==
    /\ pc[c] = "recheck"
    /\ Goto(c, "reading")
    /\ UNCHANGED <<reason, backoff, nap, srVars, handle, stop, reopenReq, paused>>

\* The second look at held and PAUSED, after the port is open (#72).
Recheck(c) ==
    /\ pc[c] = "recheck"
    /\ \/ Wanted(c) /\ EndSession(c, "paused", "closing")
       \/ ~Wanted(c) /\ Goto(c, "reading") /\ UNCHANGED reason
    /\ UNCHANGED <<backoff, nap, srVars, handle, stop, reopenReq, paused>>

\* A turn of the read loop that returns: stop first, then a wanted release,
\* then the silence watchdog.  A turn that goes on changes nothing here.
ReadTurn(c) ==
    /\ pc[c] = "reading"
    /\ handle[c] = "open"
    /\ \/ stop[c] /\ EndSession(c, "stopped", "closing")
       \/ ~stop[c] /\ Wanted(c) /\ EndSession(c, "paused", "closing")
    /\ UNCHANGED <<backoff, nap, srVars, handle, stop, reopenReq, paused>>

SilentTurn(c) ==
    /\ SilentReopen
    /\ pc[c] = "reading"
    /\ handle[c] = "open"
    /\ ~stop[c] /\ ~Wanted(c)
    /\ EndSession(c, "silent", "closing")
    /\ UNCHANGED <<backoff, nap, srVars, handle, stop, reopenReq, paused>>

\* Read returns an error: the device is gone, or Reopen closed the handle.
ReadError(c) ==
    /\ pc[c] = "reading"
    /\ EndSession(c, "readError", "closing")
    /\ UNCHANGED <<backoff, nap, srVars, handle, stop, reopenReq, paused>>

\* The deferred Close, tried twice; a second failure leaks the handle.
ClosePort(c) ==
    /\ pc[c] = "closing"
    /\ \/ handle' = [handle EXCEPT ![c] = "none"]
       \/ /\ CloseMayFail /\ handle[c] = "open"
          /\ handle' = [handle EXCEPT ![c] = "leaked"]
    /\ Goto(c, "closed")
    /\ UNCHANGED <<reason, backoff, nap, srVars, stop, reopenReq, paused>>

\* The last deferred call: portOpen is cleared.
PublishClosed(c) ==
    /\ pc[c] = "closed"
    /\ portOpen' = [portOpen EXCEPT ![c] = FALSE]
    /\ Goto(c, "after")
    /\ UNCHANGED <<reason, backoff, nap, held, state, handle, stop, reopenReq, paused>>

\* The steps the goroutine takes by itself, whatever the device does.
CollectorStep(c) ==
    \/ LoopHead(c) \/ WaitHeldCleared(c)
    \/ LeaveLoop(c) \/ GoRound(c) \/ BackOff(c) \/ Sleep(c)
    \/ OpenOk(c) \/ OpenFail(c) \/ PublishOpen(c) \/ Recheck(c)
    \/ ReadTurn(c) \/ ClosePort(c) \/ PublishClosed(c)
-----------------------------------------------------------------------------
(* The methods other goroutines call, as the effect of each of their steps.*)

SuspendBegin(c) ==
    /\ held' = [held EXCEPT ![c] = TRUE]
    /\ UNCHANGED <<loopVars, portOpen, state, handle, stop, reopenReq, paused>>

\* Suspend returns true without waiting for the port.
SuspendConfirm_Bug(c) ==
    /\ state' = [state EXCEPT ![c] = "suspended"]
    /\ UNCHANGED <<loopVars, held, portOpen, handle, stop, reopenReq, paused>>

\* A poll of Suspend that finds portOpen false: it returns true.
SuspendConfirm(c) ==
    /\ ~portOpen[c]
    /\ state' = [state EXCEPT ![c] = "suspended"]
    /\ UNCHANGED <<loopVars, held, portOpen, handle, stop, reopenReq, paused>>

\* The deadline passes with the port still open: held is rolled back (#55).
SuspendTimeout(c) ==
    /\ portOpen[c]
    /\ held' = [held EXCEPT ![c] = FALSE]
    /\ UNCHANGED <<loopVars, portOpen, state, handle, stop, reopenReq, paused>>

\* Resume changes the state that is shown and not the hold.
Resume_Bug(c) ==
    /\ state' = [state EXCEPT ![c] = "collecting"]
    /\ UNCHANGED <<loopVars, held, portOpen, handle, stop, reopenReq, paused>>

Resume(c) ==
    /\ held' = [held EXCEPT ![c] = FALSE]
    /\ state' = [state EXCEPT ![c] = "collecting"]
    /\ UNCHANGED <<loopVars, portOpen, handle, stop, reopenReq, paused>>

SetFlashing(c, on) ==
    /\ state' = [state EXCEPT ![c] = IF on THEN "flashing" ELSE "suspended"]
    /\ UNCHANGED <<loopVars, held, portOpen, handle, stop, reopenReq, paused>>

Stop(c) ==
    /\ stop' = [stop EXCEPT ![c] = TRUE]
    /\ UNCHANGED <<loopVars, srVars, handle, reopenReq, paused>>

\* Reopen, first half: the request is recorded.
ReopenRequest(c) ==
    /\ reopenReq' = [reopenReq EXCEPT ![c] = TRUE]
    /\ UNCHANGED <<loopVars, srVars, handle, stop, paused>>

\* Reopen, second half: curPort is closed.  Outside a session curPort is the
\* port of the last one and Close does nothing.
CurPortLive(c) == pc[c] \in {"recheck", "reading", "closing"}
ReopenClose(c) ==
    /\ handle' = [handle EXCEPT ![c] =
                    IF CurPortLive(c) /\ @ = "open" THEN "none" ELSE @]
    /\ UNCHANGED <<loopVars, srVars, stop, reopenReq, paused>>
=============================================================================
