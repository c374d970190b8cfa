------------------------- MODULE PortHandoverProofs -------------------------
(***************************************************************************)
(* Proofs about the daemon's handing over of ports, for any devices, any   *)
(* number of requests and of collectors per device.                        *)
(***************************************************************************)
EXTENDS PortHandover, CollectorLoopProofs, TLAPS

USE CollectorAssumption, HandoverAssumption

\* The key that stands for "no device in hand" is a key.
LEMMA FirstKeyIsKey == FirstKey \in Key
  BY DEF FirstKey
-----------------------------------------------------------------------------
(* Types.                                                                  *)

DaemonTypeOK ==
    /\ collectors \in [Key -> 0 .. MaxInc]
    /\ created \in [Key -> 0 .. MaxInc]
    /\ misses \in [Key -> 0 .. RemoveMissTicks - 1]
    /\ releases \in [Key -> {"none", "forever", "timed", "idle", "quiet"}]

RequestTypeOK ==
    /\ opMu \in Op \cup {NoOp}
    /\ at \in [Op -> OpSteps]
    /\ kind \in [Op -> AllKinds]
    /\ snap \in [Op -> [Key -> 0 .. MaxInc]]
    /\ todo \in [Op -> SUBSET Key]
    /\ cur \in [Op -> Key]
    /\ spec \in [Op -> AllSpecs]

WatchTypeOK ==
    /\ watch \in {"idle", "diff", "pause", "scan", "drop", "resume"}
    /\ seen \in SUBSET Key
    /\ done \in SUBSET Key

\* The type invariant in its four parts, before and after a step.
LEMMA TypeParts ==
  /\ TypeOK <=> CollectorTypeOK /\ DaemonTypeOK /\ RequestTypeOK /\ WatchTypeOK
  /\ TypeOK' <=> CollectorTypeOK' /\ DaemonTypeOK' /\ RequestTypeOK' /\ WatchTypeOK'
  BY DEF TypeOK, DaemonTypeOK, RequestTypeOK, WatchTypeOK

\* Requests call methods of collectors or leave them alone; only the watcher
\* creates collectors, and only it and the collectors themselves move pc.
LEMMA RequestCollectors ==
  ASSUME CollectorTypeOK, NEW o \in Op, Begin(o) \/ Request(o)
  PROVE  CollectorTypeOK' /\ UNCHANGED <<pc, portOpen, stop, paused>>
<1>1. CASE UNCHANGED collectorVars
  BY <1>1 DEF collectorVars, loopVars, srVars, CollectorTypeOK
<1>2. ASSUME NEW c,
             \/ SuspendBegin(c) \/ SuspendConfirm(c) \/ SuspendTimeout(c) \/ Resume(c)
             \/ SetFlashing(c, TRUE) \/ SetFlashing(c, FALSE)
             \/ ReopenRequest(c) \/ ReopenClose(c)
      PROVE  CollectorTypeOK' /\ UNCHANGED <<pc, portOpen, stop, paused>>
  BY <1>2, MethodTypes
<1>3. CASE Begin(o) \/ TryLock(o) \/ Refused(o) \/ Revoke(o) \/ SnapReleases(o)
  BY <1>1, <1>3 DEF Begin, TryLock, Refused, Revoke, SnapReleases
<1>4. CASE NextDevice(o) \/ Finish(o) \/ GiveUp(o) \/ Record(o) \/ DropRelease(o)
  BY <1>1, <1>4 DEF NextDevice, Finish, GiveUp, Record, DropRelease
<1>5. CASE CallSuspend(o) \/ SuspendTrue(o) \/ SuspendFalse(o)
  BY <1>2, <1>5 DEF CallSuspend, SuspendTrue, SuspendFalse
<1>6. CASE StartTool(o) \/ EndTool(o)
  BY <1>1, <1>2, <1>6 DEF StartTool, EndTool
<1>7. CASE GiveBack(o) \/ GiveBackAndFail(o) \/ ReopenDevice(o)
  BY <1>2, <1>7 DEF GiveBack, GiveBackAndFail, ReopenDevice
<1>8. CASE ResumeDevice(o)
  BY <1>1, <1>2, <1>8 DEF ResumeDevice
<1>9. QED
  BY <1>3, <1>4, <1>5, <1>6, <1>7, <1>8 DEF Request

\* A request keeps the types of the requests' variables.
LEMMA RequestTypes ==
  ASSUME RequestTypeOK, DaemonTypeOK, NEW o \in Op, Begin(o) \/ Request(o)
  PROVE  RequestTypeOK'
<1> USE FirstKeyIsKey DEF RequestTypeOK, DaemonTypeOK, OpSteps, AllKinds, AllSpecs,
        Step, Unlock, KeepLocals
<1>1. CASE Begin(o)
  BY <1>1 DEF Begin
<1>2. CASE TryLock(o)
  BY <1>2 DEF TryLock
<1>3. Forget(o) => /\ kind' \in [Op -> AllKinds]
                   /\ snap' \in [Op -> [Key -> 0 .. MaxInc]]
                   /\ todo' \in [Op -> SUBSET Key]
                   /\ cur' \in [Op -> Key]
                   /\ spec' \in [Op -> AllSpecs]
  <2>1. NoSnap \in [Key -> 0 .. MaxInc]
    BY DEF NoSnap
  <2>2. QED
    BY <2>1 DEF Forget
<1>4. CASE Refused(o) \/ Finish(o) \/ GiveUp(o) \/ GiveBackAndFail(o)
  BY <1>3, <1>4 DEF Refused, Finish, GiveUp, GiveBackAndFail
<1>5. CASE Revoke(o) \/ SnapReleases(o)
  BY <1>5, SMTT(30) DEF Revoke, SnapReleases
<1>6. CASE NextDevice(o)
  BY <1>6 DEF NextDevice
<1>7. CASE CallSuspend(o) \/ SuspendTrue(o) \/ Record(o)
  BY <1>7 DEF CallSuspend, SuspendTrue, Record
<1>8. CASE SuspendFalse(o)
  <2>1. CASE Forget(o) /\ Unlock(o)
    BY <1>3, <2>1
  <2>2. CASE Step(o, "next") /\ KeepLocals /\ UNCHANGED opMu
    BY <2>2
  <2>3. QED
    BY <1>8, <2>1, <2>2, Zenon DEF SuspendFalse
<1>9. CASE StartTool(o) \/ EndTool(o) \/ GiveBack(o)
  BY <1>9 DEF StartTool, EndTool, GiveBack
<1>10. CASE ReopenDevice(o) \/ ResumeDevice(o) \/ DropRelease(o)
  <2>1. CASE ReopenDevice(o)
    BY <2>1 DEF ReopenDevice
  <2>2. CASE ResumeDevice(o)
    <3>1. at' = [at EXCEPT ![o] = "resume2"] /\ UNCHANGED <<opMu, kind, snap, todo, cur, spec>>
      BY <2>2 DEF ResumeDevice
    <3>2. QED
      BY <3>1
  <2>3. CASE DropRelease(o)
    BY <2>3 DEF DropRelease
  <2>4. QED
    BY <1>10, <2>1, <2>2, <2>3
<1> HIDE DEF RequestTypeOK, DaemonTypeOK
<1>11. QED
  BY <1>1, <1>2, <1>4, <1>5, <1>6, <1>7, <1>8, <1>9, <1>10 DEF Request

\* A request writes nothing of the daemon's but releases, and nothing of the
\* watcher's.
LEMMA RequestKeeps ==
  ASSUME NEW o \in Op, Begin(o) \/ Request(o)
  PROVE  UNCHANGED <<plugVars, watchVars>>
BY DEF Begin, Request, TryLock, Refused, Revoke, SnapReleases, NextDevice, Finish,
   GiveUp, CallSuspend, SuspendTrue, SuspendFalse, Record, StartTool, EndTool,
   GiveBack, GiveBackAndFail, ReopenDevice, ResumeDevice, DropRelease, KeepDaemon

\* Releases keep their type under a request.
LEMMA RequestReleases ==
  ASSUME RequestTypeOK, DaemonTypeOK, NEW o \in Op, Begin(o) \/ Request(o)
  PROVE  DaemonTypeOK'
<1>1. UNCHANGED plugVars
  BY RequestKeeps
<1>2. releases' \in [Key -> {"none", "forever", "timed", "idle", "quiet"}]
  <2>1. CASE Revoke(o) \/ NextDevice(o) \/ Record(o) \/ DropRelease(o)
    BY <2>1 DEF RequestTypeOK, DaemonTypeOK, AllSpecs, Revoke, NextDevice, Record,
       DropRelease
  <2>2. CASE UNCHANGED releases
    BY <2>2 DEF DaemonTypeOK
  <2>3. QED
    BY <2>1, <2>2 DEF Begin, Request, TryLock, Refused, SnapReleases, Finish, GiveUp,
       CallSuspend, SuspendTrue, SuspendFalse, StartTool, EndTool, GiveBack,
       GiveBackAndFail, ReopenDevice, ResumeDevice, KeepDaemon
<1>3. QED
  BY <1>1, <1>2 DEF DaemonTypeOK, plugVars

\* The watcher keeps the types.
LEMMA TickTypes ==
  ASSUME TypeOK, Tick
  PROVE  TypeOK'
<1> USE TypeParts
<1>1. UNCHANGED opVars => RequestTypeOK'
  BY DEF RequestTypeOK, opVars
<1>2. UNCHANGED collectorVars => CollectorTypeOK'
  BY DEF collectorVars, loopVars, srVars, CollectorTypeOK
<1>3. CASE Enumerate
  BY <1>1, <1>2, <1>3 DEF Enumerate, WatchTypeOK, DaemonTypeOK, plugVars, KeepRequests
<1>4. CASE Diff
  <2>1. CollectorTypeOK'
    BY <1>4 DEF Diff, CollectorTypeOK, PC, srVars
  <2>2. PICK N \in SUBSET Fresh :
          /\ created' = [k \in Key |-> IF k \in N THEN created[k] + 1 ELSE created[k]]
          /\ collectors' = [k \in Key |-> IF k \in N THEN created[k] + 1
                                         ELSE IF k \in Gone THEN 0 ELSE collectors[k]]
    BY <1>4 DEF Diff
  <2>3. \A k \in N : created[k] + 1 \in 0 .. MaxInc
    <3>1. DaemonTypeOK /\ WatchTypeOK
      OBVIOUS
    <3>2. QED
      BY <2>2, <3>1 DEF Fresh, DaemonTypeOK, WatchTypeOK
  <2>4. collectors' \in [Key -> 0 .. MaxInc] /\ created' \in [Key -> 0 .. MaxInc]
    BY <2>2, <2>3 DEF DaemonTypeOK
  <2>5. misses' \in [Key -> 0 .. RemoveMissTicks - 1]
    BY <1>4 DEF Diff, Gone, DaemonTypeOK
  <2>6. QED
    BY <1>1, <1>4, <2>1, <2>4, <2>5 DEF Diff, DaemonTypeOK, WatchTypeOK, KeepRequests
<1>5. CASE ReloadPause
  <2>1. paused' \in [Coll -> BOOLEAN]
    BY <1>5 DEF ReloadPause
  <2>2. CollectorTypeOK'
    BY <1>5, <2>1 DEF ReloadPause, CollectorTypeOK, loopVars, srVars
  <2>3. QED
    BY <1>1, <1>5, <2>2 DEF ReloadPause, DaemonTypeOK, WatchTypeOK, plugVars, KeepRequests
<1>6. CASE ScanReleases
  BY <1>1, <1>2, <1>6 DEF ScanReleases, DaemonTypeOK, WatchTypeOK, plugVars, KeepRequests
<1>7. CASE DropOver
  BY <1>1, <1>2, <1>7 DEF DropOver, DaemonTypeOK, WatchTypeOK, plugVars, KeepRequests
<1>8. CASE ResumeOver
  <2>1. CollectorTypeOK'
    BY <1>2, <1>8, MethodTypes DEF ResumeOver
  <2>2. QED
    BY <1>1, <1>8, <2>1 DEF ResumeOver, DaemonTypeOK, WatchTypeOK, plugVars, KeepRequests
<1>9. CASE EndTick
  BY <1>1, <1>2, <1>9 DEF EndTick, DaemonTypeOK, WatchTypeOK, plugVars, KeepRequests
<1>10. QED
  BY <1>3, <1>4, <1>5, <1>6, <1>7, <1>8, <1>9 DEF Tick

\* The variables have their types at the start, and every step keeps them.
LEMMA InitTypes == Init => TypeOK
  BY FirstKeyIsKey DEF Init, CollectorInit, TypeOK, CollectorTypeOK, PC, Reasons,
     OpSteps, AllKinds, AllSpecs, NoSnap

\* Every step of every actor keeps the types.
LEMMA NextTypes == TypeOK /\ [Next]_vars => TypeOK'
<1> SUFFICES ASSUME TypeOK, [Next]_vars
             PROVE  TypeOK'
  OBVIOUS
<1> USE TypeParts
<1>1. ASSUME NEW o \in Op, Begin(o) \/ Request(o)
      PROVE  TypeOK'
  <2>1. CollectorTypeOK' /\ RequestTypeOK' /\ DaemonTypeOK'
    BY <1>1, RequestCollectors, RequestTypes, RequestReleases
  <2>2. WatchTypeOK'
    BY <1>1, RequestKeeps DEF WatchTypeOK, watchVars
  <2>3. QED
    BY <2>1, <2>2
<1>2. CASE Tick
  BY <1>2, TickTypes
<1>3. ASSUME NEW c \in Coll, Loop(c) \/ Disturbance(c)
      PROVE  TypeOK'
  <2>1. CollectorTypeOK'
    BY <1>3, StepTypes DEF Loop, Disturbance
  <2>2. UNCHANGED <<plugVars, releases, opVars, watchVars>>
    BY <1>3 DEF Loop, Disturbance, KeepAllButCollectors, KeepDaemon, KeepRequests
  <2>3. QED
    BY <2>1, <2>2 DEF RequestTypeOK, DaemonTypeOK, WatchTypeOK, plugVars, opVars, watchVars
<1>4. CASE UNCHANGED vars
  BY <1>4 DEF vars, collectorVars, loopVars, srVars, plugVars, opVars, watchVars,
     CollectorTypeOK, RequestTypeOK, DaemonTypeOK, WatchTypeOK
<1>5. QED
  BY <1>1, <1>2, <1>3, <1>4 DEF Next

\* The variables keep their types.
THEOREM TypeCorrect == Spec => []TypeOK
<1>1. QED
  BY InitTypes, NextTypes, PTL DEF Spec
-----------------------------------------------------------------------------
(* One request at a time.                                                  *)

\* A step of a request leaves the other requests' locals alone, and opMu is
\* its own before and after, unless it is taken from nobody or given back.
LEMMA RequestFrame ==
  ASSUME RequestTypeOK, NEW o \in Op, Begin(o) \/ Request(o)
  PROVE  /\ \A p \in Op \ {o} : /\ at'[p] = at[p] /\ kind'[p] = kind[p]
                                 /\ snap'[p] = snap[p] /\ todo'[p] = todo[p]
                                 /\ cur'[p] = cur[p] /\ spec'[p] = spec[p]
         /\ \/ at[o] \in {"idle", "lock"} /\ at'[o] \in {"idle", "lock"} /\ opMu' = opMu
            \/ at[o] = "lock" /\ opMu = NoOp /\ opMu' = o
            \/ at[o] \notin {"idle", "lock"} /\ opMu' = opMu
            \/ at[o] \notin {"idle", "lock"} /\ at'[o] = "idle" /\ opMu' = NoOp
<1> USE DEF RequestTypeOK, Step, KeepLocals, Unlock, Forget
<1>1. CASE Begin(o) \/ TryLock(o) \/ Refused(o)
  BY <1>1 DEF Begin, TryLock, Refused
<1>2. CASE Revoke(o) \/ SnapReleases(o) \/ NextDevice(o)
  BY <1>2 DEF Revoke, SnapReleases, NextDevice
<1>3. CASE Finish(o) \/ GiveUp(o) \/ GiveBackAndFail(o)
  BY <1>3 DEF Finish, GiveUp, GiveBackAndFail
<1>4. CASE CallSuspend(o) \/ SuspendTrue(o) \/ Record(o)
  BY <1>4 DEF CallSuspend, SuspendTrue, Record
<1>5. CASE SuspendFalse(o)
  BY <1>5 DEF SuspendFalse
<1>6. CASE StartTool(o) \/ EndTool(o) \/ GiveBack(o)
  BY <1>6 DEF StartTool, EndTool, GiveBack
<1>7. CASE ReopenDevice(o) \/ DropRelease(o)
  BY <1>7 DEF ReopenDevice, DropRelease
<1>8. CASE ResumeDevice(o)
  <2>1. /\ at[o] = "resume1" /\ at' = [at EXCEPT ![o] = "resume2"]
        /\ UNCHANGED <<opMu, kind, snap, todo, cur, spec>>
    BY <1>8 DEF ResumeDevice
  <2>2. QED
    BY <2>1
<1> HIDE DEF RequestTypeOK, Step, KeepLocals, Unlock, Forget
<1>9. QED
  BY <1>1, <1>2, <1>3, <1>4, <1>5, <1>6, <1>7, <1>8 DEF Request

\* The watcher and the collectors leave the requests alone.
LEMMA OthersKeepRequests ==
  ASSUME Tick \/ (\E c \in Coll : Loop(c) \/ Disturbance(c)) \/ UNCHANGED vars
  PROVE  UNCHANGED opVars
BY DEF Tick, Enumerate, Diff, ReloadPause, ScanReleases, DropOver, ResumeOver, EndTick,
   Loop, Disturbance, KeepAllButCollectors, KeepRequests, vars

\* Every step keeps opMu with the one request at work.
LEMMA StepOneRequest == TypeOK /\ OneRequestAtWork /\ [Next]_vars => OneRequestAtWork'
<1> SUFFICES ASSUME TypeOK, OneRequestAtWork, [Next]_vars
             PROVE  OneRequestAtWork'
  OBVIOUS
<1>1. ASSUME NEW o \in Op, Begin(o) \/ Request(o)
      PROVE  OneRequestAtWork'
  <2>1. RequestTypeOK
    BY TypeParts
  <2>2. QED
    BY <1>1, <2>1, RequestFrame DEF OneRequestAtWork, Working
<1>2. CASE UNCHANGED opVars
  BY <1>2 DEF OneRequestAtWork, Working, opVars
<1>3. QED
  BY <1>1, <1>2, OthersKeepRequests DEF Next

\* No two of Flash, Board, Release, Reset, Reopen and ResumeAll are ever at
\* work together.
THEOREM OneAtATime == Spec => []OneRequestAtWork
<1>1. Init => OneRequestAtWork
  BY DEF Init, OneRequestAtWork, Working
<1>2. QED
  BY <1>1, StepOneRequest, TypeCorrect, PTL DEF Spec
-----------------------------------------------------------------------------
(* The port belongs to the tool alone, as long as no device is missed by a *)
(* scan and every release is one without an end.  (With timed releases, or *)
(* a device missed while it is flashed, it does not: for the releases the  *)
(* LateResume run shows it.)                                               *)

\* Nobody can ask for a release that ends by itself.
NoReleaseEnds == "release" \notin Kinds \/ Specs \subseteq {"forever"}

\* The watcher finds every device, and no release it would end.
StillPlugged ==
    /\ \A k \in Key : collectors[k] = 1 /\ releases[k] \in {"none", "forever"}
    /\ done = {} /\ watch # "resume"
    /\ watch = "diff" => seen = Key

\* Each device has its first collector and no other.
FirstCollectorOnly == \A c \in Coll : c[2] # 1 => pc[c] = "none"

\* Requests work on those collectors.
HeldSteps == {"poll", "record", "arm", "tool", "giveBack", "fail"}
TargetSteps == HeldSteps \cup {"suspend", "reopen1", "reopen2"}
OnTarget(o) ==
    /\ spec[o] = "forever"
    /\ at[o] = "snap" => kind[o] = "resume"
    /\ kind[o] # "resume" => \A k \in todo[o] : snap[o][k] = 1
    /\ at[o] \in TargetSteps => snap[o][cur[o]] = 1

\* From the call of Suspend to that of Resume the collector is held, and from
\* Suspend's true on it is not in its read loop.
First(o) == <<cur[o], 1>>
Holds(o) ==
    /\ at[o] \in HeldSteps => held[First(o)]
    /\ at[o] \in HeldSteps \ {"poll"} => pc[First(o)] # "reading"

\* The inductive invariant.
HandoverInv ==
    /\ TypeOK
    /\ OneRequestAtWork
    /\ PublishedInSession
    /\ StillPlugged
    /\ FirstCollectorOnly
    /\ \A o \in Op : OnTarget(o) /\ Holds(o)

\* It holds to begin with.
LEMMA InitHandover == Init => HandoverInv
<1> SUFFICES ASSUME Init
             PROVE  HandoverInv
  OBVIOUS
<1>1. TypeOK /\ OneRequestAtWork
  BY InitTypes DEF Init, OneRequestAtWork, Working
<1>2. PublishedInSession /\ FirstCollectorOnly
  BY DEF Init, CollectorInit, PublishedInSession, InSession, FirstCollectorOnly
<1>3. StillPlugged /\ \A o \in Op : OnTarget(o) /\ Holds(o)
  BY DEF Init, StillPlugged, OnTarget, Holds, HeldSteps, TargetSteps
<1>4. QED
  BY <1>1, <1>2, <1>3 DEF HandoverInv

\* A request keeps to the first collectors, and records no release that ends.
LEMMA RequestOnTarget ==
  ASSUME NoReleaseEnds, TypeOK, StillPlugged,
         NEW o \in Op, \A p \in Op : OnTarget(p), Begin(o) \/ Request(o)
  PROVE  StillPlugged' /\ \A p \in Op : OnTarget(p)'
<1> USE DEF StillPlugged, OnTarget, HeldSteps, TargetSteps, Step, KeepLocals,
        KeepDaemon, Unlock, plugVars, watchVars
<1>1. RequestTypeOK /\ DaemonTypeOK
  BY TypeParts
<1> USE DEF RequestTypeOK, DaemonTypeOK
<1>2. Forget(o) => /\ spec'[o] = "forever" /\ todo'[o] = {}
                   /\ \A p \in Op \ {o} : /\ spec'[p] = spec[p] /\ todo'[p] = todo[p]
                                          /\ kind'[p] = kind[p] /\ snap'[p] = snap[p]
                                          /\ cur'[p] = cur[p]
  BY <1>1 DEF Forget
<1>3. CASE Begin(o)
  BY <1>1, <1>3 DEF Begin, NoReleaseEnds
<1>4. CASE TryLock(o)
  BY <1>1, <1>4 DEF TryLock
<1>5. ASSUME UNCHANGED <<plugVars, releases, watchVars>>, at'[o] = "idle", Forget(o)
      PROVE  StillPlugged' /\ \A p \in Op : OnTarget(p)'
  <2>1. StillPlugged'
    BY <1>5
  <2>2. OnTarget(o)'
    BY <1>2, <1>5
  <2>3. ASSUME NEW p \in Op \ {o}
        PROVE  OnTarget(p)'
    <3>1. at'[p] = at[p]
      BY <1>1, RequestFrame
    <3>2. QED
      BY <1>2, <1>5, <3>1
  <2>4. QED
    BY <2>1, <2>2, <2>3
<1>6. ASSUME UNCHANGED <<plugVars, watchVars, kind, snap, todo, cur, spec>>,
             \A k \in Key : releases'[k] \in {"none", "forever"},
             at'[o] # "snap", at'[o] \in TargetSteps => at[o] \in TargetSteps
      PROVE  StillPlugged' /\ \A p \in Op : OnTarget(p)'
  BY <1>1, <1>6, RequestFrame
<1>7. CASE Refused(o) \/ Finish(o) \/ GiveUp(o) \/ GiveBackAndFail(o)
  BY <1>1, <1>5, <1>7 DEF Refused, Finish, GiveUp, GiveBackAndFail
<1>8. CASE Revoke(o)
  BY <1>1, <1>8 DEF Revoke
<1>9. CASE SnapReleases(o)
  BY <1>1, <1>9 DEF SnapReleases
<1>10. CASE NextDevice(o)
  BY <1>1, <1>10 DEF NextDevice
<1>11. CASE CallSuspend(o) \/ SuspendTrue(o) \/ StartTool(o) \/ EndTool(o) \/ GiveBack(o)
  BY <1>1, <1>6, <1>11, ZenonT(60) DEF CallSuspend, SuspendTrue, StartTool, EndTool, GiveBack
<1>12. CASE SuspendFalse(o)
  BY <1>1, <1>5, <1>6, <1>12 DEF SuspendFalse
<1>13. CASE Record(o)
  BY <1>1, <1>6, <1>13 DEF Record
<1>14. CASE DropRelease(o)
  BY <1>1, <1>6, <1>14 DEF DropRelease
<1>15. CASE ReopenDevice(o)
  BY <1>1, <1>6, <1>15 DEF ReopenDevice
<1>16. CASE ResumeDevice(o)
  <2>1. /\ at[o] = "resume1" /\ at' = [at EXCEPT ![o] = "resume2"]
        /\ UNCHANGED <<kind, snap, todo, cur, spec, plugVars, releases, watchVars>>
    BY <1>16 DEF ResumeDevice
  <2>2. QED
    BY <1>1, <1>6, <2>1
<1> HIDE DEF StillPlugged, OnTarget, HeldSteps, TargetSteps, Step, KeepLocals,
        KeepDaemon, Unlock, RequestTypeOK, DaemonTypeOK
<1>17. QED
  BY <1>3, <1>4, <1>7, <1>8, <1>9, <1>10, <1>11, <1>12, <1>13, <1>14, <1>15, <1>16
     DEF Request

\* What a request still has in hand stays held and out of the read loop.
LEMMA RequestHolds ==
  ASSUME HandoverInv, NEW o \in Op, Begin(o) \/ Request(o), NEW p \in Op
  PROVE  Holds(p)'
<1>1. RequestTypeOK /\ CollectorTypeOK
  BY TypeParts DEF HandoverInv
<1>2. UNCHANGED pc
  BY <1>1, RequestCollectors
<1>3. /\ p # o => at'[p] = at[p] /\ cur'[p] = cur[p]
      /\ p # o /\ at[o] \notin {"idle", "lock"} => at[p] \notin HeldSteps
  BY <1>1, RequestFrame DEF HandoverInv, OneRequestAtWork, Working, HeldSteps
<1>4. First(o) \in Coll /\ (at[o] \in TargetSteps => Target(o) = First(o))
  BY <1>1 DEF First, Target, HandoverInv, OnTarget, RequestTypeOK
<1> USE DEF RequestTypeOK, Step, KeepLocals, Unlock
<1>5. CASE at'[o] \notin HeldSteps /\ at[o] \notin {"idle", "lock"}
  BY <1>3, <1>5 DEF Holds
<1>6. CASE at'[o] \notin HeldSteps /\ UNCHANGED held
  BY <1>2, <1>3, <1>6 DEF Holds, First, HandoverInv
<1>7. CASE Begin(o) \/ TryLock(o) \/ Refused(o)
  BY <1>1, <1>6, <1>7 DEF Begin, TryLock, Refused, collectorVars, srVars, HeldSteps
<1>8. CASE Revoke(o) \/ SnapReleases(o) \/ NextDevice(o) \/ Finish(o) \/ GiveUp(o)
  BY <1>1, <1>5, <1>8 DEF Revoke, SnapReleases, NextDevice, Finish, GiveUp, HeldSteps
<1>9. CASE Record(o) \/ GiveBack(o) \/ GiveBackAndFail(o) \/ DropRelease(o)
  BY <1>1, <1>5, <1>9 DEF Record, GiveBack, GiveBackAndFail, DropRelease, HeldSteps
<1>10. CASE SuspendFalse(o) \/ ReopenDevice(o)
  BY <1>1, <1>5, <1>10 DEF SuspendFalse, ReopenDevice, HeldSteps
<1>11. CASE ResumeDevice(o)
  <2>1. at[o] = "resume1" /\ at' = [at EXCEPT ![o] = "resume2"]
    BY <1>11 DEF ResumeDevice
  <2>2. QED
    BY <1>1, <1>5, <2>1 DEF HeldSteps
<1>12. CASE CallSuspend(o)
  <2>1. /\ at[o] = "suspend" /\ at'[o] = "poll" /\ cur' = cur
        /\ held' = [held EXCEPT ![Target(o)] = TRUE]
    BY <1>1, <1>12 DEF CallSuspend, SuspendBegin
  <2>2. held'[First(o)]
    BY <1>1, <1>4, <2>1 DEF TargetSteps, CollectorTypeOK
  <2>3. QED
    BY <1>3, <2>1, <2>2 DEF Holds, First
<1>13. CASE SuspendTrue(o)
  <2>1. /\ at[o] = "poll" /\ cur' = cur /\ ~portOpen[Target(o)] /\ UNCHANGED held
    BY <1>13 DEF SuspendTrue, SuspendConfirm
  <2>2. pc[First(o)] # "reading"
    BY <1>4, <2>1 DEF TargetSteps, HeldSteps, HandoverInv, PublishedInSession, InSession
  <2>3. QED
    BY <1>2, <1>3, <2>1, <2>2 DEF Holds, First, HandoverInv, HeldSteps
<1>14. CASE StartTool(o) \/ EndTool(o)
  <2>1. at[o] \in {"arm", "tool"} /\ cur' = cur /\ UNCHANGED held
    BY <1>14 DEF StartTool, EndTool, SetFlashing, collectorVars, srVars
  <2>2. QED
    BY <1>2, <1>3, <2>1 DEF Holds, First, HandoverInv, HeldSteps
<1> HIDE DEF RequestTypeOK, Step, KeepLocals, Unlock
<1>15. QED
  BY <1>7, <1>8, <1>9, <1>10, <1>11, <1>12, <1>13, <1>14 DEF Request

\* The watcher moves no collector and holds none.
LEMMA TickMovesNone ==
  ASSUME MayMiss = FALSE, HandoverInv, Tick
  PROVE  StillPlugged' /\ UNCHANGED <<pc, portOpen, held>>
<1> USE DEF HandoverInv, StillPlugged, plugVars, collectorVars, loopVars, srVars
<1>1. CASE Enumerate
  BY <1>1 DEF Enumerate
<1>2. CASE Diff
  <2>1. Fresh = {} /\ Gone = {}
    <3>1. seen = Key
      BY <1>2 DEF Diff
    <3>2. \A k \in Key : collectors[k] # 0
      OBVIOUS
    <3>3. QED
      BY ONLY <3>1, <3>2 DEF Fresh, Gone
  <2>2. collectors' = [k \in Key |-> collectors[k]] /\ pc' = [c \in Coll |-> pc[c]]
    BY <1>2, <2>1 DEF Diff
  <2>3. pc' = pc
    BY <2>2, TypeParts DEF CollectorTypeOK
  <2>4. QED
    BY <1>2, <2>2, <2>3 DEF Diff
<1>3. CASE ReloadPause
  BY <1>3 DEF ReloadPause
<1>4. CASE ScanReleases
  <2>1. /\ done' \subseteq {k \in Key : releases[k] \in {"timed", "quiet"} \/ collectors[k] = 0}
        /\ \A k \in Key : releases[k] \in {"none", "forever"} => releases'[k] = releases[k]
        /\ watch' = "drop" /\ UNCHANGED <<plugVars, collectorVars>>
    BY <1>4 DEF ScanReleases
  <2>2. QED
    BY <2>1
<1>5. CASE DropOver \/ ResumeOver
  BY <1>5 DEF DropOver, ResumeOver
<1>6. CASE EndTick
  BY <1>6 DEF EndTick
<1>7. QED
  BY <1>1, <1>2, <1>3, <1>4, <1>5, <1>6 DEF Tick

\* The watcher disturbs nothing of it.
LEMMA TickHandover ==
  ASSUME MayMiss = FALSE, HandoverInv, Tick
  PROVE  HandoverInv'
<1>1. TypeOK' /\ OneRequestAtWork' /\ UNCHANGED opVars
  BY TickTypes, StepOneRequest, OthersKeepRequests DEF HandoverInv, Next
<1>2. StillPlugged' /\ UNCHANGED <<pc, portOpen, held>>
  BY TickMovesNone
<1>3. PublishedInSession' /\ FirstCollectorOnly'
  BY <1>2 DEF HandoverInv, PublishedInSession, FirstCollectorOnly
<1>4. \A o \in Op : OnTarget(o)' /\ Holds(o)'
  BY <1>1, <1>2 DEF HandoverInv, OnTarget, Holds, First, opVars
<1>5. QED
  BY <1>1, <1>2, <1>3, <1>4 DEF HandoverInv

\* Neither does a collector: one that is held does not enter its read loop.
LEMMA LoopHandover ==
  ASSUME HandoverInv, NEW c \in Coll, Loop(c) \/ Disturbance(c)
  PROVE  HandoverInv'
<1>1. TypeOK' /\ OneRequestAtWork' /\ UNCHANGED opVars
  BY NextTypes, StepOneRequest, OthersKeepRequests DEF HandoverInv, Next
<1>2. StillPlugged'
  BY DEF HandoverInv, StillPlugged, Loop, Disturbance, KeepAllButCollectors, KeepDaemon,
     plugVars, watchVars
<1>3. CollectorTypeOK /\ RequestTypeOK /\ PublishedInSession
  BY TypeParts DEF HandoverInv
<1>4. CollectorStep(c) \/ SilentTurn(c) \/ ReadError(c)
  BY DEF Loop, Disturbance
<1>5. /\ UNCHANGED held
      /\ PublishedInSession'
      /\ \A d \in Coll : pc'[d] = "reading" => pc[d] = "reading" \/ ~held[d]
  BY <1>3, <1>4, StepEffect
<1>6. \A d \in Coll : pc[d] = "none" => pc'[d] = "none"
  BY <1>3, <1>4 DEF CollectorTypeOK, CollectorStep, LoopHead, WaitHeldCleared, LeaveLoop,
     GoRound, BackOff, Sleep, OpenOk, OpenFail, PublishOpen, Recheck, ReadTurn, ClosePort,
     PublishClosed, SilentTurn, ReadError, Goto, EndSession
<1>7. FirstCollectorOnly'
  BY <1>6 DEF HandoverInv, FirstCollectorOnly
<1>8. \A o \in Op : First(o) \in Coll
  BY <1>3 DEF First, RequestTypeOK
<1>9. \A o \in Op : OnTarget(o)' /\ Holds(o)'
  BY <1>1, <1>5, <1>8 DEF HandoverInv, OnTarget, Holds, First, opVars, HeldSteps
<1>10. QED
  BY <1>1, <1>2, <1>5, <1>7, <1>9 DEF HandoverInv

\* The invariant is inductive.
LEMMA HandoverKept ==
  ASSUME NoReleaseEnds, MayMiss = FALSE, HandoverInv, [Next]_vars
  PROVE  HandoverInv'
<1>1. ASSUME NEW o \in Op, Begin(o) \/ Request(o)
      PROVE  HandoverInv'
  <2>1. TypeOK' /\ OneRequestAtWork'
    BY NextTypes, StepOneRequest DEF HandoverInv
  <2>2. StillPlugged' /\ \A p \in Op : OnTarget(p)'
    BY <1>1, RequestOnTarget DEF HandoverInv
  <2>3. \A p \in Op : Holds(p)'
    BY <1>1, RequestHolds
  <2>4. UNCHANGED <<pc, portOpen>>
    BY <1>1, RequestCollectors, TypeParts DEF HandoverInv
  <2>5. PublishedInSession' /\ FirstCollectorOnly'
    BY <2>4 DEF HandoverInv, PublishedInSession, FirstCollectorOnly
  <2>6. QED
    BY <2>1, <2>2, <2>3, <2>5 DEF HandoverInv
<1>2. CASE Tick
  BY <1>2, TickHandover
<1>3. ASSUME NEW c \in Coll, Loop(c) \/ Disturbance(c)
      PROVE  HandoverInv'
  BY <1>3, LoopHandover
<1>4. CASE UNCHANGED vars
  <2>1. TypeOK' /\ OneRequestAtWork'
    BY <1>4, NextTypes, StepOneRequest DEF HandoverInv
  <2>2. StillPlugged' /\ PublishedInSession' /\ FirstCollectorOnly'
    BY <1>4 DEF vars, plugVars, watchVars, collectorVars, loopVars, srVars,
       HandoverInv, StillPlugged, PublishedInSession, FirstCollectorOnly
  <2>3. \A o \in Op : OnTarget(o)' /\ Holds(o)'
    BY <1>4 DEF vars, opVars, collectorVars, loopVars, srVars, HandoverInv,
       OnTarget, Holds, First
  <2>4. QED
    BY <2>1, <2>2, <2>3 DEF HandoverInv
<1>5. QED
  BY <1>1, <1>2, <1>3, <1>4 DEF Next


\* The tool and a collector are never on the same port.
LEMMA HandoverAlone == HandoverInv => ToolHasPortAlone
<1> SUFFICES ASSUME HandoverInv, NEW c \in Coll, ToolOn(c[1])
             PROVE  pc[c] # "reading"
  BY DEF ToolHasPortAlone
<1>1. PICK o \in Op : at[o] = "tool" /\ cur[o] = c[1]
  BY DEF ToolOn
<1>2. CASE c[2] = 1
  <2>1. c = First(o)
    BY <1>1, <1>2 DEF First
  <2>2. QED
    BY <1>1, <2>1 DEF HandoverInv, Holds, HeldSteps
<1>3. CASE c[2] # 1
  BY <1>3 DEF HandoverInv, FirstCollectorOnly
<1>4. QED
  BY <1>2, <1>3


\* Where no release ends by itself and no scan misses a device, the
\* external tool and a collector are never on the same port, whatever
\* requests come and however they interleave with the watcher.
THEOREM ToolIsAlone ==
  ASSUME NoReleaseEnds, MayMiss = FALSE
  PROVE  Spec => []ToolHasPortAlone
<1>1. HandoverInv /\ [Next]_vars => HandoverInv'
  BY HandoverKept
<1>2. QED
  BY <1>1, HandoverAlone, InitHandover, PTL DEF Spec

\* With the same releases and scans, the daemon implements the contract of
\* PortOwnership: a collector or a tool takes a port that is free and gives it
\* back, and neither takes it from the other.
THEOREM ImplementsOwnership ==
  ASSUME NoReleaseEnds, MayMiss = FALSE
  PROVE  Spec => OwnershipSpec
<1>0. /\ HandoverInv => ToolHasPortAlone
      /\ HandoverInv' => ToolHasPortAlone'
  BY HandoverAlone, PTL
<1>1. Init => Ownership!Init
  BY DEF Init, CollectorInit, Ownership!Init, Owner, ToolOn
<1>2. HandoverInv /\ HandoverInv' /\ [Next]_vars => [Ownership!Next]_Owner
  <2> SUFFICES ASSUME HandoverInv, HandoverInv', [Next]_vars
               PROVE  [Ownership!Next]_Owner
    OBVIOUS
  <2> DEFINE Reading(k) == \E c \in Coll : c[1] = k /\ pc[c] = "reading"
  <2>1. /\ CollectorTypeOK /\ RequestTypeOK
        /\ \A k \in Key : ToolOn(k) => ~Reading(k)
        /\ \A k \in Key : ToolOn(k)' => ~Reading(k)'
    <3>1. ToolHasPortAlone /\ ToolHasPortAlone'
      BY <1>0
    <3>2. QED
      BY <3>1, TypeParts DEF HandoverInv, ToolHasPortAlone
  <2>2. /\ Owner = [k \in Key |-> IF ToolOn(k) THEN "caller"
                                  ELSE IF Reading(k) THEN "collector" ELSE "free"]
        /\ Owner' = [k \in Key |-> IF ToolOn(k)' THEN "caller"
                                   ELSE IF Reading(k)' THEN "collector" ELSE "free"]
    BY DEF Owner
  <2> HIDE DEF Reading
  <2>3. ASSUME NEW k \in Key,
               \A j \in Key \ {k} : /\ ToolOn(j)' <=> ToolOn(j)
                                    /\ Reading(j)' <=> Reading(j),
               (ToolOn(k)' <=> ToolOn(k)) \/ (Reading(k)' <=> Reading(k))
        PROVE  [Ownership!Next]_Owner
    <3>1. Owner' = [Owner EXCEPT ![k] = Owner'[k]]
      BY <2>2, <2>3
    <3>2. CASE Owner'[k] = Owner[k]
      <4>1. Owner' = Owner
        BY <2>2, <3>1, <3>2
      <4>2. QED
        BY <4>1
    <3>3. CASE Owner[k] = "free" /\ Owner'[k] # "free"
      <4>1. Owner'[k] \in {"collector", "caller"}
        BY <2>2, <3>3
      <4>2. Ownership!Takes(k, Owner'[k])
        BY <3>1, <3>3 DEF Ownership!Takes
      <4>3. QED
        BY <4>1, <4>2 DEF Ownership!Next
    <3>4. CASE Owner[k] # "free" /\ Owner'[k] = "free"
      BY <3>1, <3>4 DEF Ownership!Yields, Ownership!Next
    <3>5. QED
      BY <2>1, <2>2, <2>3, <3>2, <3>3, <3>4
  <2>4. CASE Owner' = Owner
    BY <2>4
  <2>5. ASSUME NEW o \in Op, Begin(o) \/ Request(o)
        PROVE  [Ownership!Next]_Owner
    <3>1. UNCHANGED pc /\ \A k \in Key : Reading(k)' <=> Reading(k)
      BY <2>1, <2>5, RequestCollectors DEF Reading
    <3>2. \A p \in Op \ {o} : at'[p] = at[p] /\ cur'[p] = cur[p]
      BY <2>1, <2>5, RequestFrame
    <3>3. \/ at[o] # "tool" /\ at'[o] # "tool"
          \/ cur'[o] = cur[o] /\ cur[o] \in Key
      BY <2>1, <2>5
      DEF Begin, Request, TryLock, Refused, Revoke, SnapReleases, NextDevice, Finish,
          GiveUp, CallSuspend, SuspendTrue, SuspendFalse, Record, StartTool, EndTool,
          GiveBack, GiveBackAndFail, ReopenDevice, ResumeDevice, DropRelease,
          Step, Unlock, KeepLocals, RequestTypeOK
    <3>4. CASE at[o] # "tool" /\ at'[o] # "tool"
      <4>1. \A k \in Key : ToolOn(k)' <=> ToolOn(k)
        BY <3>2, <3>4 DEF ToolOn
      <4>2. Owner' = Owner
        BY <2>2, <3>1, <4>1
      <4>3. QED
        BY <4>2
    <3>5. CASE cur'[o] = cur[o] /\ cur[o] \in Key
      <4>1. \A j \in Key \ {cur[o]} : ToolOn(j)' <=> ToolOn(j)
        BY <3>2, <3>5 DEF ToolOn
      <4>2. QED
        BY <2>3, <3>1, <3>5, <4>1
    <3>6. QED
      BY <3>3, <3>4, <3>5
  <2>6. ASSUME NEW c \in Coll, Loop(c) \/ Disturbance(c)
        PROVE  [Ownership!Next]_Owner
    <3>1. \A k \in Key : ToolOn(k)' <=> ToolOn(k)
      BY <2>6, OthersKeepRequests DEF ToolOn, opVars
    <3>2. \A d \in Coll \ {c} : pc'[d] = pc[d]
      BY <2>1, <2>6
      DEF Loop, Disturbance, CollectorStep, LoopHead, WaitHeldCleared, LeaveLoop,
          GoRound, BackOff, Sleep, OpenOk, OpenFail, PublishOpen, Recheck, ReadTurn,
          ClosePort, PublishClosed, SilentTurn, ReadError, Goto, EndSession,
          CollectorTypeOK
    <3>3. \A j \in Key \ {c[1]} : Reading(j)' <=> Reading(j)
      BY <3>2 DEF Reading
    <3>4. c[1] \in Key
      BY HandoverAssumption
    <3>5. QED
      BY <2>3, <3>1, <3>3, <3>4
  <2>7. CASE Tick
    <3>1. UNCHANGED opVars /\ HandoverInv /\ Tick
      BY <2>7, OthersKeepRequests
    <3>2. UNCHANGED pc
      BY <2>7, TickMovesNone
    <3>3. QED
      BY <3>1, <3>2 DEF Owner, ToolOn, opVars
  <2>8. CASE UNCHANGED vars
    BY <2>8 DEF vars, opVars, collectorVars, loopVars, Owner, ToolOn
  <2>9. QED
    BY <2>5, <2>6, <2>7, <2>8 DEF Next
<1>3. QED
  BY <1>1, <1>2, HandoverKept, InitHandover, PTL DEF Spec, OwnershipSpec, Ownership!Spec
-----------------------------------------------------------------------------
(* No hold is left to nobody, as long as the requests are such that nobody *)
(* forgets a release before the device is in his hands.                    *)

\* Where nobody can release a port, a hold is the request's that is at work;
\* where nobody flashes, it is a release's.  Where both are done, a request may
\* forget the release of a port that it then does not get to: Board that
\* refuses its plan, Flash of several devices that gives up at one of them,
\* and any of the three that selected a collector which was replaced, and the
\* new one released, before it had opMu.
OneRequester == \A o, p \in Op : o = p
OneDevice    == \A j, k \in Key : j = k
ReleasesLast ==
    \/ "release" \notin Kinds
    \/ Kinds \cap {"flash", "board", "reset"} = {}
    \/ /\ "board" \notin Kinds
       /\ "flash" \in Kinds => OneDevice
       /\ MaxInc = 1 \/ OneRequester

\* The steps tell which request it is.
KindAt(o) ==
    /\ at[o] # "idle" => kind[o] \in Kinds
    /\ at[o] \in {"snap", "resume1", "resume2"} => kind[o] = "resume"
    /\ at[o] = "revoke" => kind[o] \in {"flash", "board"}
    /\ at[o] = "record" => kind[o] = "release"
    /\ at[o] \in {"suspend"} \cup HeldSteps => kind[o] \in {"release", "flash", "board", "reset"}

NoneRecorded == "release" \notin Kinds => \A k \in Key : releases[k] = "none"

\* A collector that is yet to be created is known to nobody and not held.
CreatedBefore ==
    /\ \A k \in Key : collectors[k] <= created[k]
    /\ \A o \in Op, k \in Key : snap[o][k] <= created[k]
    /\ \A c \in Coll : held[c] => c[2] <= created[c[1]]

\* The devices a request has selected and is still to take: a single requester
\* that finds one of them held has selected the collector that is held.
Ahead(o, k) == \/ at[o] # "idle" /\ kind[o] # "resume" /\ k \in todo[o]
               \/ at[o] = "suspend" /\ cur[o] = k
SnapTaken(o) ==
    /\ \A k \in Key : Ahead(o, k) => snap[o][k] # 0
    /\ at[o] \in TargetSteps => cur[o] \notin todo[o]
SnapFresh(o) ==
    \A k \in Key : Ahead(o, k) /\ collectors[k] # 0 /\ held[Live(k)]
                      => snap[o][k] = collectors[k]

\* ResumeAll drops a release when it has ended the hold.
Freed(o) == at[o] = "resume2" /\ collectors[cur[o]] # 0 => ~ held[Live(cur[o])]

\* Who ends the hold of a collector: whoever ends its release; the watcher, that
\* is about to; the request that works on it; or a flash, of this device only,
\* that has forgotten the release and goes on to this collector.
Ender(c) ==
    \/ releases[c[1]] # "none"
    \/ watch = "resume" /\ c[1] \in seen
    \/ \E o \in Op : at[o] \in {"suspend"} \cup HeldSteps /\ Target(o) = c
    \/ OneDevice /\ \E o \in Op : /\ at[o] = "next" /\ kind[o] = "flash"
                                  /\ c[1] \in todo[o] /\ snap[o][c[1]] = c[2]
HoldsEnd == \A c \in Coll : held[c] /\ c = Live(c[1]) => Ender(c)

HoldInv ==
    /\ TypeOK /\ OneRequestAtWork
    /\ \A o \in Op : KindAt(o) /\ SnapTaken(o) /\ Freed(o)
    /\ OneRequester => \A o \in Op : SnapFresh(o)
    /\ NoneRecorded
    /\ CreatedBefore
    /\ watch = "resume" => \A j, k \in seen : j = k
    /\ HoldsEnd

\* The collector the daemon knows of a device is one.
LEMMA LiveIsCollector ==
  ASSUME DaemonTypeOK, NEW k \in Key, collectors[k] # 0
  PROVE  <<k, collectors[k]>> \in Coll
<1>1. collectors[k] \in 1 .. MaxInc
  BY DEF DaemonTypeOK
<1>2. QED
  BY <1>1

\* It holds at the start, when nothing is held.
LEMMA InitHolds == Init => HoldInv
<1> SUFFICES ASSUME Init
             PROVE  HoldInv
  OBVIOUS
<1>1. TypeOK
  BY InitTypes
<1>2. OneRequestAtWork /\ (\A o \in Op : at[o] = "idle") /\ watch = "idle"
  BY DEF Init, OneRequestAtWork, Working
<1>3. /\ \A k \in Key : collectors[k] = 1 /\ created[k] = 1 /\ releases[k] = "none"
      /\ \A o \in Op, k \in Key : snap[o][k] = 0
      /\ \A c \in Coll : ~ held[c]
  BY DEF Init, NoSnap, CollectorInit
<1>4. \A k \in Key : Live(k) \in Coll
  BY <1>3 DEF Live
<1>5. \A o \in Op : KindAt(o) /\ SnapTaken(o) /\ Freed(o) /\ SnapFresh(o)
  BY <1>2 DEF KindAt, SnapTaken, Freed, SnapFresh, Ahead, HeldSteps, TargetSteps
<1>6. NoneRecorded /\ CreatedBefore /\ HoldsEnd
  BY <1>3 DEF NoneRecorded, CreatedBefore, HoldsEnd
<1>7. QED
  BY <1>1, <1>2, <1>5, <1>6 DEF HoldInv

\* What a request does to the holds: CallSuspend holds its target, and nothing
\* else holds anything.
LEMMA RequestHeld ==
  ASSUME RequestTypeOK, CollectorTypeOK, NEW o \in Op, Begin(o) \/ Request(o)
  PROVE  \/ /\ at[o] = "suspend" /\ at'[o] = "poll"
            /\ held' = [held EXCEPT ![Target(o)] = TRUE]
            /\ UNCHANGED <<kind, snap, todo, cur, releases>>
         \/ \A c \in Coll : held'[c] => held[c]
<1>1. CASE UNCHANGED held
  BY <1>1
<1>2. CASE Begin(o) \/ TryLock(o) \/ Refused(o) \/ Revoke(o) \/ SnapReleases(o)
  BY <1>1, <1>2 DEF Begin, TryLock, Refused, Revoke, SnapReleases, collectorVars, srVars
<1>3. CASE NextDevice(o) \/ Finish(o) \/ GiveUp(o) \/ Record(o) \/ DropRelease(o)
  BY <1>1, <1>3 DEF NextDevice, Finish, GiveUp, Record, DropRelease, collectorVars, srVars
<1>4. CASE CallSuspend(o)
  BY <1>4 DEF CallSuspend, SuspendBegin, Step, KeepLocals, KeepDaemon, RequestTypeOK
<1>5. CASE SuspendTrue(o) \/ StartTool(o) \/ EndTool(o) \/ ReopenDevice(o)
  BY <1>1, <1>5 DEF SuspendTrue, SuspendConfirm, StartTool, EndTool, SetFlashing,
     ReopenDevice, ReopenRequest, ReopenClose, collectorVars, srVars
<1>6. ASSUME NEW c, held' = [held EXCEPT ![c] = FALSE]
      PROVE  \A d \in Coll : held'[d] => held[d]
  BY <1>6 DEF CollectorTypeOK
<1>7. CASE SuspendFalse(o)
  BY <1>6, <1>7 DEF SuspendFalse, SuspendTimeout
<1>8. CASE GiveBack(o) \/ GiveBackAndFail(o)
  BY <1>6, <1>8 DEF GiveBack, GiveBackAndFail, Resume
<1>9. CASE ResumeDevice(o)
  BY <1>1, <1>6, <1>9 DEF ResumeDevice, Resume, collectorVars, srVars
<1>10. QED
  BY <1>2, <1>3, <1>4, <1>5, <1>7, <1>8, <1>9 DEF Request

\* What a request does to the releases it finds: three steps forget one.
LEMMA RequestForgets ==
  ASSUME RequestTypeOK, DaemonTypeOK, NEW o \in Op, Begin(o) \/ Request(o),
         NEW k \in Key, releases[k] # "none", releases'[k] = "none"
  PROVE  \/ Revoke(o) /\ k \in todo[o]
         \/ NextDevice(o) /\ kind[o] = "reset" /\ k \in todo[o] /\ cur'[o] = k
         \/ DropRelease(o) /\ cur[o] = k
<1>1. CASE UNCHANGED releases
  BY <1>1
<1>2. CASE Revoke(o)
  BY <1>2 DEF Revoke, DaemonTypeOK
<1>3. CASE NextDevice(o)
  <2>1. PICK j \in todo[o] :
           /\ cur' = [cur EXCEPT ![o] = j]
           /\ releases' = IF kind[o] = "reset"
                          THEN [releases EXCEPT ![j] = "none"] ELSE releases
    BY <1>3 DEF NextDevice
  <2>2. cur'[o] = j
    BY <2>1 DEF RequestTypeOK
  <2>3. kind[o] = "reset" /\ k = j
    BY <2>1 DEF DaemonTypeOK
  <2>4. QED
    BY <1>3, <2>2, <2>3
<1>4. CASE Record(o)
  BY <1>4 DEF Record, DaemonTypeOK, RequestTypeOK, AllSpecs
<1>5. CASE DropRelease(o)
  BY <1>5 DEF DropRelease, DaemonTypeOK, RequestTypeOK
<1>6. QED
  BY <1>1, <1>2, <1>3, <1>4, <1>5 DEF Begin, Request, TryLock, Refused, SnapReleases,
     Finish, GiveUp, CallSuspend, SuspendTrue, SuspendFalse, StartTool, EndTool,
     GiveBack, GiveBackAndFail, ReopenDevice, ResumeDevice, KeepDaemon

\* A request remains the one it is.
LEMMA RequestKindAt ==
  ASSUME RequestTypeOK, \A p \in Op : KindAt(p), NEW o \in Op, Begin(o) \/ Request(o)
  PROVE  \A p \in Op : KindAt(p)'
<1>1. \A p \in Op \ {o} : KindAt(p)'
  BY RequestFrame DEF KindAt
<1>2. KindAt(o)'
  <2> USE DEF KindAt, RequestTypeOK, AllKinds, Step, KeepLocals, Unlock, HeldSteps
  <2>1. CASE at'[o] = "idle"
    BY <2>1
  <2>2. CASE Begin(o)
    BY <2>2 DEF Begin
  <2>3. CASE TryLock(o)
    BY <2>3 DEF TryLock
  <2>4. CASE Refused(o) \/ Finish(o) \/ GiveUp(o) \/ GiveBackAndFail(o)
    BY <2>1, <2>4 DEF Refused, Finish, GiveUp, GiveBackAndFail
  <2>5. CASE Revoke(o) \/ SnapReleases(o)
    BY <2>5 DEF Revoke, SnapReleases
  <2>6. CASE NextDevice(o)
    BY <2>6 DEF NextDevice
  <2>7. CASE CallSuspend(o) \/ SuspendTrue(o) \/ Record(o)
    BY <2>7 DEF CallSuspend, SuspendTrue, Record
  <2>8. CASE SuspendFalse(o)
    BY <2>1, <2>8 DEF SuspendFalse
  <2>9. CASE StartTool(o) \/ EndTool(o) \/ GiveBack(o)
    BY <2>9 DEF StartTool, EndTool, GiveBack
  <2>10. CASE ReopenDevice(o) \/ DropRelease(o)
    BY <2>10 DEF ReopenDevice, DropRelease
  <2>11. CASE ResumeDevice(o)
    <3>1. at[o] = "resume1" /\ at' = [at EXCEPT ![o] = "resume2"] /\ kind' = kind
      BY <2>11 DEF ResumeDevice
    <3>2. QED
      BY <3>1
  <2> HIDE DEF KindAt, RequestTypeOK, AllKinds, Step, KeepLocals, Unlock, HeldSteps
  <2>12. QED
    BY <2>2, <2>3, <2>4, <2>5, <2>6, <2>7, <2>8, <2>9, <2>10, <2>11 DEF Request
<1>3. QED
  BY <1>1, <1>2

\* What a request still has to take is what it has selected, and it has done
\* with the device in hand.
LEMMA RequestSnapTaken ==
  ASSUME RequestTypeOK, DaemonTypeOK, \A p \in Op : KindAt(p) /\ SnapTaken(p),
         NEW o \in Op, Begin(o) \/ Request(o)
  PROVE  \A p \in Op : SnapTaken(p)'
<1>1. \A p \in Op \ {o} : SnapTaken(p)'
  BY RequestFrame DEF SnapTaken, Ahead
<1>2. SnapTaken(o)'
  <2> USE DEF SnapTaken, Ahead, TargetSteps, HeldSteps, RequestTypeOK, Step, KeepLocals, Unlock
  <2>1. CASE at'[o] = "idle"
    BY <2>1
  <2>2. CASE Begin(o)
    <3>1. at'[o] = "lock" /\ \A k \in Key : k \in todo'[o] => snap'[o][k] # 0
      BY <2>2 DEF Begin, DaemonTypeOK
    <3>2. QED
      BY <3>1
  <2>3. CASE TryLock(o)
    BY <2>3 DEF TryLock
  <2>4. CASE Refused(o) \/ Finish(o) \/ GiveUp(o) \/ GiveBackAndFail(o)
    BY <2>1, <2>4 DEF Refused, Finish, GiveUp, GiveBackAndFail
  <2>5. CASE Revoke(o)
    BY <2>5 DEF Revoke
  <2>6. CASE SnapReleases(o)
    BY <2>6 DEF SnapReleases, KindAt
  <2>7. CASE NextDevice(o)
    <3>1. PICK k \in todo[o] :
             /\ cur' = [cur EXCEPT ![o] = k] /\ todo' = [todo EXCEPT ![o] = @ \ {k}]
             /\ at[o] = "next" /\ at' = [at EXCEPT ![o] = CASE kind[o] = "reopen" -> "reopen1"
                                                  [] kind[o] = "resume" -> "resume1"
                                                  [] OTHER -> "suspend"]
             /\ UNCHANGED <<kind, snap>>
      BY <2>7 DEF NextDevice
    <3>2. cur'[o] = k /\ todo'[o] = todo[o] \ {k} /\ at'[o] \in {"reopen1", "resume1", "suspend"}
      BY <3>1
    <3>3. at'[o] = "suspend" => kind[o] # "resume"
      BY <3>1
    <3>4. QED
      BY <3>1, <3>2, <3>3
  <2>8. CASE CallSuspend(o) \/ SuspendTrue(o) \/ Record(o)
    BY <2>8 DEF CallSuspend, SuspendTrue, Record
  <2>9. CASE SuspendFalse(o)
    BY <2>1, <2>9 DEF SuspendFalse
  <2>10. CASE StartTool(o) \/ EndTool(o) \/ GiveBack(o)
    BY <2>10 DEF StartTool, EndTool, GiveBack
  <2>11. CASE ReopenDevice(o) \/ DropRelease(o)
    BY <2>11 DEF ReopenDevice, DropRelease
  <2>12. CASE ResumeDevice(o)
    <3>1. /\ at[o] = "resume1" /\ at' = [at EXCEPT ![o] = "resume2"]
          /\ UNCHANGED <<kind, snap, todo, cur>>
      BY <2>12 DEF ResumeDevice
    <3>2. QED
      BY <3>1
  <2> HIDE DEF SnapTaken, Ahead, TargetSteps, HeldSteps, RequestTypeOK, Step, KeepLocals, Unlock
  <2>13. QED
    BY <2>2, <2>3, <2>4, <2>5, <2>6, <2>7, <2>8, <2>9, <2>10, <2>11, <2>12 DEF Request
<1>3. QED
  BY <1>1, <1>2

\* While nobody can ask for a release, none is recorded.
LEMMA RequestNoneRecorded ==
  ASSUME RequestTypeOK, DaemonTypeOK, \A p \in Op : KindAt(p), NoneRecorded,
         NEW o \in Op, Begin(o) \/ Request(o)
  PROVE  NoneRecorded'
<1> USE DEF NoneRecorded
<1>1. CASE UNCHANGED releases
  BY <1>1
<1>2. CASE Revoke(o) \/ NextDevice(o) \/ DropRelease(o)
  BY <1>2 DEF Revoke, NextDevice, DropRelease, DaemonTypeOK
<1>3. CASE Record(o)
  BY <1>3 DEF Record, KindAt
<1>4. QED
  BY <1>1, <1>2, <1>3 DEF Begin, Request, TryLock, Refused, SnapReleases,
     Finish, GiveUp, CallSuspend, SuspendTrue, SuspendFalse, StartTool, EndTool,
     GiveBack, GiveBackAndFail, ReopenDevice, ResumeDevice, KeepDaemon

\* A request knows the collectors there are.
LEMMA RequestCreatedBefore ==
  ASSUME RequestTypeOK, DaemonTypeOK, CollectorTypeOK, CreatedBefore,
         NEW o \in Op, Begin(o) \/ Request(o)
  PROVE  CreatedBefore'
<1>1. UNCHANGED plugVars
  BY RequestKeeps
<1>2. ASSUME NEW p \in Op, NEW k \in Key
      PROVE  snap'[p][k] <= created[k]
  <2>1. CASE p # o \/ UNCHANGED snap
    BY <2>1, RequestFrame DEF CreatedBefore
  <2>2. CASE p = o /\ Begin(o)
    BY <2>2 DEF Begin, RequestTypeOK, DaemonTypeOK, CreatedBefore
  <2>3. CASE p = o /\ Forget(o)
    BY <2>3 DEF Forget, NoSnap, RequestTypeOK, DaemonTypeOK
  <2>4. QED
    BY <2>1, <2>2, <2>3 DEF Request, TryLock, Refused, Revoke, SnapReleases, NextDevice,
       Finish, GiveUp, CallSuspend, SuspendTrue, SuspendFalse, Record, StartTool, EndTool,
       GiveBack, GiveBackAndFail, ReopenDevice, ResumeDevice, DropRelease, KeepLocals
<1>3. ASSUME NEW c \in Coll, held'[c]
      PROVE  c[2] <= created[c[1]]
  <2>1. CASE held[c]
    BY <2>1 DEF CreatedBefore
  <2>2. CASE ~ held[c]
    <3>1. held' = [held EXCEPT ![Target(o)] = TRUE]
      BY <1>3, <2>2, RequestHeld
    <3>2. c = Target(o)
      BY <1>3, <2>2, <3>1 DEF CollectorTypeOK
    <3>3. QED
      BY <3>2 DEF Target, CreatedBefore, RequestTypeOK
  <2>3. QED
    BY <2>1, <2>2
<1>4. QED
  BY <1>1, <1>2, <1>3 DEF CreatedBefore, plugVars

\* ResumeAll has ended the hold of a device when it drops its release, and
\* no other request is at work that could hold it again.
LEMMA RequestFreed ==
  ASSUME RequestTypeOK, DaemonTypeOK, CollectorTypeOK, OneRequestAtWork,
         \A p \in Op : Freed(p), NEW o \in Op, Begin(o) \/ Request(o)
  PROVE  \A p \in Op : Freed(p)'
<1>1. UNCHANGED collectors
  BY RequestKeeps DEF plugVars
<1>2. SUFFICES ASSUME NEW p \in Op, at'[p] = "resume2", collectors[cur'[p]] # 0
               PROVE  ~ held'[<<cur'[p], collectors[cur'[p]]>>]
  BY <1>1 DEF Freed, Live
<1>3. <<cur'[p], collectors[cur'[p]]>> \in Coll
  BY <1>2, RequestTypes, LiveIsCollector DEF RequestTypeOK
<1>4. CASE p # o
  <2>1. at[p] = "resume2" /\ cur'[p] = cur[p]
    BY <1>2, <1>4, RequestFrame
  <2>2. at[o] # "suspend"
    BY <1>4, <2>1 DEF OneRequestAtWork, Working
  <2>3. QED
    BY <1>2, <1>3, <2>1, <2>2, RequestHeld DEF Freed, Live
<1>5. CASE p = o
  <2>1. ResumeDevice(o)
    BY <1>2, <1>5 DEF Request, Begin, TryLock, Refused, Revoke, SnapReleases, NextDevice,
       Finish, GiveUp, CallSuspend, SuspendTrue, SuspendFalse, Record, StartTool, EndTool,
       GiveBack, GiveBackAndFail, ReopenDevice, DropRelease, Step, Unlock, RequestTypeOK
  <2>2. cur' = cur /\ held' = [held EXCEPT ![Live(cur[o])] = FALSE]
    BY <1>2, <1>5, <2>1 DEF ResumeDevice, Resume, KeepLocals
  <2>3. QED
    BY <1>3, <1>5, <2>2 DEF Live, CollectorTypeOK
<1>6. QED
  BY <1>4, <1>5

\* What a single requester has selected and finds held is still the collector
\* the daemon knows.
LEMMA RequestSnapFresh ==
  ASSUME RequestTypeOK, DaemonTypeOK, CollectorTypeOK,
         \A p \in Op : KindAt(p) /\ SnapTaken(p), OneRequester,
         NEW o \in Op, SnapFresh(o), Begin(o) \/ Request(o)
  PROVE  SnapFresh(o)'
<1>1. UNCHANGED collectors
  BY RequestKeeps DEF plugVars
<1>2. SUFFICES ASSUME NEW k \in Key, Ahead(o, k)', collectors[k] # 0, held'[Live(k)]
               PROVE  snap'[o][k] = collectors[k]
  BY <1>1 DEF SnapFresh, Live
<1>3. Live(k) \in Coll
  BY <1>2, LiveIsCollector DEF Live
<1>4. CASE Begin(o)
  BY <1>2, <1>4 DEF Begin, Step, Ahead, RequestTypeOK, DaemonTypeOK
<1>5. CASE ~ Begin(o)
  <2>1. Ahead(o, k) /\ snap'[o][k] = snap[o][k]
    <3> USE DEF RequestTypeOK, Step, KeepLocals, Unlock, Forget, Ahead
    <3>1. CASE at'[o] = "idle"
      BY <1>2, <3>1
    <3>2. CASE TryLock(o)
      BY <1>2, <3>2 DEF TryLock
    <3>3. CASE Refused(o) \/ Finish(o) \/ GiveUp(o) \/ GiveBackAndFail(o)
      BY <3>1, <3>3 DEF Refused, Finish, GiveUp, GiveBackAndFail
    <3>4. CASE Revoke(o)
      BY <1>2, <3>4 DEF Revoke
    <3>5. CASE SnapReleases(o)
      BY <1>2, <3>5 DEF SnapReleases, KindAt
    <3>6. CASE NextDevice(o)
      <4>1. PICK j \in todo[o] :
               /\ cur' = [cur EXCEPT ![o] = j] /\ todo' = [todo EXCEPT ![o] = @ \ {j}]
               /\ at[o] = "next" /\ at' = [at EXCEPT ![o] = CASE kind[o] = "reopen" -> "reopen1"
                                                    [] kind[o] = "resume" -> "resume1"
                                                    [] OTHER -> "suspend"]
               /\ UNCHANGED <<kind, snap>>
        BY <3>6 DEF NextDevice
      <4>2. cur'[o] = j /\ todo'[o] = todo[o] \ {j} /\ kind'[o] = kind[o]
        BY <4>1
      <4>3. at'[o] = "suspend" => kind[o] # "resume"
        BY <4>1
      <4>4. QED
        BY <1>2, <4>1, <4>2, <4>3
    <3>7. CASE CallSuspend(o) \/ SuspendTrue(o) \/ Record(o)
      BY <1>2, <3>7 DEF CallSuspend, SuspendTrue, Record
    <3>8. CASE SuspendFalse(o)
      BY <1>2, <3>1, <3>8 DEF SuspendFalse
    <3>9. CASE StartTool(o) \/ EndTool(o) \/ GiveBack(o)
      BY <1>2, <3>9 DEF StartTool, EndTool, GiveBack
    <3>10. CASE ReopenDevice(o) \/ DropRelease(o)
      BY <1>2, <3>10 DEF ReopenDevice, DropRelease
    <3>11. CASE ResumeDevice(o)
      <4>1. /\ at[o] = "resume1" /\ at' = [at EXCEPT ![o] = "resume2"]
            /\ UNCHANGED <<kind, snap, todo, cur>>
        BY <3>11 DEF ResumeDevice
      <4>2. QED
        BY <1>2, <4>1
    <3> HIDE DEF RequestTypeOK, Step, KeepLocals, Unlock, Forget, Ahead
    <3>12. QED
      BY <1>5, <3>2, <3>3, <3>4, <3>5, <3>6, <3>7, <3>8, <3>9, <3>10, <3>11 DEF Request
  <2>2. CASE held[Live(k)]
    BY <1>2, <2>1, <2>2 DEF SnapFresh
  <2>3. CASE ~ held[Live(k)]
    <3>1. /\ at[o] = "suspend" /\ at'[o] = "poll" /\ todo' = todo /\ cur' = cur
          /\ held' = [held EXCEPT ![Target(o)] = TRUE]
      BY <1>2, <1>3, <2>3, RequestHeld
    <3>2. k = cur[o]
      BY <1>2, <1>3, <2>3, <3>1 DEF Live, Target, CollectorTypeOK
    <3>3. QED
      BY <1>2, <3>1, <3>2 DEF Ahead, SnapTaken, TargetSteps
  <2>4. QED
    BY <2>2, <2>3
<1>6. QED
  BY <1>4, <1>5

\* A request that finds a device held which it has selected, and that may
\* forget the release of it, has selected the collector that is held.
LEMMA SelectedIsHeld ==
  ASSUME HoldInv, MaxInc = 1 \/ OneRequester, NEW o \in Op, NEW c \in Coll,
         held[c], c = Live(c[1]), Ahead(o, c[1])
  PROVE  snap[o][c[1]] = c[2]
<1>1. c[1] \in Key /\ c[2] = collectors[c[1]] /\ c[2] # 0
  BY DEF Live
<1>2. RequestTypeOK /\ DaemonTypeOK /\ SnapTaken(o)
  BY TypeParts DEF HoldInv
<1>3. CASE MaxInc = 1
  <2>1. snap[o][c[1]] # 0
    BY <1>1, <1>2 DEF SnapTaken
  <2>2. \A k \in Key : snap[o][k] \in 0 .. MaxInc
    BY <1>2 DEF RequestTypeOK
  <2>3. collectors[c[1]] \in 0 .. MaxInc
    BY <1>1, <1>2 DEF DaemonTypeOK
  <2>4. snap[o][c[1]] \in 0 .. MaxInc
    BY <1>1, <2>2
  <2>5. QED
    BY ONLY <1>1, <1>3, <2>1, <2>3, <2>4
<1>4. CASE OneRequester
  BY <1>1, <1>4 DEF HoldInv, SnapFresh
<1>5. QED
  BY <1>3, <1>4

\* A request that forgets a release goes on to the collector that is held.
LEMMA ForgottenInHand ==
  ASSUME HoldInv, ReleasesLast, NEW o \in Op, Begin(o) \/ Request(o),
         NEW c \in Coll, held[c], c = Live(c[1]),
         releases[c[1]] # "none", releases'[c[1]] = "none"
  PROVE  Ender(c)'
<1>1. CollectorTypeOK /\ DaemonTypeOK /\ RequestTypeOK /\ KindAt(o) /\ Freed(o)
  BY TypeParts DEF HoldInv
<1>2. c[1] \in Key /\ c[2] = collectors[c[1]] /\ c[2] # 0 /\ c = <<c[1], c[2]>>
  BY DEF Live
<1>3. "release" \in Kinds
  BY <1>2 DEF HoldInv, NoneRecorded
<1>4. CASE Revoke(o) /\ c[1] \in todo[o]
  <2>1. /\ at[o] = "revoke" /\ at'[o] = "next" /\ UNCHANGED <<kind, snap, todo, cur>>
    BY <1>1, <1>4 DEF Revoke, Step, KeepLocals, RequestTypeOK
  <2>2. kind[o] = "flash" /\ OneDevice /\ (MaxInc = 1 \/ OneRequester)
    BY <1>1, <1>3, <2>1 DEF KindAt, ReleasesLast
  <2>3. Ahead(o, c[1])
    BY <1>4, <2>1, <2>2 DEF Ahead
  <2>4. snap[o][c[1]] = c[2]
    BY <2>2, <2>3, SelectedIsHeld
  <2>5. QED
    BY <1>4, <2>1, <2>2, <2>4 DEF Ender
<1>5. CASE NextDevice(o) /\ kind[o] = "reset" /\ c[1] \in todo[o] /\ cur'[o] = c[1]
  <2>1. at[o] = "next" /\ at'[o] = "suspend" /\ UNCHANGED <<kind, snap>>
    BY <1>1, <1>5 DEF NextDevice, Step, RequestTypeOK
  <2>2. MaxInc = 1 \/ OneRequester
    BY <1>1, <1>3, <1>5, <2>1 DEF KindAt, ReleasesLast
  <2>3. Ahead(o, c[1])
    BY <1>5, <2>1 DEF Ahead
  <2>4. snap[o][c[1]] = c[2]
    BY <2>2, <2>3, SelectedIsHeld
  <2>5. Target(o)' = c
    BY <1>2, <1>5, <2>1, <2>4 DEF Target
  <2>6. QED
    BY <2>1, <2>5 DEF Ender
<1>6. CASE DropRelease(o) /\ cur[o] = c[1]
  BY <1>1, <1>2, <1>6 DEF DropRelease, Freed
<1>7. QED
  BY <1>1, <1>2, <1>4, <1>5, <1>6, RequestForgets

\* A request that works on a held collector ends the hold, hands it to a release
\* or goes on working on it.
LEMMA WorkGoesOn ==
  ASSUME HoldInv, NEW o \in Op, Begin(o) \/ Request(o), NEW c \in Coll, held'[c],
         \/ at[o] \in {"suspend"} \cup HeldSteps /\ Target(o) = c
         \/ /\ OneDevice /\ at[o] = "next" /\ kind[o] = "flash"
            /\ c[1] \in todo[o] /\ snap[o][c[1]] = c[2]
  PROVE  Ender(c)'
<1>1. CollectorTypeOK /\ DaemonTypeOK /\ RequestTypeOK
  BY TypeParts DEF HoldInv
<1>2. c[1] \in Key /\ c = <<c[1], c[2]>>
  OBVIOUS
<1>3. ASSUME at'[o] \in {"suspend"} \cup HeldSteps, Target(o)' = c
      PROVE  Ender(c)'
  BY <1>3 DEF Ender
<1>4. CASE at[o] = "next"
  <2>1. OneDevice /\ kind[o] = "flash" /\ c[1] \in todo[o] /\ snap[o][c[1]] = c[2]
    BY <1>4 DEF HeldSteps
  <2>2. NextDevice(o)
    BY <1>1, <1>4, <2>1 DEF Begin, Request, TryLock, Refused, Revoke, SnapReleases, Finish,
       GiveUp, CallSuspend, SuspendTrue, SuspendFalse, Record, StartTool, EndTool,
       GiveBack, GiveBackAndFail, ReopenDevice, ResumeDevice, DropRelease
  <2>3. PICK k \in todo[o] : cur' = [cur EXCEPT ![o] = k]
    BY <2>2 DEF NextDevice
  <2>4. k = c[1]
    BY <1>1, <1>2, <2>1, <2>3 DEF OneDevice, RequestTypeOK
  <2>5. at'[o] = "suspend" /\ UNCHANGED snap
    BY <1>1, <2>1, <2>2 DEF NextDevice, Step, RequestTypeOK
  <2>6. Target(o)' = c
    BY <1>1, <1>2, <2>1, <2>3, <2>4, <2>5 DEF Target, RequestTypeOK
  <2>7. QED
    BY <1>3, <2>5, <2>6
<1>5. CASE at[o] \in {"suspend"} \cup HeldSteps /\ Target(o) = c
  <2> USE DEF Step, KeepLocals, HeldSteps
  <2>1. UNCHANGED <<cur, snap>> => Target(o)' = c
    BY <1>5 DEF Target
  <2>2. CASE CallSuspend(o) \/ SuspendTrue(o)
    BY <1>1, <1>3, <2>1, <2>2 DEF CallSuspend, SuspendTrue, RequestTypeOK
  <2>3. CASE StartTool(o) \/ EndTool(o)
    BY <1>1, <1>3, <2>1, <2>3 DEF StartTool, EndTool, RequestTypeOK
  <2>4. CASE SuspendFalse(o)
    BY <1>1, <1>5, <2>4 DEF SuspendFalse, SuspendTimeout, CollectorTypeOK
  <2>5. CASE GiveBack(o) \/ GiveBackAndFail(o)
    BY <1>1, <1>5, <2>5 DEF GiveBack, GiveBackAndFail, Resume, CollectorTypeOK
  <2>6. CASE Record(o)
    <3>1. cur[o] = c[1]
      BY <1>5 DEF Target
    <3>2. releases'[c[1]] # "none"
      BY <1>1, <1>2, <2>6, <3>1 DEF Record, RequestTypeOK, DaemonTypeOK, AllSpecs
    <3>3. QED
      BY <3>2 DEF Ender
  <2>7. QED
    BY <1>5, <2>2, <2>3, <2>4, <2>5, <2>6 DEF Begin, Request, TryLock, Refused, Revoke,
       SnapReleases, NextDevice, Finish, GiveUp, ReopenDevice, ResumeDevice, DropRelease
<1>6. QED
  BY <1>4, <1>5

\* A request leaves the hold of every collector with somebody to end it.
LEMMA RequestHoldsEnd ==
  ASSUME HoldInv, ReleasesLast, NEW o \in Op, Begin(o) \/ Request(o)
  PROVE  HoldsEnd'
<1>1. CollectorTypeOK /\ DaemonTypeOK /\ RequestTypeOK
  BY TypeParts DEF HoldInv
<1>2. UNCHANGED <<collectors, watch, seen>>
  BY RequestKeeps DEF plugVars, watchVars
<1>3. SUFFICES ASSUME NEW c \in Coll, held'[c], c = Live(c[1])
               PROVE  Ender(c)'
  BY <1>2 DEF HoldsEnd, Live
<1>4. CASE ~ held[c]
  <2>1. /\ at'[o] = "poll" /\ UNCHANGED <<snap, cur>>
        /\ held' = [held EXCEPT ![Target(o)] = TRUE]
    BY <1>3, <1>4, <1>1, RequestHeld
  <2>2. Target(o) = c
    BY <1>1, <1>3, <1>4, <2>1 DEF CollectorTypeOK
  <2>3. Target(o)' = c
    BY <2>1, <2>2 DEF Target
  <2>4. QED
    BY <2>1, <2>3 DEF Ender, HeldSteps
<1>5. CASE held[c]
  <2>1. Ender(c)
    BY <1>3, <1>5 DEF HoldInv, HoldsEnd
  <2>2. CASE releases[c[1]] # "none"
    <3>1. CASE releases'[c[1]] # "none"
      BY <3>1 DEF Ender
    <3>2. CASE releases'[c[1]] = "none"
      BY <1>3, <1>5, <2>2, <3>2, ForgottenInHand
    <3>3. QED
      BY <3>1, <3>2
  <2>3. CASE watch = "resume" /\ c[1] \in seen
    BY <1>2, <2>3 DEF Ender
  <2>4. ASSUME NEW p \in Op,
               \/ at[p] \in {"suspend"} \cup HeldSteps /\ Target(p) = c
               \/ /\ OneDevice /\ at[p] = "next" /\ kind[p] = "flash"
                  /\ c[1] \in todo[p] /\ snap[p][c[1]] = c[2]
        PROVE  Ender(c)'
    <3>1. CASE p = o
      BY <1>3, <2>4, <3>1, WorkGoesOn
    <3>2. CASE p # o
      <4>1. /\ at'[p] = at[p] /\ kind'[p] = kind[p] /\ snap'[p] = snap[p]
            /\ todo'[p] = todo[p] /\ cur'[p] = cur[p]
        BY <1>1, <3>2, RequestFrame
      <4>2. Target(p)' = Target(p)
        BY <4>1 DEF Target
      <4>3. QED
        BY <2>4, <4>1, <4>2 DEF Ender
    <3>3. QED
      BY <3>1, <3>2
  <2>5. QED
    BY <2>1, <2>2, <2>3, <2>4 DEF Ender
<1>6. QED
  BY <1>4, <1>5

\* A step of a request keeps the whole.
LEMMA RequestHolding ==
  ASSUME HoldInv, ReleasesLast, NEW o \in Op, Begin(o) \/ Request(o)
  PROVE  HoldInv'
<1>1. CollectorTypeOK /\ DaemonTypeOK /\ RequestTypeOK
  BY TypeParts DEF HoldInv
<1>2. TypeOK' /\ OneRequestAtWork'
  BY NextTypes, StepOneRequest DEF HoldInv, Next
<1>3. \A p \in Op : KindAt(p)' /\ SnapTaken(p)' /\ Freed(p)'
  BY <1>1, RequestKindAt, RequestSnapTaken, RequestFreed DEF HoldInv
<1>4. ASSUME OneRequester, NEW p \in Op
      PROVE  SnapFresh(p)'
  <2>1. p = o
    BY <1>4 DEF OneRequester
  <2>2. QED
    BY <1>1, <1>4, <2>1, RequestSnapFresh DEF HoldInv
<1>5. NoneRecorded' /\ CreatedBefore'
  BY <1>1, RequestNoneRecorded, RequestCreatedBefore DEF HoldInv
<1>6. UNCHANGED <<watch, seen>>
  BY RequestKeeps DEF watchVars
<1>7. QED
  BY <1>2, <1>3, <1>4, <1>5, <1>6, RequestHoldsEnd DEF HoldInv, OneRequester

\* Whoever leaves the requests, the collectors and the holds alone leaves what
\* is said of the requests alone.
LEMMA OthersHolding ==
  ASSUME HoldInv, UNCHANGED opVars, CollectorTypeOK',
         \A c \in Coll : held'[c] => held[c],
         \A k \in Key : \/ collectors'[k] \in {0, collectors[k]}
                        \/ ~ held'[<<k, collectors'[k]>>]
  PROVE  /\ \A o \in Op : KindAt(o)' /\ SnapTaken(o)' /\ Freed(o)'
         /\ OneRequester' => \A o \in Op : SnapFresh(o)'
<1>1. RequestTypeOK /\ DaemonTypeOK
  BY TypeParts DEF HoldInv
<1>2. \A k \in Key : collectors[k] # 0 => <<k, collectors[k]>> \in Coll
  BY <1>1, LiveIsCollector
<1>3. ASSUME NEW o \in Op
      PROVE  KindAt(o)' /\ SnapTaken(o)' /\ Freed(o)'
  <2>1. KindAt(o)' /\ SnapTaken(o)'
    BY DEF HoldInv, opVars, KindAt, SnapTaken, Ahead
  <2>2. Freed(o)'
    BY <1>1, <1>2 DEF HoldInv, opVars, Freed, Live, RequestTypeOK
  <2>3. QED
    BY <2>1, <2>2
<1>4. ASSUME NEW o \in Op, SnapFresh(o)
      PROVE  SnapFresh(o)'
  BY <1>2, <1>4 DEF SnapFresh, Ahead, Live, opVars
<1>5. QED
  BY <1>3, <1>4 DEF HoldInv, OneRequester

\* The watcher creates collectors that nobody holds, and ends the holds whose
\* releases it has dropped.
LEMMA TickHolding ==
  ASSUME HoldInv, Tick
  PROVE  HoldInv'
<1>1. CollectorTypeOK /\ DaemonTypeOK /\ WatchTypeOK /\ CreatedBefore
  BY TypeParts DEF HoldInv
<1>2. TypeOK' /\ OneRequestAtWork' /\ UNCHANGED opVars
  BY TickTypes, StepOneRequest, OthersKeepRequests DEF HoldInv, Next
<1>3. CollectorTypeOK'
  BY <1>2, TypeParts
<1>4. \A c \in Coll : c[1] \in Key /\ c[2] \in Nat \ {0} /\ c = <<c[1], c[2]>>
  OBVIOUS
<1>5. ASSUME \A c \in Coll : held'[c] => held[c],
             \A k \in Key : \/ collectors'[k] \in {0, collectors[k]}
                            \/ ~ held'[<<k, collectors'[k]>>],
             NoneRecorded', CreatedBefore',
             watch' = "resume" => \A j, k \in seen' : j = k,
             HoldsEnd'
      PROVE  HoldInv'
  BY <1>2, <1>3, <1>5, OthersHolding DEF HoldInv
<1>6. CASE Enumerate
  <2>1. /\ watch = "idle" /\ watch' # "resume"
        /\ UNCHANGED <<held, releases, collectors, created>>
    BY <1>6 DEF Enumerate, plugVars, collectorVars, srVars
  <2>2. HoldsEnd'
    <3> SUFFICES ASSUME NEW c \in Coll, held'[c], c = Live(c[1])'
                 PROVE  Ender(c)'
      BY DEF HoldsEnd
    <3>1. Ender(c)
      BY <2>1 DEF HoldInv, HoldsEnd, Live
    <3>2. QED
      BY <1>2, <2>1, <3>1 DEF Ender, Target, opVars
  <2>3. QED
    BY <1>2, <1>5, <2>1, <2>2 DEF HoldInv, NoneRecorded, CreatedBefore, opVars
<1>7. CASE Diff
  <2>1. PICK N \in SUBSET Fresh :
          /\ created' = [k \in Key |-> IF k \in N THEN created[k] + 1 ELSE created[k]]
          /\ collectors' = [k \in Key |-> IF k \in N THEN created[k] + 1
                                         ELSE IF k \in Gone THEN 0 ELSE collectors[k]]
    BY <1>7 DEF Diff
  <2>2. watch = "diff" /\ watch' = "pause" /\ UNCHANGED <<held, releases>>
    BY <1>7 DEF Diff, srVars
  <2>3. CreatedBefore'
    <3>1. \A k \in Key : created[k] <= created'[k] /\ collectors'[k] <= created'[k]
      BY <1>1, <2>1 DEF CreatedBefore, DaemonTypeOK
    <3>2. \A o \in Op, k \in Key : snap'[o][k] <= created'[k]
      <4>1. \A o \in Op, k \in Key : snap[o][k] \in Nat
        BY TypeParts DEF HoldInv, RequestTypeOK
      <4>2. \A k \in Key : created[k] \in Nat /\ created'[k] \in Nat
        BY <1>1, <2>1 DEF DaemonTypeOK
      <4>3. QED
        BY <1>1, <1>2, <3>1, <4>1, <4>2 DEF CreatedBefore, opVars
    <3>3. \A c \in Coll : held'[c] => c[2] <= created'[c[1]]
      <4>1. \A k \in Key : created[k] \in Nat /\ created'[k] \in Nat
        BY <1>1, <2>1 DEF DaemonTypeOK
      <4>2. ASSUME NEW c \in Coll, held'[c]
            PROVE  c[2] <= created'[c[1]]
        <5>1. c[1] \in Key /\ c[2] \in Nat
          BY <1>4
        <5>0. c[2] <= created[c[1]]
          BY <1>1, <2>2, <4>2 DEF CreatedBefore
        <5>2. created[c[1]] <= created'[c[1]]
          BY <3>1, <5>1
        <5>3. created[c[1]] \in Nat /\ created'[c[1]] \in Nat
          BY <4>1, <5>1
        <5>4. QED
          BY <5>0, <5>1, <5>2, <5>3
      <4>3. QED
        BY <4>2
    <3>4. QED
      BY <3>1, <3>2, <3>3 DEF CreatedBefore
  <2>4. ASSUME NEW c \in Coll, held[c], c[2] = collectors'[c[1]]
        PROVE  c[2] = collectors[c[1]]
    <3>1. /\ c[1] \in Key /\ c[2] \in Nat \ {0} /\ c[2] <= created[c[1]]
          /\ created[c[1]] \in Nat
      <4>1. c[1] \in Key /\ c[2] \in Nat \ {0}
        BY <1>4
      <4>2. c[2] <= created[c[1]]
        BY <1>1, <2>4 DEF CreatedBefore
      <4>3. \A k \in Key : created[k] \in Nat
        BY <1>1 DEF DaemonTypeOK
      <4>4. QED
        BY <4>1, <4>2, <4>3
    <3>2. c[1] \notin N
      BY <2>1, <2>4, <3>1
    <3>3. QED
      BY <2>1, <2>4, <3>1, <3>2
  <2>5. \A k \in Key : \/ collectors'[k] \in {0, collectors[k]}
                        \/ ~ held'[<<k, collectors'[k]>>]
    <3> SUFFICES ASSUME NEW k \in Key, collectors'[k] # 0, held[<<k, collectors'[k]>>]
                 PROVE  collectors'[k] = collectors[k]
      BY <2>2
    <3>1. <<k, collectors'[k]>> \in Coll
      <4>1. collectors'[k] \in 0 .. MaxInc
        BY <1>2, TypeParts DEF DaemonTypeOK
      <4>2. QED
        BY <4>1
    <3>2. QED
      BY <2>4, <3>1
  <2>6. HoldsEnd'
    <3> SUFFICES ASSUME NEW c \in Coll, held'[c], c = Live(c[1])'
                 PROVE  Ender(c)'
      BY DEF HoldsEnd
    <3>1. c[2] = collectors'[c[1]]
      BY DEF Live
    <3>2. c = Live(c[1])
      BY <1>4, <2>2, <2>4, <3>1 DEF Live
    <3>3. Ender(c)
      BY <2>2, <3>2 DEF HoldInv, HoldsEnd
    <3>4. QED
      BY <1>2, <2>2, <3>3 DEF Ender, Target, opVars
  <2>7. QED
    BY <1>5, <2>2, <2>3, <2>5, <2>6 DEF HoldInv, NoneRecorded
<1>8. CASE ReloadPause \/ EndTick
  <2>1. /\ watch \in {"pause", "drop"} /\ watch' # "resume"
        /\ UNCHANGED <<held, releases, collectors, created>>
    BY <1>8 DEF ReloadPause, EndTick, plugVars, collectorVars, srVars
  <2>2. HoldsEnd'
    <3> SUFFICES ASSUME NEW c \in Coll, held'[c], c = Live(c[1])'
                 PROVE  Ender(c)'
      BY DEF HoldsEnd
    <3>1. Ender(c)
      BY <2>1 DEF HoldInv, HoldsEnd, Live
    <3>2. QED
      BY <1>2, <2>1, <3>1 DEF Ender, Target, opVars
  <2>3. QED
    BY <1>2, <1>5, <2>1, <2>2 DEF HoldInv, NoneRecorded, CreatedBefore, opVars
<1>9. CASE ScanReleases
  <2>1. /\ watch = "scan" /\ watch' = "drop" /\ UNCHANGED <<held, collectors, created>>
        /\ \A k \in Key : releases'[k] = "none" <=> releases[k] = "none"
    BY <1>1, <1>9 DEF ScanReleases, plugVars, collectorVars, srVars, DaemonTypeOK
  <2>2. HoldsEnd'
    <3> SUFFICES ASSUME NEW c \in Coll, held'[c], c = Live(c[1])'
                 PROVE  Ender(c)'
      BY DEF HoldsEnd
    <3>1. Ender(c)
      BY <2>1 DEF HoldInv, HoldsEnd, Live
    <3>2. QED
      BY <1>2, <1>4, <2>1, <3>1 DEF Ender, Target, opVars
  <2>3. QED
    BY <1>2, <1>5, <2>1, <2>2 DEF HoldInv, NoneRecorded, CreatedBefore, opVars
<1>10. CASE DropOver
  <2>1. PICK k \in done : releases' = [releases EXCEPT ![k] = "none"] /\ seen' = {k}
    BY <1>10 DEF DropOver
  <2>2. watch = "drop" /\ watch' = "resume" /\ UNCHANGED <<held, collectors, created>>
    BY <1>10 DEF DropOver, plugVars, collectorVars, srVars
  <2>3. HoldsEnd'
    <3> SUFFICES ASSUME NEW c \in Coll, held'[c], c = Live(c[1])'
                 PROVE  Ender(c)'
      BY DEF HoldsEnd
    <3>1. Ender(c)
      BY <2>2 DEF HoldInv, HoldsEnd, Live
    <3>2. releases'[c[1]] # "none" \/ c[1] \in seen' \/ releases[c[1]] = "none"
      BY <1>1, <1>4, <2>1 DEF DaemonTypeOK
    <3>3. QED
      BY <1>2, <2>2, <3>1, <3>2 DEF Ender, Target, opVars
  <2>4. NoneRecorded'
    BY <1>1, <2>1 DEF HoldInv, NoneRecorded, DaemonTypeOK
  <2>5. QED
    BY <1>2, <1>5, <2>1, <2>2, <2>3, <2>4 DEF HoldInv, CreatedBefore, opVars
<1>11. CASE ResumeOver
  <2>1. PICK k \in seen : IF collectors[k] # 0 THEN Resume(Live(k)) ELSE UNCHANGED collectorVars
    BY <1>11 DEF ResumeOver
  <2>2. /\ watch = "resume" /\ watch' = "drop" /\ \A j \in seen : j = k
        /\ UNCHANGED <<releases, collectors, created>>
    BY <1>11, <2>1 DEF HoldInv, ResumeOver, plugVars
  <2>3. \A c \in Coll : held'[c] => held[c] /\ (collectors[k] # 0 => c # Live(k))
    BY <1>1, <2>1 DEF Resume, CollectorTypeOK, collectorVars, srVars
  <2>4. HoldsEnd'
    <3> SUFFICES ASSUME NEW c \in Coll, held'[c], c = Live(c[1])'
                 PROVE  Ender(c)'
      BY DEF HoldsEnd
    <3>1. c = Live(c[1]) /\ held[c] /\ c[2] = collectors[c[1]]
      BY <2>2, <2>3 DEF Live
    <3>2. c[1] \notin seen
      BY <1>4, <2>2, <2>3, <3>1
    <3>3. Ender(c)
      BY <3>1 DEF HoldInv, HoldsEnd
    <3>4. QED
      BY <1>2, <2>2, <3>2, <3>3 DEF Ender, Target, opVars
  <2>5. QED
    BY <1>2, <1>5, <2>2, <2>3, <2>4 DEF HoldInv, NoneRecorded, CreatedBefore, opVars
<1>12. QED
  BY <1>6, <1>7, <1>8, <1>9, <1>10, <1>11 DEF Tick

\* A collector holds and frees none.
LEMMA LoopHolding ==
  ASSUME HoldInv, NEW c \in Coll, Loop(c) \/ Disturbance(c)
  PROVE  HoldInv'
<1>1. TypeOK' /\ OneRequestAtWork' /\ UNCHANGED opVars
  BY NextTypes, StepOneRequest, OthersKeepRequests DEF HoldInv, Next
<1>2. UNCHANGED <<held, collectors, created, releases, watch, seen>>
  BY DEF Loop, Disturbance, KeepAllButCollectors, KeepDaemon, plugVars, watchVars,
     CollectorStep, LoopHead, WaitHeldCleared, LeaveLoop, GoRound, BackOff, Sleep, OpenOk,
     OpenFail, PublishOpen, Recheck, ReadTurn, ClosePort, PublishClosed, SilentTurn,
     ReadError, srVars
<1>3. /\ \A o \in Op : KindAt(o)' /\ SnapTaken(o)' /\ Freed(o)'
      /\ OneRequester' => \A o \in Op : SnapFresh(o)'
  BY <1>1, <1>2, OthersHolding, TypeParts
<1>4. HoldsEnd'
  BY <1>1, <1>2 DEF HoldInv, HoldsEnd, Ender, Target, Live, opVars
<1>5. QED
  BY <1>1, <1>2, <1>3, <1>4 DEF HoldInv, NoneRecorded, CreatedBefore, opVars

\* The invariant is inductive.
LEMMA HoldingKept == ReleasesLast /\ HoldInv /\ [Next]_vars => HoldInv'
<1> SUFFICES ASSUME ReleasesLast, HoldInv, [Next]_vars
             PROVE  HoldInv'
  OBVIOUS
<1>1. CASE UNCHANGED vars
  <2>1. TypeOK' /\ OneRequestAtWork'
    BY <1>1, NextTypes, StepOneRequest DEF HoldInv
  <2>2. UNCHANGED <<held, collectors, created, releases, watch, seen, opVars>>
    BY <1>1 DEF vars, collectorVars, srVars, plugVars, watchVars
  <2>3. /\ \A o \in Op : KindAt(o)' /\ SnapTaken(o)' /\ Freed(o)'
        /\ OneRequester' => \A o \in Op : SnapFresh(o)'
    BY <2>1, <2>2, OthersHolding, TypeParts
  <2>4. HoldsEnd'
    BY <2>2 DEF HoldInv, HoldsEnd, Ender, Target, Live, opVars
  <2>5. QED
    BY <2>1, <2>2, <2>3, <2>4 DEF HoldInv, NoneRecorded, CreatedBefore, opVars
<1>2. QED
  BY <1>1, RequestHolding, TickHolding, LoopHolding DEF Next

\* Under ReleasesLast a device the daemon knows is held only while somebody is
\* going to end the hold: for any devices and requests, however they interleave
\* with the watcher, and also when boards are pulled out and come back.
THEOREM HoldsAreEnded ==
  ASSUME ReleasesLast
  PROVE  Spec => []NoOrphanHold
<1>1. HoldInv => NoOrphanHold
  <2> SUFFICES ASSUME HoldInv, NEW k \in Key, collectors[k] # 0, held[Live(k)]
               PROVE  Attended(k)
    BY DEF NoOrphanHold
  <2>1. Live(k) \in Coll
    BY TypeParts, LiveIsCollector DEF HoldInv, Live
  <2>2. Ender(Live(k)) /\ Live(k)[1] = k
    BY <2>1 DEF HoldInv, HoldsEnd, Live
  <2>3. ASSUME NEW o \in Op, at[o] \in {"suspend"} \cup HeldSteps, Target(o) = Live(k)
        PROVE  Attended(k)
    BY <2>3 DEF Target, Live, Attended, Working, HeldSteps
  <2>4. ASSUME NEW o \in Op, at[o] = "next", k \in todo[o]
        PROVE  Attended(k)
    BY <2>4 DEF Attended, Working
  <2>5. QED
    BY <2>2, <2>3, <2>4 DEF Ender, Attended
<1>2. QED
  BY <1>1, InitHolds, HoldingKept, PTL DEF Spec
-----------------------------------------------------------------------------
(* What a request can rely on whatever the releases are, and also when       *)
(* boards are pulled out and come back: the port it holds is quiet, and the  *)
(* hold is taken from it by the watcher's late Resume and by nothing else.   *)

\* Once Suspend has returned true the collector a request works on is not in its
\* read loop while it is held.
Quiet(o) == at[o] \in HeldSteps \ {"poll"} /\ held[Target(o)] => pc[Target(o)] # "reading"
QuietWhileHeld == \A o \in Op : Quiet(o)

\* Until it gives it back itself, a request keeps its collector, and that one stays
\* held: unless tickReleases, which has found a release of the port to be over,
\* resumes the port's collector.
HoldKept ==
    \A o \in Op : at[o] \in HeldSteps /\ held[Target(o)] /\ at'[o] \in HeldSteps =>
        /\ Target(o)' = Target(o)
        /\ \/ held'[Target(o)]
           \/ ResumeOver /\ cur[o] \in seen /\ Target(o) = Live(cur[o])

\* A collector that runs has been created, and one that is worked on exists.
StartedBefore == \A c \in Coll : pc[c] # "none" => c[2] <= created[c[1]]
InHand(o) == at[o] \in HeldSteps => Target(o) \in Coll

QuietInv ==
    /\ TypeOK /\ OneRequestAtWork /\ PublishedInSession /\ StartedBefore
    /\ \A o \in Op : KindAt(o) /\ SnapTaken(o) /\ InHand(o)
    /\ QuietWhileHeld

\* At the start nobody reads and nobody asks.
LEMMA InitQuiet == Init => QuietInv
<1> SUFFICES ASSUME Init
             PROVE  QuietInv
  OBVIOUS
<1>1. HoldInv
  BY InitHolds
<1>2. PublishedInSession /\ StartedBefore
  BY DEF Init, CollectorInit, PublishedInSession, InSession, StartedBefore
<1>3. \A o \in Op : InHand(o) /\ Quiet(o)
  BY DEF Init, InHand, Quiet, HeldSteps
<1>4. QED
  BY <1>1, <1>2, <1>3 DEF HoldInv, QuietInv, QuietWhileHeld

\* The ways on to and between the steps on a held port: CallSuspend holds it,
\* Suspend returns true only when the port is not open, and none of the others
\* touches the hold.
LEMMA RequestStays ==
  ASSUME RequestTypeOK, NEW o \in Op, Begin(o) \/ Request(o), at'[o] \in HeldSteps
  PROVE  /\ UNCHANGED <<snap, cur>>
         /\ \/ at[o] = "suspend" /\ at'[o] = "poll"
            \/ /\ at[o] \in HeldSteps /\ at'[o] # "poll" /\ UNCHANGED held
               /\ at[o] = "poll" => ~ portOpen[Target(o)]
<1> USE DEF RequestTypeOK, Step, KeepLocals, Unlock, HeldSteps
<1>1. CASE Begin(o) \/ TryLock(o) \/ Refused(o)
  BY <1>1 DEF Begin, TryLock, Refused
<1>2. CASE Revoke(o) \/ SnapReleases(o) \/ NextDevice(o) \/ Finish(o) \/ GiveUp(o)
  BY <1>2 DEF Revoke, SnapReleases, NextDevice, Finish, GiveUp
<1>3. CASE CallSuspend(o)
  BY <1>3 DEF CallSuspend
<1>4. CASE SuspendTrue(o)
  BY <1>4 DEF SuspendTrue, SuspendConfirm
<1>5. CASE SuspendFalse(o) \/ Record(o)
  BY <1>5 DEF SuspendFalse, Record
<1>6. CASE StartTool(o)
  BY <1>6 DEF StartTool, SetFlashing, collectorVars, srVars
<1>7. CASE EndTool(o)
  BY <1>7 DEF EndTool, SetFlashing, collectorVars, srVars
<1>8. CASE GiveBack(o) \/ GiveBackAndFail(o) \/ ReopenDevice(o) \/ DropRelease(o)
  BY <1>8 DEF GiveBack, GiveBackAndFail, ReopenDevice, DropRelease
<1>9. CASE ResumeDevice(o)
  <2>1. at' = [at EXCEPT ![o] = "resume2"]
    BY <1>9 DEF ResumeDevice
  <2>2. QED
    BY <2>1
<1> HIDE DEF RequestTypeOK, Step, KeepLocals, Unlock, HeldSteps
<1>10. QED
  BY <1>1, <1>2, <1>3, <1>4, <1>5, <1>6, <1>7, <1>8, <1>9 DEF Request

\* While one request works on a port the others have yet to get opMu, and leave
\* the holds alone.
LEMMA OthersWait ==
  ASSUME RequestTypeOK, OneRequestAtWork, NEW o \in Op, Begin(o) \/ Request(o),
         NEW p \in Op \ {o}, at[p] \in HeldSteps
  PROVE  UNCHANGED held
<1>1. at[o] \in {"idle", "lock"}
  BY DEF OneRequestAtWork, Working, HeldSteps
<1>2. Begin(o) \/ TryLock(o) \/ Refused(o)
  BY <1>1 DEF Request, Revoke, SnapReleases, NextDevice, Finish, GiveUp, CallSuspend,
     SuspendTrue, SuspendFalse, Record, StartTool, EndTool, GiveBack, GiveBackAndFail,
     ReopenDevice, ResumeDevice, DropRelease
<1>3. QED
  BY <1>2 DEF Begin, TryLock, Refused, collectorVars, srVars

\* A request's step: SuspendTrue finds the port not open, and so nobody reads it.
LEMMA RequestQuiet ==
  ASSUME QuietInv, NEW o \in Op, Begin(o) \/ Request(o)
  PROVE  QuietInv'
<1>1. CollectorTypeOK /\ DaemonTypeOK /\ RequestTypeOK
  BY TypeParts DEF QuietInv
<1>2. TypeOK' /\ OneRequestAtWork'
  BY NextTypes, StepOneRequest DEF QuietInv, Next
<1>3. UNCHANGED <<pc, portOpen, created>>
  BY <1>1, RequestCollectors, RequestKeeps DEF plugVars
<1>4. PublishedInSession' /\ StartedBefore'
  BY <1>3 DEF QuietInv, PublishedInSession, StartedBefore
<1>5. \A p \in Op : KindAt(p)' /\ SnapTaken(p)'
  BY <1>1, RequestKindAt, RequestSnapTaken DEF QuietInv
<1>6. ASSUME NEW p \in Op, at'[p] \in HeldSteps
      PROVE  Target(p)' \in Coll /\ Quiet(p)'
  <2>1. CASE p # o
    <3>1. at'[p] = at[p] /\ Target(p)' = Target(p)
      BY <1>1, <2>1, RequestFrame DEF Target
    <3>2. UNCHANGED held
      BY <1>1, <1>6, <2>1, <3>1, OthersWait DEF QuietInv
    <3>3. QED
      BY <1>3, <1>6, <3>1, <3>2 DEF QuietInv, QuietWhileHeld, Quiet, InHand
  <2>2. CASE p = o /\ at[o] = "suspend" /\ at'[o] = "poll"
    <3>1. UNCHANGED <<snap, cur>>
      BY <1>1, <1>6, <2>2, RequestStays
    <3>2. cur[o] \in Key /\ snap[o][cur[o]] \in 0 .. MaxInc
      <4>1. cur[o] \in Key /\ snap[o] \in [Key -> 0 .. MaxInc]
        BY <1>1 DEF RequestTypeOK
      <4>2. QED
        BY <4>1
    <3>3. snap[o][cur[o]] # 0
      BY <2>2, <3>2 DEF QuietInv, SnapTaken, Ahead
    <3>4. Target(o) \in Coll /\ Target(o)' = Target(o)
      BY <3>1, <3>2, <3>3 DEF Target
    <3>5. QED
      BY <2>2, <3>4 DEF Quiet
  <2>3. CASE /\ p = o /\ at[o] \in HeldSteps /\ UNCHANGED <<snap, cur, held>>
             /\ at[o] = "poll" => ~ portOpen[Target(o)]
    <3>1. Target(o)' = Target(o) /\ Target(o) \in Coll
      BY <2>3 DEF QuietInv, InHand, Target
    <3>2. at[o] = "poll" => pc[Target(o)] # "reading"
      BY <2>3, <3>1 DEF QuietInv, PublishedInSession, InSession
    <3>3. QED
      BY <1>3, <2>3, <3>1, <3>2 DEF QuietInv, QuietWhileHeld, Quiet
  <2>4. QED
    BY <1>1, <1>6, <2>1, <2>2, <2>3, RequestStays
<1>7. \A p \in Op : InHand(p)' /\ Quiet(p)'
  BY <1>6 DEF InHand, Quiet
<1>8. QED
  BY <1>2, <1>4, <1>5, <1>7 DEF QuietInv, QuietWhileHeld

\* Whoever leaves the requests alone, holds nothing, and lets no held collector
\* into its read loop, leaves the ports of the requests quiet.
LEMMA OthersQuiet ==
  ASSUME QuietInv, UNCHANGED opVars, \A c \in Coll : held'[c] => held[c],
         \A c \in Coll : pc'[c] = "reading" => pc[c] = "reading" \/ ~ held[c]
  PROVE  \A o \in Op : KindAt(o)' /\ SnapTaken(o)' /\ InHand(o)' /\ Quiet(o)'
<1> SUFFICES ASSUME NEW o \in Op
             PROVE  KindAt(o)' /\ SnapTaken(o)' /\ InHand(o)' /\ Quiet(o)'
  OBVIOUS
<1>1. Target(o)' = Target(o)
  BY DEF Target, opVars
<1>2. KindAt(o)' /\ SnapTaken(o)' /\ InHand(o)'
  BY <1>1 DEF QuietInv, KindAt, SnapTaken, Ahead, InHand, opVars
<1>3. Quiet(o)'
  BY <1>1 DEF QuietInv, QuietWhileHeld, Quiet, InHand, opVars
<1>4. QED
  BY <1>2, <1>3

\* The watcher: a collector it creates is at the top of its loop.
LEMMA TickQuiet ==
  ASSUME QuietInv, Tick
  PROVE  QuietInv'
<1>1. CollectorTypeOK /\ DaemonTypeOK
  BY TypeParts DEF QuietInv
<1>2. TypeOK' /\ OneRequestAtWork' /\ UNCHANGED opVars
  BY TickTypes, StepOneRequest, OthersKeepRequests DEF QuietInv, Next
<1>3. ASSUME PublishedInSession', StartedBefore', \A c \in Coll : held'[c] => held[c],
             \A c \in Coll : pc'[c] = "reading" => pc[c] = "reading"
      PROVE  QuietInv'
  BY <1>2, <1>3, OthersQuiet DEF QuietInv, QuietWhileHeld
<1>4. CASE Diff
  <2>1. PICK N \in SUBSET Fresh :
          /\ created' = [k \in Key |-> IF k \in N THEN created[k] + 1 ELSE created[k]]
          /\ pc' = [c \in Coll |-> IF c[1] \in N /\ c[2] = created[c[1]] + 1
                                   THEN "top" ELSE pc[c]]
    BY <1>4 DEF Diff
  <2>2. UNCHANGED <<held, portOpen>>
    BY <1>4 DEF Diff, srVars
  <2>3. ASSUME NEW c \in Coll
        PROVE  /\ pc'[c] # pc[c] => pc[c] = "none" /\ pc'[c] = "top"
               /\ pc'[c] # "none" => c[2] <= created'[c[1]]
    <3>1. c[1] \in Key /\ c[2] \in Nat
      OBVIOUS
    <3>2. created[c[1]] \in Nat
      <4>1. \A k \in Key : created[k] \in Nat
        BY <1>1 DEF DaemonTypeOK
      <4>2. QED
        BY <3>1, <4>1
    <3>3. pc[c] # "none" => c[2] <= created[c[1]]
      BY DEF QuietInv, StartedBefore
    <3>4. /\ pc'[c] = IF c[1] \in N /\ c[2] = created[c[1]] + 1 THEN "top" ELSE pc[c]
          /\ created'[c[1]] = IF c[1] \in N THEN created[c[1]] + 1 ELSE created[c[1]]
      BY <2>1, <3>1
    <3>5. QED
      BY <3>1, <3>2, <3>3, <3>4
  <2>4. PublishedInSession'
    BY <2>2, <2>3 DEF QuietInv, PublishedInSession, InSession
  <2>5. QED
    BY <1>3, <2>2, <2>3, <2>4 DEF StartedBefore
<1>5. CASE ~ Diff
  <2>1. UNCHANGED <<pc, portOpen, created>> /\ \A c \in Coll : held'[c] => held[c]
    <3>1. CASE Enumerate \/ ScanReleases \/ DropOver \/ EndTick
      BY <3>1 DEF Enumerate, ScanReleases, DropOver, EndTick, plugVars, collectorVars,
         loopVars, srVars
    <3>2. CASE ReloadPause
      BY <3>2 DEF ReloadPause, plugVars, loopVars, srVars
    <3>3. CASE ResumeOver
      BY <1>1, <3>3 DEF ResumeOver, Resume, plugVars, collectorVars, loopVars, srVars,
         CollectorTypeOK
    <3>4. QED
      BY <1>5, <3>1, <3>2, <3>3 DEF Tick
  <2>2. PublishedInSession' /\ StartedBefore'
    BY <2>1 DEF QuietInv, PublishedInSession, StartedBefore
  <2>3. QED
    BY <1>3, <2>1, <2>2
<1>6. QED
  BY <1>4, <1>5

\* A collector that is held does not enter its read loop.
LEMMA LoopQuiet ==
  ASSUME QuietInv, NEW c \in Coll, Loop(c) \/ Disturbance(c)
  PROVE  QuietInv'
<1>1. TypeOK' /\ OneRequestAtWork' /\ UNCHANGED opVars
  BY NextTypes, StepOneRequest, OthersKeepRequests DEF QuietInv, Next
<1>2. CollectorTypeOK /\ PublishedInSession /\ (CollectorStep(c) \/ SilentTurn(c) \/ ReadError(c))
  BY TypeParts DEF QuietInv, Loop, Disturbance
<1>3. /\ UNCHANGED held
      /\ PublishedInSession'
      /\ \A d \in Coll : pc'[d] = "reading" => pc[d] = "reading" \/ ~held[d]
  BY <1>2, StepEffect
<1>4. \A d \in Coll : pc[d] = "none" => pc'[d] = "none"
  BY <1>2 DEF CollectorTypeOK, CollectorStep, LoopHead, WaitHeldCleared, LeaveLoop,
     GoRound, BackOff, Sleep, OpenOk, OpenFail, PublishOpen, Recheck, ReadTurn, ClosePort,
     PublishClosed, SilentTurn, ReadError, Goto, EndSession
<1>5. UNCHANGED created
  BY DEF Loop, Disturbance, KeepAllButCollectors, KeepDaemon, plugVars
<1>6. StartedBefore'
  BY <1>4, <1>5 DEF QuietInv, StartedBefore
<1>7. QED
  BY <1>1, <1>3, <1>6, OthersQuiet DEF QuietInv, QuietWhileHeld

\* The invariant is inductive, without any condition.
LEMMA QuietKept == QuietInv /\ [Next]_vars => QuietInv'
<1> SUFFICES ASSUME QuietInv, [Next]_vars
             PROVE  QuietInv'
  OBVIOUS
<1>1. CASE UNCHANGED vars
  <2>1. TypeOK' /\ OneRequestAtWork'
    BY <1>1, NextTypes, StepOneRequest DEF QuietInv
  <2>2. UNCHANGED <<pc, portOpen, held, created, opVars>>
    BY <1>1 DEF vars, collectorVars, loopVars, srVars, plugVars
  <2>3. PublishedInSession' /\ StartedBefore'
    BY <2>2 DEF QuietInv, PublishedInSession, StartedBefore
  <2>4. QED
    BY <2>1, <2>2, <2>3, OthersQuiet DEF QuietInv, QuietWhileHeld
<1>2. QED
  BY <1>1, RequestQuiet, TickQuiet, LoopQuiet DEF Next

\* Who may end a hold in the middle of a request.
LEMMA StepKeepsHold == QuietInv /\ [Next]_vars => HoldKept
<1> SUFFICES ASSUME QuietInv, [Next]_vars, NEW o \in Op,
                    at[o] \in HeldSteps, held[Target(o)], at'[o] \in HeldSteps
             PROVE  /\ Target(o)' = Target(o)
                    /\ \/ held'[Target(o)]
                       \/ ResumeOver /\ cur[o] \in seen /\ Target(o) = Live(cur[o])
  BY DEF HoldKept
<1>1. CollectorTypeOK /\ RequestTypeOK /\ Target(o) \in Coll
  BY TypeParts DEF QuietInv, InHand
<1>2. ASSUME NEW p \in Op, Begin(p) \/ Request(p)
      PROVE  Target(o)' = Target(o) /\ held'[Target(o)]
  <2>1. CASE p = o
    BY <1>1, <1>2, <2>1, RequestStays DEF Target, HeldSteps
  <2>2. CASE p # o
    <3>1. Target(o)' = Target(o)
      BY <1>1, <1>2, <2>2, RequestFrame DEF Target
    <3>2. UNCHANGED held
      BY <1>1, <1>2, <2>2, OthersWait DEF QuietInv
    <3>3. QED
      BY <3>1, <3>2
  <2>3. QED
    BY <2>1, <2>2
<1>3. ASSUME UNCHANGED opVars
      PROVE  Target(o)' = Target(o)
  BY <1>3 DEF Target, opVars
<1>4. CASE Tick
  <2>1. CASE ResumeOver
    <3>1. PICK k \in seen : IF collectors[k] # 0 THEN Resume(Live(k)) ELSE UNCHANGED collectorVars
      BY <2>1 DEF ResumeOver
    <3>2. held'[Target(o)] \/ Target(o) = Live(k)
      BY <1>1, <3>1 DEF Resume, collectorVars, srVars, CollectorTypeOK
    <3>3. Target(o) = Live(k) => cur[o] = k
      BY DEF Target, Live
    <3>4. QED
      BY <1>3, <1>4, <2>1, <3>2, <3>3, OthersKeepRequests
  <2>2. CASE ~ ResumeOver
    <3>1. UNCHANGED held
      BY <1>4, <2>2 DEF Tick, Enumerate, Diff, ReloadPause, ScanReleases, DropOver, EndTick,
         collectorVars, srVars
    <3>2. QED
      BY <1>3, <1>4, <3>1, OthersKeepRequests
  <2>3. QED
    BY <2>1, <2>2
<1>5. ASSUME NEW c \in Coll, Loop(c) \/ Disturbance(c)
      PROVE  Target(o)' = Target(o) /\ held'[Target(o)]
  <2>1. UNCHANGED held
    BY <1>1, <1>5, StepEffect DEF QuietInv, Loop, Disturbance
  <2>2. QED
    BY <1>3, <1>5, <2>1, OthersKeepRequests
<1>6. CASE UNCHANGED vars
  BY <1>3, <1>6 DEF vars, collectorVars, srVars
<1>7. QED
  BY <1>2, <1>4, <1>5, <1>6 DEF Next

\* Whatever is requested, released, pulled out and plugged in: once Suspend has
\* returned true (collector/suspend.go:38), the collector a request works on does not
\* read while it is held.
THEOREM HeldIsQuiet == Spec => []QuietWhileHeld
<1>1. QuietInv => QuietWhileHeld
  BY DEF QuietInv
<1>2. QED
  BY <1>1, InitQuiet, QuietKept, PTL DEF Spec

\* Whatever is requested, released, pulled out and plugged in: what takes a port
\* from the request that holds it is tickReleases, and only where it has found a
\* release of that port to be over (daemon/flash.go:176).  No other request does,
\* no collector, and no other step of the watcher.
THEOREM OnlyTheWatcherTakesIt == Spec => [][HoldKept]_vars
  BY InitQuiet, QuietKept, StepKeepsHold, PTL DEF Spec
=============================================================================
