---------------------------- MODULE PortHandover ----------------------------
(***************************************************************************)
(* The daemon's handing over of serial ports (internal/daemon): requests   *)
(* (Release, Flash, Board, Reset, Reopen, ResumeAll) run in goroutines of  *)
(* their own and share opMu; the watcher's Tick runs beside them, outside  *)
(* opMu, and creates, removes and resumes collectors.  Every step is one   *)
(* critical section or one call on a collector, so that requests, watcher  *)
(* and collectors interleave as they do in the program.                    *)
(*                                                                         *)
(* Device names never clash here (who gets which name is left out), and a  *)
(* device plugged in again gets a new collector: collector <<k, i>> is     *)
(* the i-th one of device key k.                                           *)
(***************************************************************************)
EXTENDS CollectorLoop

CONSTANTS Key,             \* device keys, numbers in the order of the strings
          MaxInc,          \* bound: collectors created per key
          Op,              \* request goroutines
          NoOp,            \* opMu is free
          Kinds,           \* the requests clients send
          Specs,           \* the release modes clients ask for
          RemoveMissTicks, \* scans without a device before it is removed
          MayMiss,         \* scans may miss devices (pulled out, or a glitch)
          MayPause         \* the PAUSED file changes

AllKinds == {"release", "flash", "board", "reset", "reopen", "resume"}
AllSpecs == {"forever", "timed", "idle"}

ASSUME HandoverAssumption ==
    /\ Key \subseteq Nat /\ Key # {}
    /\ MaxInc \in Nat \ {0}
    /\ NoOp \notin Op
    /\ Kinds \subseteq AllKinds
    /\ Specs \subseteq AllSpecs
    /\ RemoveMissTicks \in Nat \ {0}
    /\ MayMiss \in BOOLEAN /\ MayPause \in BOOLEAN
    /\ Coll = Key \X (1 .. MaxInc)

VARIABLES collectors, \* d.collectors: key -> number of its collector, 0 if none
          created,    \* collectors created so far, per key
          misses,     \* d.misses
          releases,   \* d.releases: key -> "none" or the release's state
          opMu,       \* the holder of opMu
          at, kind,   \* per request: its step and which request it is
          snap,       \* per request: the collectors matches() returned
          todo, cur,  \* per request: keys still to do, the key in hand
          spec,       \* per request: the release mode asked for
          watch,      \* the watcher's step
          seen, done  \* the watcher's locals: keys enumerated, releases over

plugVars  == <<collectors, created, misses>>
opVars    == <<opMu, at, kind, snap, todo, cur, spec>>
watchVars == <<watch, seen, done>>
vars == <<collectorVars, plugVars, releases, opVars, watchVars>>

OpSteps == {"idle", "lock", "revoke", "snap", "next", "suspend", "poll",
            "record", "arm", "tool", "giveBack", "fail", "reopen1", "reopen2",
            "resume1", "resume2"}

TypeOK ==
    /\ CollectorTypeOK
    /\ collectors \in [Key -> 0 .. MaxInc]
    /\ created \in [Key -> 0 .. MaxInc]
    /\ misses \in [Key -> 0 .. RemoveMissTicks - 1]
    /\ releases \in [Key -> {"none", "forever", "timed", "idle", "quiet"}]
    /\ opMu \in Op \cup {NoOp}
    /\ at \in [Op -> OpSteps]
    /\ kind \in [Op -> AllKinds]
    /\ snap \in [Op -> [Key -> 0 .. MaxInc]]
    /\ todo \in [Op -> SUBSET Key]
    /\ cur \in [Op -> Key]
    /\ spec \in [Op -> AllSpecs]
    /\ watch \in {"idle", "diff", "pause", "scan", "drop", "resume"}
    /\ seen \in SUBSET Key
    /\ done \in SUBSET Key

FirstKey == CHOOSE k \in Key : TRUE   \* cur of a request with no device in hand
NoSnap == [k \in Key |-> 0]

\* The daemon after its first scan: every device there has its collector.
Init ==
    /\ CollectorInit({<<k, 1>> : k \in Key})
    /\ collectors = [k \in Key |-> 1]
    /\ created = [k \in Key |-> 1]
    /\ misses = [k \in Key |-> 0]
    /\ releases = [k \in Key |-> "none"]
    /\ opMu = NoOp
    /\ at = [o \in Op |-> "idle"]
    /\ kind = [o \in Op |-> "reopen"]
    /\ snap = [o \in Op |-> NoSnap]
    /\ todo = [o \in Op |-> {}]
    /\ cur = [o \in Op |-> FirstKey]
    /\ spec = [o \in Op |-> "forever"]
    /\ watch = "idle" /\ seen = {} /\ done = {}

Live(k) == <<k, collectors[k]>>            \* the collector the daemon knows
Target(o) == <<cur[o], snap[o][cur[o]]>>   \* the one the request works on
-----------------------------------------------------------------------------
(* Requests.                                                               *)

Step(o, s) == at' = [at EXCEPT ![o] = s]
\* A return without the deferred Unlock.
Unlock_Bug(o) == Step(o, "idle") /\ UNCHANGED opMu
Unlock(o) == opMu' = NoOp /\ Step(o, "idle")

\* The locals of a request that is over (or was refused) are forgotten.
Forget(o) ==
    /\ kind' = [kind EXCEPT ![o] = "reopen"]
    /\ snap' = [snap EXCEPT ![o] = NoSnap]
    /\ todo' = [todo EXCEPT ![o] = {}]
    /\ cur' = [cur EXCEPT ![o] = FirstKey]
    /\ spec' = [spec EXCEPT ![o] = "forever"]

KeepLocals == UNCHANGED <<kind, snap, todo, cur, spec>>
KeepDaemon == UNCHANGED <<plugVars, releases, watchVars>>

\* A request arrives: matches() copies the collectors the pattern selects,
\* before opMu is tried.  ResumeAll selects nothing yet.
Begin(o) ==
    /\ at[o] = "idle"
    /\ \E q \in Kinds, M \in SUBSET {k \in Key : collectors[k] # 0}, s \in Specs :
          /\ IF q = "resume" THEN M = {} ELSE M # {}
          /\ kind' = [kind EXCEPT ![o] = q]
          /\ todo' = [todo EXCEPT ![o] = M]
          /\ snap' = [snap EXCEPT ![o] =
                        [k \in Key |-> IF k \in M THEN collectors[k] ELSE 0]]
          /\ spec' = [spec EXCEPT ![o] = IF q = "release" THEN s ELSE "forever"]
    /\ Step(o, "lock")
    /\ UNCHANGED <<cur, opMu>>
    /\ KeepDaemon /\ UNCHANGED collectorVars

\* opMu.TryLock: taken at once or the request is refused.
TryLock(o) ==
    /\ at[o] = "lock"
    /\ opMu = NoOp
    /\ opMu' = o
    /\ Step(o, CASE kind[o] \in {"flash", "board"} -> "revoke"
                 [] kind[o] = "resume" -> "snap"
                 [] OTHER -> "next")
    /\ KeepLocals /\ KeepDaemon /\ UNCHANGED collectorVars

Refused(o) ==
    /\ at[o] = "lock"
    /\ opMu # NoOp
    /\ Step(o, "idle") /\ Forget(o)
    /\ UNCHANGED opMu /\ KeepDaemon /\ UNCHANGED collectorVars

\* Flash and Board forget the releases of all their devices first.
Revoke(o) ==
    /\ at[o] = "revoke"
    /\ releases' = [k \in Key |-> IF k \in todo[o] THEN "none" ELSE releases[k]]
    /\ Step(o, "next")
    /\ UNCHANGED <<opMu, plugVars, watchVars>> /\ KeepLocals /\ UNCHANGED collectorVars

\* ResumeAll edits the PAUSED file (the watcher will reload it) and copies the
\* keys that have a release, whatever its pattern is.
SnapReleases(o) ==
    /\ at[o] = "snap"
    /\ todo' = [todo EXCEPT ![o] = {k \in Key : releases[k] # "none"}]
    /\ Step(o, "next")
    /\ UNCHANGED <<opMu, kind, snap, cur, spec>> /\ KeepDaemon /\ UNCHANGED collectorVars

\* The next device: in key order, except that ResumeAll walks a map.  Reset
\* forgets that device's release only.
NextDevice(o) ==
    /\ at[o] = "next"
    /\ \E k \in todo[o] :
          /\ kind[o] = "resume" \/ \A j \in todo[o] : k <= j
          /\ cur' = [cur EXCEPT ![o] = k]
          /\ todo' = [todo EXCEPT ![o] = @ \ {k}]
          /\ releases' = IF kind[o] = "reset"
                         THEN [releases EXCEPT ![k] = "none"] ELSE releases
    /\ Step(o, CASE kind[o] = "reopen" -> "reopen1"
                 [] kind[o] = "resume" -> "resume1"
                 [] OTHER -> "suspend")
    /\ UNCHANGED <<opMu, kind, snap, spec, plugVars, watchVars>> /\ UNCHANGED collectorVars

Finish(o) ==
    /\ at[o] = "next"
    /\ todo[o] = {}
    /\ Unlock(o) /\ Forget(o)
    /\ KeepDaemon /\ UNCHANGED collectorVars

\* Board whose plan is refused, or Reset of a device without a USB instance
\* path, gives up before it touches the next port.
GiveUp(o) ==
    /\ at[o] = "next"
    /\ todo[o] # {}
    /\ kind[o] \in {"board", "reset"}
    /\ Unlock(o) /\ Forget(o)
    /\ KeepDaemon /\ UNCHANGED collectorVars

CallSuspend(o) ==
    /\ at[o] = "suspend"
    /\ SuspendBegin(Target(o))
    /\ Step(o, "poll")
    /\ UNCHANGED opMu /\ KeepLocals /\ KeepDaemon

SuspendTrue(o) ==
    /\ at[o] = "poll"
    /\ SuspendConfirm(Target(o))
    /\ Step(o, IF kind[o] = "release" THEN "record" ELSE "arm")
    /\ UNCHANGED opMu /\ KeepLocals /\ KeepDaemon

\* Release skips a device that does not let go, the others give up.
SuspendFalse(o) ==
    /\ at[o] = "poll"
    /\ SuspendTimeout(Target(o))
    /\ IF kind[o] = "release"
       THEN Step(o, "next") /\ KeepLocals /\ UNCHANGED opMu
       ELSE Unlock(o) /\ Forget(o)
    /\ KeepDaemon

Record(o) ==
    /\ at[o] = "record"
    /\ releases' = [releases EXCEPT ![cur[o]] = spec[o]]
    /\ Step(o, "next")
    /\ UNCHANGED <<opMu, plugVars, watchVars>> /\ KeepLocals /\ UNCHANGED collectorVars

\* The external tool is started: esptool (Flash, Board) or pnputil (Reset).
StartTool(o) ==
    /\ at[o] = "arm"
    /\ IF kind[o] = "reset" THEN UNCHANGED collectorVars
                            ELSE SetFlashing(Target(o), TRUE)
    /\ Step(o, "tool")
    /\ UNCHANGED opMu /\ KeepLocals /\ KeepDaemon

\* The tool ends, well or not; a failure ends the request after Resume.
EndTool(o) ==
    /\ at[o] = "tool"
    /\ IF kind[o] = "reset" THEN UNCHANGED collectorVars
                            ELSE SetFlashing(Target(o), FALSE)
    /\ Step(o, "giveBack") \/ Step(o, "fail")
    /\ UNCHANGED opMu /\ KeepLocals /\ KeepDaemon

GiveBack(o) ==
    /\ at[o] = "giveBack"
    /\ Resume(Target(o))
    /\ Step(o, "next")
    /\ UNCHANGED opMu /\ KeepLocals /\ KeepDaemon

\* A tool that failed: the request returns without Resume.
GiveBackAndFail_Bug(o) ==
    /\ at[o] = "fail"
    /\ Unlock(o) /\ Forget(o)
    /\ KeepDaemon /\ UNCHANGED collectorVars

GiveBackAndFail(o) ==
    /\ at[o] = "fail"
    /\ Resume(Target(o))
    /\ Unlock(o) /\ Forget(o)
    /\ KeepDaemon

ReopenDevice(o) ==
    /\ \/ at[o] = "reopen1" /\ ReopenRequest(Target(o)) /\ Step(o, "reopen2")
       \/ at[o] = "reopen2" /\ ReopenClose(Target(o)) /\ Step(o, "next")
    /\ UNCHANGED opMu /\ KeepLocals /\ KeepDaemon

\* ResumeAll resumes the collector the key has now, then drops the release.
ResumeDevice(o) ==
    /\ at[o] = "resume1"
    /\ IF collectors[cur[o]] # 0 THEN Resume(Live(cur[o])) ELSE UNCHANGED collectorVars
    /\ Step(o, "resume2")
    /\ UNCHANGED opMu /\ KeepLocals /\ KeepDaemon

DropRelease(o) ==
    /\ at[o] = "resume2"
    /\ releases' = [releases EXCEPT ![cur[o]] = "none"]
    /\ Step(o, "next")
    /\ UNCHANGED <<opMu, plugVars, watchVars>> /\ KeepLocals /\ UNCHANGED collectorVars

\* What a request does by itself once it has arrived.
Request(o) ==
    \/ TryLock(o) \/ Refused(o) \/ Revoke(o) \/ SnapReleases(o)
    \/ NextDevice(o) \/ Finish(o) \/ GiveUp(o)
    \/ CallSuspend(o) \/ SuspendTrue(o) \/ SuspendFalse(o) \/ Record(o)
    \/ StartTool(o) \/ EndTool(o) \/ GiveBack(o) \/ GiveBackAndFail(o)
    \/ ReopenDevice(o) \/ ResumeDevice(o) \/ DropRelease(o)
-----------------------------------------------------------------------------
(* The watcher: Tick, as its critical sections.                            *)

KeepRequests == UNCHANGED opVars

\* The enumeration before colMu is taken.  A device that is pulled out, and one
\* the enumerator misses, look the same; so do the opens and reads that fail
\* because of it, which a collector may meet at any time.  When the enumeration
\* fails altogether the diff is skipped.
Enumerate ==
    /\ watch = "idle"
    /\ \/ /\ seen' \in (IF MayMiss THEN SUBSET Key ELSE {Key})
          /\ watch' = "diff"
       \/ watch' = "pause" /\ UNCHANGED seen
    /\ UNCHANGED <<done, plugVars, releases>> /\ KeepRequests /\ UNCHANGED collectorVars

\* Devices to remove: not seen for the RemoveMissTicks-th time.
Gone == {k \in Key \ seen : collectors[k] # 0 /\ misses[k] + 1 >= RemoveMissTicks}
\* Devices seen without a collector, as far as the bound on collectors goes.
Fresh == {k \in seen : collectors[k] = 0 /\ created[k] < MaxInc}

\* The diff forgets a removed collector without stopping it.
Diff_Bug ==
    /\ watch = "diff"
    /\ \E N \in SUBSET Fresh :
          /\ created' = [k \in Key |-> IF k \in N THEN created[k] + 1 ELSE created[k]]
          /\ collectors' = [k \in Key |-> IF k \in N THEN created[k] + 1
                                         ELSE IF k \in Gone THEN 0 ELSE collectors[k]]
          /\ pc' = [c \in Coll |-> IF c[1] \in N /\ c[2] = created[c[1]] + 1
                                   THEN "top" ELSE pc[c]]
    /\ misses' = [k \in Key |-> IF k \in seen \cup Gone \/ collectors[k] = 0
                                THEN 0 ELSE misses[k] + 1]
    /\ watch' = "pause" /\ seen' = {}
    /\ UNCHANGED <<done, releases, reason, backoff, nap, srVars, handle, stop,
                   reopenReq, paused>> /\ KeepRequests

\* The diff under colMu.  A log directory that cannot be made leaves its
\* device for the next scan, so that any subset of Fresh may be created.
Diff ==
    /\ watch = "diff"
    /\ \E N \in SUBSET Fresh :
          /\ created' = [k \in Key |-> IF k \in N THEN created[k] + 1 ELSE created[k]]
          /\ collectors' = [k \in Key |-> IF k \in N THEN created[k] + 1
                                         ELSE IF k \in Gone THEN 0 ELSE collectors[k]]
          /\ pc' = [c \in Coll |-> IF c[1] \in N /\ c[2] = created[c[1]] + 1
                                   THEN "top" ELSE pc[c]]
    /\ misses' = [k \in Key |-> IF k \in seen \cup Gone \/ collectors[k] = 0
                                THEN 0 ELSE misses[k] + 1]
    /\ stop' = [c \in Coll |-> stop[c] \/ (c[1] \in Gone /\ c[2] = collectors[c[1]])]
    /\ watch' = "pause" /\ seen' = {}
    /\ UNCHANGED <<done, releases, reason, backoff, nap, srVars, handle,
                   reopenReq, paused>> /\ KeepRequests

\* reloadPause: another set of devices matches the PAUSED list.
ReloadPause ==
    /\ watch = "pause"
    /\ \E P \in (IF MayPause THEN SUBSET Key ELSE {{}}) :
          paused' = [c \in Coll |-> c[1] \in P]
    /\ watch' = "scan"
    /\ UNCHANGED <<seen, done, plugVars, releases, loopVars, srVars, handle, stop,
                   reopenReq>> /\ KeepRequests

\* A scan that knows only the releases with a fixed end.
ScanReleases_Bug ==
    /\ watch = "scan"
    /\ done' \in SUBSET {k \in Key : releases[k] = "timed"}
    /\ watch' = "drop"
    /\ UNCHANGED <<seen, plugVars, releases>> /\ KeepRequests /\ UNCHANGED collectorVars

\* tickReleases under d.mu: a release is over when its device is gone, its
\* time is up, or its port has been quiet long enough.
ScanReleases ==
    /\ watch = "scan"
    /\ \E over \in SUBSET {k \in Key : releases[k] \in {"timed", "quiet"}},
         busy \in SUBSET {k \in Key : releases[k] \in {"idle", "quiet"}} :
          LET orphans == {k \in Key : releases[k] # "none" /\ collectors[k] = 0} IN
          /\ over \cap busy = {}
          /\ done' = over \cup orphans
          /\ releases' = [k \in Key |->
                IF k \in orphans \/ releases[k] \notin {"idle", "quiet"} THEN releases[k]
                ELSE IF k \in busy THEN "idle" ELSE "quiet"]
    /\ watch' = "drop"
    /\ UNCHANGED <<seen, plugVars>> /\ KeepRequests /\ UNCHANGED collectorVars

\* Afterwards, d.mu released, one key at a time: forget the release ...
DropOver ==
    /\ watch = "drop"
    /\ \E k \in done :
          /\ releases' = [releases EXCEPT ![k] = "none"]
          /\ seen' = {k}
    /\ watch' = "resume"
    /\ UNCHANGED <<done, plugVars>> /\ KeepRequests /\ UNCHANGED collectorVars

\* ... then resume the collector the key has by now.
ResumeOver ==
    /\ watch = "resume"
    /\ \E k \in seen :
          /\ IF collectors[k] # 0 THEN Resume(Live(k)) ELSE UNCHANGED collectorVars
          /\ done' = done \ {k}
    /\ seen' = {} /\ watch' = "drop"
    /\ UNCHANGED <<plugVars, releases>> /\ KeepRequests

EndTick ==
    /\ watch = "drop" /\ done = {}
    /\ watch' = "idle"
    /\ UNCHANGED <<seen, done, plugVars, releases>> /\ KeepRequests /\ UNCHANGED collectorVars

Tick == Enumerate \/ Diff \/ ReloadPause \/ ScanReleases \/ DropOver \/ ResumeOver \/ EndTick
-----------------------------------------------------------------------------
(* Collectors.                                                             *)

KeepAllButCollectors == KeepDaemon /\ KeepRequests

Loop(c) == CollectorStep(c) /\ KeepAllButCollectors
Disturbance(c) == (SilentTurn(c) \/ ReadError(c)) /\ KeepAllButCollectors

Next ==
    \/ \E o \in Op : Begin(o) \/ Request(o)
    \/ Tick
    \/ \E c \in Coll : Loop(c) \/ Disturbance(c)

Spec == Init /\ [][Next]_vars

\* The collectors' goroutines run, and reads on a closed handle fail.
LoopFairness == \A c \in Coll :
    /\ WF_vars(Loop(c))
    /\ WF_vars(handle[c] # "open" /\ Disturbance(c))

\* Every other goroutine runs too, Tick is called every poll_ms, a tool ends
\* (esptool by its exit or flash_timeout_s, pnputil by its timeouts), the time
\* of a timed release runs out, a quiet port is found quiet, and an open that
\* can succeed again and again does.
Fairness ==
    /\ \A o \in Op : WF_vars(Request(o))
    /\ WF_vars(Tick)
    /\ \A k \in Key :
          /\ SF_vars(ScanReleases /\ releases[k] = "idle" /\ releases'[k] = "quiet")
          /\ SF_vars(ScanReleases /\ releases[k] \in {"timed", "quiet"} /\ k \in done')
    /\ \A c \in Coll : SF_vars(OpenOk(c) /\ KeepAllButCollectors)

LoopFairSpec == Spec /\ LoopFairness
FairSpec == LoopFairSpec /\ Fairness
-----------------------------------------------------------------------------
(* Safety.                                                                 *)

\* The request that is changing things holds opMu, so that no two of Flash,
\* Board, Release, Reset, Reopen and ResumeAll are ever at work together.
Working(o) == at[o] \notin {"idle", "lock"}
OneRequestAtWork == \A o \in Op : Working(o) => opMu = o

\* The external tool of a request runs on device k.
ToolOn(k) == \E o \in Op : at[o] = "tool" /\ cur[o] = k

\* esptool and the collector never have the same port (cli-reference.md:219).
ToolHasPortAlone == \A c \in Coll : ToolOn(c[1]) => pc[c] # "reading"

\* A device the daemon knows is held only for a reason somebody will end: a
\* request that works on it, a recorded release, or the watcher about to
\* resume it.  A hold without one lasts until the device is pulled (#55).
Attended(k) ==
    \/ releases[k] # "none"
    \/ \E o \in Op : Working(o) /\ (k \in todo[o] \/ (cur[o] = k /\ at[o] # "next"))
    \/ watch = "resume" /\ k \in seen
NoOrphanHold == \A k \in Key :
    collectors[k] # 0 /\ held[Live(k)] => Attended(k)

\* Each port has one user at a time, the collector or a request's tool.
Owner == [k \in Key |->
            IF ToolOn(k) THEN "caller"
            ELSE IF \E c \in Coll : c[1] = k /\ pc[c] = "reading" THEN "collector"
            ELSE "free"]
Ownership == INSTANCE PortOwnership WITH Port <- Key, owner <- Owner
OwnershipSpec == Ownership!Spec

(* Liveness.                                                               *)

\* No request hangs, and none keeps opMu, on whatever path it returns: a tool
\* ends, since those who asked for it on this node take its lines or are given
\* up (FrontEnds).  One that a peer asked for over the mesh may print to a
\* connection that the peer has stopped reading, for ever (mesh/node.go:482);
\* it is not among the requests here.
RequestsEnd == \A o \in Op :
    at[o] # "idle" \/ opMu = o ~> at[o] = "idle" /\ opMu # o

\* A limited release comes to its end unless a client sends another request
\* (a client may renew a release for ever).
LimitedReleaseEnds == \A k \in Key :
    releases[k] # "none" ~> (releases[k] \in {"none", "forever"}
                             \/ \E o \in Op : at[o] = "lock")

\* The goroutine of a collector the daemon has removed ends, even if a request
\* that still has it in its snapshot suspends it meanwhile.
RemovedCollectorEnds == \A c \in Coll :
    (created[c[1]] >= c[2] /\ c # Live(c[1])) ~> pc[c] = "exit"

\* A device that keeps its collector, with no release, no request and no pause
\* left, is collected from again.
CollectionReturns == \A k \in Key :
    <>[]( /\ collectors[k] # 0 /\ releases[k] = "none"
          /\ \A o \in Op : at[o] = "idle"
          /\ \A c \in Coll : ~paused[c] /\ (c = Live(k) => ~stop[c]))
        => []<>(collectors[k] # 0 /\ pc[Live(k)] = "reading")
=============================================================================
