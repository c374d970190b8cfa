---------------------------- MODULE ProxyBridge ----------------------------
(***************************************************************************)
(* The passthrough bridge of one device key: internal/daemon/proxy.go (the *)
(* listeners and their accept loops), internal/collector/proxy.go (the     *)
(* client slot, the pump and the mirror) and removeCollectorLocked.  The   *)
(* collectors are the successive incarnations of the key: a board that is  *)
(* unplugged and plugged in again gets a new one.                          *)
(***************************************************************************)
CONSTANTS
    Coll,    \* collectors of the key, one per time it is plugged in
    Lsn,     \* listeners net.Listen returns
    Conn,    \* client connections
    Caller,  \* goroutines that run proxy start and proxy stop
    None

ASSUME NoneAssumption == None \notin Coll \cup Lsn \cup Conn

VARIABLES
    live,      \* d.collectors[key]
    born,      \* collectors created so far
    stopped,   \* collectors whose Stop was called
    removed,   \* collectors the watcher has removed
    port,      \* the collector's port write entry: "down", "up", or "closing"
               \* once Suspend, Reopen, a pause or Stop asks the session to end
    proxyConn, \* the collector's client slot
    mirror,    \* proxyOut: the connection it loaded and how the write went
    endpoint,  \* d.proxies[key]
    lsn,       \* state of each listener
    serves,    \* the collector its accept loop was started with
    accepted,  \* the connection it accepted and has not attached yet
    conn,      \* server side of each connection
    via,       \* the listener it was dialled at
    gone,      \* connections whose client has closed its end
    pump,      \* the proxyPump goroutine of each connection
    ctl,       \* the proxy operation of each caller and its snapshot
    watch,     \* where the watcher is: removal and Shutdown
    doomed     \* the listener proxyRemove took out and has not closed yet

collVars == <<live, born, stopped, removed>>
portVars == <<port, mirror>>
slotVars == <<proxyConn, conn>>
lsnVars == <<endpoint, lsn, serves>>
netVars == <<accepted, via, gone, pump>>
opVars == <<ctl, watch, doomed>>
vars == <<collVars, portVars, slotVars, lsnVars, netVars, opVars>>

Maybe(S) == S \cup {None}
ConnState == {"new", "dialed", "accepted", "attached", "detached", "closed"}
Idle == [op |-> "idle", coll |-> None]
Quiet == [at |-> "idle", conn |-> None]

TypeOK ==
    /\ live \in Maybe(Coll) /\ endpoint \in Maybe(Lsn) /\ doomed \in Maybe(Lsn)
    /\ born \subseteq Coll /\ stopped \subseteq Coll /\ removed \subseteq Coll
    /\ port \in [Coll -> {"down", "up", "closing"}]
    /\ proxyConn \in [Coll -> Maybe(Conn)]
    /\ mirror \in [Coll -> [at : {"idle", "writing", "failed"}, conn : Maybe(Conn)]]
    /\ lsn \in [Lsn -> {"unused", "open", "closed"}]
    /\ serves \in [Lsn -> Maybe(Coll)]
    /\ accepted \in [Lsn -> Maybe(Conn)]
    /\ conn \in [Conn -> ConnState]
    /\ via \in [Conn -> Maybe(Lsn)]
    /\ gone \subseteq Conn
    /\ pump \in [Conn -> {"none", "reading", "failed", "ended"}]
    /\ ctl \in [Caller -> [op : {"idle", "start", "stop", "stopDetach"}, coll : Maybe(Coll)]]
    /\ watch \in {"idle", "close", "detach", "stopping", "down"}

Init ==
    /\ live = None /\ endpoint = None /\ doomed = None /\ watch = "idle"
    /\ born = {} /\ stopped = {} /\ removed = {} /\ gone = {}
    /\ port = [c \in Coll |-> "down"]
    /\ proxyConn = [c \in Coll |-> None] /\ mirror = [c \in Coll |-> Quiet]
    /\ lsn = [l \in Lsn |-> "unused"]
    /\ serves = [l \in Lsn |-> None] /\ accepted = [l \in Lsn |-> None]
    /\ conn = [x \in Conn |-> "new"] /\ via = [x \in Conn |-> None]
    /\ pump = [x \in Conn |-> "none"]
    /\ ctl = [k \in Caller |-> Idle]

\* colMu is write-held through a removal; proxyMu between the two halves of
\* ProxyStop.
ColMuFree == watch \notin {"close", "detach"}
ProxyMuFree == \A k \in Caller : ctl[k].op # "stopDetach"
-----------------------------------------------------------------------------
(* The client slot.                                                        *)

\* The slot is emptied under the collector's lock; the connection that was in
\* it is closed after the unlock, by CloseDetached.
DetachProxy(c) ==
    LET x == proxyConn[c] IN
    /\ proxyConn' = [proxyConn EXCEPT ![c] = None]
    /\ conn' = IF x = None THEN conn ELSE [conn EXCEPT ![x] = "detached"]

CloseDetached(x) ==
    /\ conn[x] = "detached"
    /\ conn' = [conn EXCEPT ![x] = "closed"]
    /\ UNCHANGED <<proxyConn, collVars, portVars, lsnVars, netVars, opVars>>

\* A client dials; the kernel completes the connection before Accept.
Dial(x, l) ==
    /\ conn[x] = "new" /\ lsn[l] = "open"
    /\ conn' = [conn EXCEPT ![x] = "dialed"]
    /\ via' = [via EXCEPT ![x] = l]
    /\ UNCHANGED <<proxyConn, accepted, gone, pump, collVars, portVars, lsnVars, opVars>>

ClientCloses(x) ==
    /\ conn[x] \notin {"new", "closed"}
    /\ gone' = gone \cup {x}
    /\ UNCHANGED <<slotVars, accepted, via, pump, collVars, portVars, lsnVars, opVars>>

Accept(l, x) ==
    /\ lsn[l] = "open" /\ accepted[l] = None
    /\ conn[x] = "dialed" /\ via[x] = l
    /\ conn' = [conn EXCEPT ![x] = "accepted"]
    /\ accepted' = [accepted EXCEPT ![l] = x]
    /\ UNCHANGED <<proxyConn, via, gone, pump, collVars, portVars, lsnVars, opVars>>

\* The second client takes the slot over.
AttachProxy_Bug(l) ==
    LET x == accepted[l] c == serves[l] IN
    /\ x # None
    /\ accepted' = [accepted EXCEPT ![l] = None]
    /\ proxyConn' = [proxyConn EXCEPT ![c] = x]
    /\ conn' = [conn EXCEPT ![x] = "attached"]
    /\ pump' = [pump EXCEPT ![x] = "reading"]
    /\ UNCHANGED <<via, gone, collVars, portVars, lsnVars, opVars>>

\* The connection that is refused is not closed.
AttachProxy_KeepsRefused(l) ==
    LET x == accepted[l] c == serves[l] IN
    /\ x # None
    /\ accepted' = [accepted EXCEPT ![l] = None]
    /\ IF proxyConn[c] # None THEN UNCHANGED <<slotVars, pump>>
       ELSE /\ proxyConn' = [proxyConn EXCEPT ![c] = x]
            /\ conn' = [conn EXCEPT ![x] = "attached"]
            /\ pump' = [pump EXCEPT ![x] = "reading"]
    /\ UNCHANGED <<via, gone, collVars, portVars, lsnVars, opVars>>

\* The accept loop hands its connection to the collector it was started with,
\* which may be stopped or removed by now; a taken slot refuses it.
AttachProxy(l) ==
    LET x == accepted[l] c == serves[l] IN
    /\ x # None
    /\ accepted' = [accepted EXCEPT ![l] = None]
    /\ IF proxyConn[c] # None
       THEN conn' = [conn EXCEPT ![x] = "closed"] /\ UNCHANGED <<proxyConn, pump>>
       ELSE /\ proxyConn' = [proxyConn EXCEPT ![c] = x]
            /\ conn' = [conn EXCEPT ![x] = "attached"]
            /\ pump' = [pump EXCEPT ![x] = "reading"]
    /\ UNCHANGED <<via, gone, collVars, portVars, lsnVars, opVars>>
-----------------------------------------------------------------------------
(* The two directions.                                                     *)

\* proxyPump meets an error: its connection is closed, the client is gone, or
\* what the client sent cannot be written (no port, or the port is failing).
ReadFails(x) == conn[x] = "closed" \/ x \in gone
PumpTo(x, s) ==
    /\ pump' = [pump EXCEPT ![x] = s]
    /\ UNCHANGED <<accepted, via, gone, collVars, portVars, lsnVars, opVars>>
PumpFails(x) == pump[x] = "reading" /\ PumpTo(x, "failed") /\ UNCHANGED slotVars
\* The pump ends and leaves the slot as it is.
PumpDetach_Bug(x) == pump[x] = "failed" /\ PumpTo(x, "ended") /\ UNCHANGED slotVars
PumpDetach(x) == pump[x] = "failed" /\ PumpTo(x, "ended") /\ DetachProxy(serves[via[x]])

\* proxyOut loads the slot under the lock and writes after it.
Mirror(c, m) == mirror' = [mirror EXCEPT ![c] = m]
MirrorBegin(c) ==
    /\ port[c] # "down" /\ mirror[c].at = "idle" /\ proxyConn[c] # None
    /\ Mirror(c, [at |-> "writing", conn |-> proxyConn[c]])
    /\ UNCHANGED <<port, slotVars, collVars, lsnVars, netVars, opVars>>
MirrorWrites(c) ==
    /\ mirror[c].at = "writing" /\ conn[mirror[c].conn] # "closed"
    /\ Mirror(c, Quiet)
    /\ UNCHANGED <<port, slotVars, collVars, lsnVars, netVars, opVars>>
MirrorFails(c) ==
    /\ mirror[c].at = "writing"
    /\ Mirror(c, [mirror[c] EXCEPT !.at = "failed"])
    /\ UNCHANGED <<port, slotVars, collVars, lsnVars, netVars, opVars>>
MirrorDetach(c) ==
    /\ mirror[c].at = "failed" /\ DetachProxy(c)
    /\ Mirror(c, Quiet)
    /\ UNCHANGED <<port, collVars, lsnVars, netVars, opVars>>

\* collectOnce registers the write entry and withdraws it when the session
\* ends: asked to or by a read error.  Neither touches the slot.
PortTo(c, s) ==
    /\ port' = [port EXCEPT ![c] = s]
    /\ UNCHANGED <<mirror, slotVars, collVars, lsnVars, netVars, opVars>>
PortOpens(c) == c \in born \ stopped /\ port[c] = "down" /\ PortTo(c, "up")
PortCloses(c) == port[c] # "down" /\ mirror[c].at = "idle" /\ PortTo(c, "down")
AskToClose(c) == port[c] = "up" /\ PortTo(c, "closing")
Asked(cs) == [c \in Coll |-> IF c \in cs /\ port[c] = "up" THEN "closing" ELSE port[c]]
-----------------------------------------------------------------------------
(* proxy start and proxy stop.                                             *)

\* matches: the snapshot of the collector both operations begin with.
Matches(k, op) ==
    /\ ctl[k] = Idle /\ ColMuFree /\ live # None
    /\ ctl' = [ctl EXCEPT ![k] = [op |-> op, coll |-> live]]
    /\ UNCHANGED <<watch, doomed, slotVars, collVars, portVars, lsnVars, netVars>>

Done(k) == ctl' = [ctl EXCEPT ![k] = Idle] /\ UNCHANGED <<watch, doomed>>

\* A second listener replaces the first.
ProxyStart_Bug(k) ==
    /\ ctl[k].op = "start" /\ ProxyMuFree
    /\ \E l \in Lsn :
          /\ lsn[l] = "unused"
          /\ endpoint' = l
          /\ lsn' = [lsn EXCEPT ![l] = "open"]
          /\ serves' = [serves EXCEPT ![l] = ctl[k].coll]
    /\ Done(k)
    /\ UNCHANGED <<slotVars, collVars, portVars, netVars>>

\* A listener the key already has is reused.
ProxyStart(k) ==
    /\ ctl[k].op = "start" /\ ProxyMuFree
    /\ IF endpoint # None THEN UNCHANGED lsnVars
       ELSE \E l \in Lsn :
              /\ lsn[l] = "unused"
              /\ endpoint' = l
              /\ lsn' = [lsn EXCEPT ![l] = "open"]
              /\ serves' = [serves EXCEPT ![l] = ctl[k].coll]
    /\ Done(k)
    /\ UNCHANGED <<slotVars, collVars, portVars, netVars>>

StartFails(k) ==
    /\ ctl[k].op = "start" /\ ProxyMuFree /\ endpoint = None
    /\ Done(k)
    /\ UNCHANGED <<slotVars, collVars, portVars, lsnVars, netVars>>

\* Closing a listener resets the connections it has not accepted.
CloseListener(l) ==
    /\ lsn' = [lsn EXCEPT ![l] = "closed"]
    /\ conn' = [x \in Conn |-> IF conn[x] = "dialed" /\ via[x] = l THEN "closed" ELSE conn[x]]

ProxyStop(k) ==
    /\ ctl[k].op = "stop" /\ ProxyMuFree
    /\ IF endpoint = None THEN Done(k) /\ UNCHANGED <<lsnVars, conn>>
       ELSE /\ CloseListener(endpoint) /\ endpoint' = None
            /\ ctl' = [ctl EXCEPT ![k].op = "stopDetach"]
            /\ UNCHANGED <<serves, watch, doomed>>
    /\ UNCHANGED <<proxyConn, collVars, portVars, netVars>>
\* Only the listener is closed.
StopDetach_Bug(k) ==
    /\ ctl[k].op = "stopDetach" /\ Done(k)
    /\ UNCHANGED <<slotVars, collVars, portVars, lsnVars, netVars>>
StopDetach(k) ==
    /\ ctl[k].op = "stopDetach" /\ DetachProxy(ctl[k].coll)
    /\ Done(k)
    /\ UNCHANGED <<collVars, portVars, lsnVars, netVars>>
-----------------------------------------------------------------------------
(* The watcher: Tick adds and removes the device; Shutdown ends it all.    *)

PlugIn(c) ==
    /\ watch = "idle" /\ live = None /\ c \notin born
    /\ live' = c /\ born' = born \cup {c}
    /\ UNCHANGED <<stopped, removed, portVars, slotVars, lsnVars, netVars, opVars>>

\* removeCollectorLocked: Stop and the map's half of proxyRemove, the
\* listener's Close after proxyMu, DetachProxy and the removal itself.
Unplug ==
    /\ watch = "idle" /\ live # None /\ ProxyMuFree
    /\ stopped' = stopped \cup {live}
    /\ port' = Asked({live})
    /\ doomed' = endpoint /\ endpoint' = None /\ watch' = "close"
    /\ UNCHANGED <<live, born, removed, mirror, slotVars, lsn, serves, netVars, ctl>>
UnplugCloses ==
    /\ watch = "close"
    /\ IF doomed = None THEN UNCHANGED <<lsn, conn>> ELSE CloseListener(doomed)
    /\ doomed' = None /\ watch' = "detach"
    /\ UNCHANGED <<proxyConn, endpoint, serves, ctl, collVars, portVars, netVars>>
UnplugDetaches ==
    /\ watch = "detach" /\ DetachProxy(live)
    /\ live' = None /\ removed' = removed \cup {live} /\ watch' = "idle"
    /\ UNCHANGED <<born, stopped, doomed, ctl, portVars, lsnVars, netVars>>

\* proxyCloseAll, then Stop of every collector: sessions are left to the exit.
CloseAll ==
    /\ watch = "idle" /\ ProxyMuFree /\ watch' = "stopping"
    /\ IF endpoint = None THEN UNCHANGED <<lsn, conn>> ELSE CloseListener(endpoint)
    /\ endpoint' = None
    /\ UNCHANGED <<proxyConn, serves, doomed, ctl, collVars, portVars, netVars>>
StopAll ==
    /\ watch = "stopping" /\ watch' = "down"
    /\ stopped' = stopped \cup ({live} \ {None})
    /\ port' = Asked({live})
    /\ UNCHANGED <<live, born, removed, mirror, slotVars, lsnVars, netVars, doomed, ctl>>
-----------------------------------------------------------------------------
OpStep(k) == ProxyStart(k) \/ StartFails(k) \/ ProxyStop(k) \/ StopDetach(k)
WatchStep == UnplugCloses \/ UnplugDetaches \/ StopAll
MirrorStep(c) == MirrorWrites(c) \/ MirrorFails(c) \/ MirrorDetach(c)
ConnStep(x) == (ReadFails(x) /\ PumpFails(x)) \/ PumpDetach(x) \/ CloseDetached(x)

Next ==
    \/ \E x \in Conn : ClientCloses(x) \/ PumpFails(x) \/ PumpDetach(x) \/ CloseDetached(x)
    \/ \E x \in Conn, l \in Lsn : Dial(x, l) \/ Accept(l, x)
    \/ \E l \in Lsn : AttachProxy(l)
    \/ \E c \in Coll : MirrorBegin(c) \/ MirrorStep(c)
    \/ \E c \in Coll : PortOpens(c) \/ PortCloses(c) \/ AskToClose(c) \/ PlugIn(c)
    \/ \E k \in Caller : Matches(k, "start") \/ Matches(k, "stop") \/ OpStep(k)
    \/ Unplug \/ WatchStep \/ CloseAll

Spec == Init /\ [][Next]_vars

\* Every goroutine that is not blocked runs on: Accept returns a pending
\* connection, a Read of a closed connection fails, a mirrored write ends
\* within 200 ms and a port session that is asked to end does.  Nothing is
\* assumed of the clients, of the port or of what the user asks for.
Fairness ==
    /\ \A x \in Conn : WF_vars(ConnStep(x))
    /\ \A l \in Lsn : WF_vars(AttachProxy(l)) /\ WF_vars(\E x \in Conn : Accept(l, x))
    /\ \A c \in Coll : WF_vars(MirrorStep(c)) /\ WF_vars(port[c] = "closing" /\ PortCloses(c))
    /\ \A k \in Caller : WF_vars(OpStep(k))
    /\ WF_vars(WatchStep)

FairSpec == Spec /\ Fairness
-----------------------------------------------------------------------------
(* Safety.                                                                 *)

\* One client at a time: a connection whose pump runs is in its collector's
\* slot or has been taken out of it, so that no connection that nobody would
\* ever close again writes to the port beside the current client.
NoOrphanConn == \A x \in Conn :
    pump[x] = "reading" /\ conn[x] \notin {"detached", "closed"}
        => proxyConn[serves[via[x]]] = x

\* What sits in a slot is open: a connection that was closed on this side
\* would stand for a client in status and have every other one refused.
NoDeadSession == \A c \in Coll, x \in Conn :
    proxyConn[c] = x => conn[x] = "attached"

\* One client at a time, and a live one, whatever detaches whom when.
OneClient == NoOrphanConn /\ NoDeadSession

\* The endpoint that status and a second proxy start report is listening.
EndpointListens == endpoint # None => lsn[endpoint] = "open"

\* Whatever starts, stops and removals overlap, a key never has a second
\* listener that nobody would close.
OneListener == \A l \in Lsn : lsn[l] = "open" => l \in {endpoint, doomed}
-----------------------------------------------------------------------------
(* Liveness.                                                               *)

\* A client that has gone frees the slot for the next one.
GoneClientFreesSlot == \A c \in Coll, x \in Conn :
    proxyConn[c] = x /\ x \in gone ~> proxyConn[c] # x

\* Who dials an endpoint is connected to the board or turned away.
DialIsAnswered == \A x \in Conn :
    conn[x] = "dialed" ~> conn[x] \notin {"dialed", "accepted"}

\* proxy stop hangs up on the client it finds.
StopHangsUp == \A k \in Caller, x \in Conn :
    ctl[k].op = "stopDetach" /\ proxyConn[ctl[k].coll] = x ~> conn[x] = "closed"
=============================================================================
