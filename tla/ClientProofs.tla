---------------------------- MODULE ClientProofs ----------------------------
(***************************************************************************)
(* Proofs about what the daemon's clients meet: programs at an endpoint of *)
(* the passthrough bridge, for any number of collectors, listeners,        *)
(* clients and callers; commands at the control socket and viewers of the  *)
(* web panel, for any number of them, attempts, tasks and room; and logs   *)
(* that are followed, for any number of files, lines and frames.           *)
(***************************************************************************)
EXTENDS ProxyBridge, FrontEnds, LiveTail, TLAPS

-----------------------------------------------------------------------------
(* The bridge. *)

\* Closing a listener changes states only.
LEMMA ClosingKeepsTypes ==
    ASSUME TypeOK, NEW l \in Lsn, CloseListener(l)
    PROVE  lsn' \in [Lsn -> {"unused", "open", "closed"}] /\ conn' \in [Conn -> ConnState]
BY DEF TypeOK, CloseListener, ConnState

\* Detaching empties a slot and may change a state.
LEMMA DetachingKeepsTypes ==
    ASSUME TypeOK, NEW c, DetachProxy(c)
    PROVE  proxyConn' \in [Coll -> Maybe(Conn)] /\ conn' \in [Conn -> ConnState]
BY DEF TypeOK, DetachProxy, ConnState, Maybe

\* While the watcher holds colMu for a removal it has a collector to remove.
RemovalInv == ColMuFree \/ live # None

\* Both hold together: the removal adds a collector to a set of collectors.
LEMMA Typed == Spec => [](TypeOK /\ RemovalInv)
<1>1. Init => TypeOK /\ RemovalInv
  BY DEF Init, TypeOK, RemovalInv, ColMuFree, Maybe, ConnState, Idle, Quiet
<1>2. TypeOK /\ RemovalInv /\ [Next]_vars => RemovalInv'
  <2> SUFFICES ASSUME RemovalInv, [Next]_vars PROVE RemovalInv'
    OBVIOUS
  <2>1. ASSUME UNCHANGED <<live, watch>> PROVE RemovalInv'
    BY <2>1 DEF RemovalInv, ColMuFree
  <2>2. ASSUME NEW x \in Conn,
               ClientCloses(x) \/ PumpFails(x) \/ PumpDetach(x) \/ CloseDetached(x)
        PROVE  RemovalInv'
    BY <2>1, <2>2 DEF ClientCloses, PumpFails, PumpDetach, PumpTo, CloseDetached, collVars, opVars
  <2>3. ASSUME NEW x \in Conn, NEW l \in Lsn, Dial(x, l) \/ Accept(l, x)
        PROVE  RemovalInv'
    BY <2>1, <2>3 DEF Dial, Accept, collVars, opVars
  <2>4. ASSUME NEW l \in Lsn, AttachProxy(l) PROVE RemovalInv'
    BY <2>1, <2>4 DEF AttachProxy, collVars, opVars
  <2>5. ASSUME NEW c \in Coll, MirrorBegin(c) \/ MirrorStep(c) PROVE RemovalInv'
    BY <2>1, <2>5 DEF MirrorBegin, MirrorStep, MirrorWrites, MirrorFails, MirrorDetach, collVars, opVars
  <2>6. ASSUME NEW c \in Coll, PortOpens(c) \/ PortCloses(c) \/ AskToClose(c) PROVE RemovalInv'
    BY <2>1, <2>6 DEF PortOpens, PortCloses, AskToClose, PortTo, collVars, opVars
  <2>7. ASSUME NEW k \in Caller, Matches(k, "start") \/ Matches(k, "stop") \/ OpStep(k)
        PROVE  RemovalInv'
    BY <2>1, <2>7 DEF Matches, OpStep, ProxyStart, StartFails, ProxyStop, StopDetach, Done, collVars, opVars
  <2>8. ASSUME NEW c \in Coll, PlugIn(c) PROVE RemovalInv'
    BY <2>8 DEF PlugIn, RemovalInv, ColMuFree, opVars
  <2>9. CASE Unplug \/ WatchStep \/ CloseAll
    BY <2>9 DEF Unplug, WatchStep, UnplugCloses, UnplugDetaches, StopAll, CloseAll, RemovalInv,
       ColMuFree, collVars
  <2>10. CASE UNCHANGED vars
    BY <2>1, <2>10 DEF vars, collVars, opVars
  <2>11. QED
    BY <2>2, <2>3, <2>4, <2>5, <2>6, <2>7, <2>8, <2>9, <2>10 DEF Next
<1>3. TypeOK /\ RemovalInv /\ [Next]_vars => TypeOK'
  <2> SUFFICES ASSUME TypeOK, RemovalInv, [Next]_vars PROVE TypeOK'
    OBVIOUS
  <2> USE DEF TypeOK, Maybe, ConnState, collVars, portVars, slotVars, lsnVars, netVars, opVars
  <2>1. ASSUME NEW x \in Conn, ClientCloses(x) PROVE TypeOK'
    BY <2>1 DEF ClientCloses
  <2>2. ASSUME NEW x \in Conn, PumpFails(x) PROVE TypeOK'
    BY <2>2 DEF PumpFails, PumpTo
  <2>3. ASSUME NEW x \in Conn, PumpDetach(x) PROVE TypeOK'
    BY <2>3 DEF PumpDetach, PumpTo, DetachProxy
  <2>4. ASSUME NEW x \in Conn, CloseDetached(x) PROVE TypeOK'
    BY <2>4 DEF CloseDetached
  <2>5. ASSUME NEW x \in Conn, NEW l \in Lsn, Dial(x, l) PROVE TypeOK'
    BY <2>5 DEF Dial
  <2>6. ASSUME NEW x \in Conn, NEW l \in Lsn, Accept(l, x) PROVE TypeOK'
    BY <2>6 DEF Accept
  <2>7. ASSUME NEW l \in Lsn, AttachProxy(l) PROVE TypeOK'
    BY <2>7 DEF AttachProxy
  <2>8. ASSUME NEW c \in Coll, MirrorBegin(c) PROVE TypeOK'
    BY <2>8, SMTT(30) DEF MirrorBegin, Mirror
  <2>9. ASSUME NEW c \in Coll, MirrorStep(c) PROVE TypeOK'
    <3>1. CASE MirrorWrites(c)
      BY <3>1 DEF MirrorWrites, Mirror, Quiet
    <3>2. CASE MirrorFails(c)
      <4>1. [mirror[c] EXCEPT !.at = "failed"]
                \in [at : {"idle", "writing", "failed"}, conn : Conn \cup {None}]
        OBVIOUS
      <4>2. QED
        BY <3>2, <4>1 DEF MirrorFails, Mirror
    <3>3. CASE MirrorDetach(c)
      BY <3>3 DEF MirrorDetach, Mirror, Quiet, DetachProxy
    <3>4. QED
      BY <2>9, <3>1, <3>2, <3>3 DEF MirrorStep
  <2>10. ASSUME NEW c \in Coll, PortOpens(c) \/ PortCloses(c) \/ AskToClose(c) PROVE TypeOK'
    BY <2>10 DEF PortOpens, PortCloses, AskToClose, PortTo
  <2>11. ASSUME NEW c \in Coll, PlugIn(c) PROVE TypeOK'
    BY <2>11 DEF PlugIn
  <2>12. ASSUME NEW k \in Caller, Matches(k, "start") \/ Matches(k, "stop") PROVE TypeOK'
    BY <2>12 DEF Matches
  <2>13. ASSUME NEW k \in Caller, OpStep(k) PROVE TypeOK'
    <3>1. CASE ProxyStart(k)
      <4>1. ctl' \in [Caller -> [op : {"idle", "start", "stop", "stopDetach"},
                                 coll : Coll \cup {None}]]
        BY <3>1 DEF ProxyStart, Done, Idle
      <4>2. CASE endpoint # None
        BY <3>1, <4>1, <4>2 DEF ProxyStart, Done
      <4>3. CASE endpoint = None
        <5>1. PICK l \in Lsn : /\ endpoint' = l /\ lsn' = [lsn EXCEPT ![l] = "open"]
                               /\ serves' = [serves EXCEPT ![l] = ctl[k].coll]
          BY <3>1, <4>3 DEF ProxyStart
        <5>2. ctl[k].coll \in Coll \cup {None}
          OBVIOUS
        <5>3. /\ endpoint' \in Lsn \cup {None} /\ lsn' \in [Lsn -> {"unused", "open", "closed"}]
              /\ serves' \in [Lsn -> Coll \cup {None}]
          BY <5>1, <5>2
        <5>4. UNCHANGED <<watch, doomed, slotVars, collVars, portVars, netVars>>
          BY <3>1 DEF ProxyStart, Done
        <5>5. QED
          BY <4>1, <5>3, <5>4
      <4>4. QED
        BY <4>2, <4>3
    <3>2. CASE StartFails(k)
      BY <3>2 DEF StartFails, Done, Idle
    <3>3. CASE ProxyStop(k)
      <4>1. CASE endpoint = None
        BY <3>3, <4>1 DEF ProxyStop, Done, Idle
      <4>2. CASE endpoint # None
        <5>1. [ctl[k] EXCEPT !.op = "stopDetach"]
                  \in [op : {"idle", "start", "stop", "stopDetach"}, coll : Coll \cup {None}]
          OBVIOUS
        <5>2. ctl' \in [Caller -> [op : {"idle", "start", "stop", "stopDetach"},
                                   coll : Coll \cup {None}]]
          BY <3>3, <4>2, <5>1 DEF ProxyStop
        <5>3. QED
          BY <3>3, <4>2, <5>2, ClosingKeepsTypes DEF ProxyStop
      <4>3. QED
        BY <4>1, <4>2
    <3>4. CASE StopDetach(k)
      BY <3>4 DEF StopDetach, DetachProxy, Done, Idle
    <3>5. QED
      BY <2>13, <3>1, <3>2, <3>3, <3>4 DEF OpStep
  <2>14. CASE Unplug
    BY <2>14 DEF Unplug, Asked
  <2>15. CASE WatchStep
    <3>1. CASE UnplugCloses
      BY <3>1, ClosingKeepsTypes DEF UnplugCloses
    <3>2. CASE UnplugDetaches
      <4>1. proxyConn' \in [Coll -> Conn \cup {None}] /\ conn' \in [Conn -> ConnState]
        BY <3>2, DetachingKeepsTypes DEF UnplugDetaches
      <4>2. removed' \subseteq Coll
        BY <3>2 DEF UnplugDetaches, RemovalInv, ColMuFree
      <4>3. QED
        BY <3>2, <4>1, <4>2 DEF UnplugDetaches
    <3>3. CASE StopAll
      BY <3>3 DEF StopAll, Asked
    <3>4. QED
      BY <2>15, <3>1, <3>2, <3>3 DEF WatchStep
  <2>16. CASE CloseAll
    BY <2>16 DEF CloseAll, CloseListener
  <2>17. CASE UNCHANGED vars
    BY <2>17 DEF vars
  <2>18. QED
    BY <2>1, <2>2, <2>3, <2>4, <2>5, <2>6, <2>7, <2>8, <2>9, <2>10, <2>11, <2>12,
       <2>13, <2>14, <2>15, <2>16, <2>17 DEF Next
<1>4. QED
  BY <1>1, <1>2, <1>3, PTL DEF Spec

\* The variables keep their types.
THEOREM TypeCorrect == Spec => []TypeOK
BY Typed, PTL
-----------------------------------------------------------------------------
(* Listeners. *)

\* A listener on its way out is not the endpoint, and is open until proxyRemove
\* closes it.
DoomedInv == doomed # None =>
    watch = "close" /\ lsn[doomed] = "open" /\ doomed # endpoint

ListenerInv == EndpointListens /\ OneListener /\ DoomedInv

\* Steps that leave the listeners and the watcher alone.
LEMMA ListenerFrame ==
    ASSUME ListenerInv, UNCHANGED <<lsn, endpoint, doomed, watch>>
    PROVE  ListenerInv'
BY DEF ListenerInv, EndpointListens, OneListener, DoomedInv

\* The three parts of ListenerInv are inductive together.
LEMMA Listeners == Spec => []ListenerInv
<1>1. Init => ListenerInv
  BY DEF Init, ListenerInv, EndpointListens, OneListener, DoomedInv
<1>2. TypeOK /\ RemovalInv /\ ListenerInv /\ [Next]_vars => ListenerInv'
  <2> SUFFICES ASSUME TypeOK, RemovalInv, ListenerInv, [Next]_vars PROVE ListenerInv'
    OBVIOUS
  <2> USE NoneAssumption
  <2> USE DEF collVars, portVars, slotVars, lsnVars, netVars, opVars
  <2>1. ASSUME NEW x \in Conn,
               ClientCloses(x) \/ PumpFails(x) \/ PumpDetach(x) \/ CloseDetached(x)
        PROVE  ListenerInv'
    BY <2>1, ListenerFrame DEF ClientCloses, PumpFails, PumpDetach, PumpTo, CloseDetached
  <2>2. ASSUME NEW x \in Conn, NEW l \in Lsn, Dial(x, l) \/ Accept(l, x)
        PROVE  ListenerInv'
    BY <2>2, ListenerFrame DEF Dial, Accept
  <2>3. ASSUME NEW l \in Lsn, AttachProxy(l) PROVE ListenerInv'
    BY <2>3, ListenerFrame DEF AttachProxy
  <2>4. ASSUME NEW c \in Coll, MirrorBegin(c) \/ MirrorStep(c) PROVE ListenerInv'
    BY <2>4, ListenerFrame DEF MirrorBegin, MirrorStep, MirrorWrites, MirrorFails, MirrorDetach
  <2>5. ASSUME NEW c \in Coll, PortOpens(c) \/ PortCloses(c) \/ AskToClose(c) \/ PlugIn(c)
        PROVE  ListenerInv'
    BY <2>5, ListenerFrame DEF PortOpens, PortCloses, AskToClose, PortTo, PlugIn
  <2>6. ASSUME NEW k \in Caller, Matches(k, "start") \/ Matches(k, "stop") PROVE ListenerInv'
    BY <2>6, ListenerFrame DEF Matches
  <2>7. ASSUME NEW k \in Caller, ProxyStart(k) PROVE ListenerInv'
    BY <2>7 DEF ProxyStart, Done, TypeOK, Maybe, ListenerInv, EndpointListens, OneListener, DoomedInv
  <2>8. ASSUME NEW k \in Caller, StartFails(k) \/ StopDetach(k) PROVE ListenerInv'
    BY <2>8, ListenerFrame DEF StartFails, StopDetach, Done
  <2>9. ASSUME NEW k \in Caller, ProxyStop(k) PROVE ListenerInv'
    BY <2>9 DEF ProxyStop, CloseListener, Done, TypeOK, Maybe, ListenerInv, EndpointListens,
       OneListener, DoomedInv
  <2>10. CASE Unplug
    BY <2>10 DEF Unplug, TypeOK, Maybe, ListenerInv, EndpointListens, OneListener, DoomedInv
  <2>11. CASE UnplugCloses
    BY <2>11 DEF UnplugCloses, CloseListener, TypeOK, Maybe, ListenerInv, EndpointListens,
       OneListener, DoomedInv
  <2>12. CASE UnplugDetaches \/ StopAll
    BY <2>12 DEF UnplugDetaches, StopAll, ListenerInv, EndpointListens, OneListener, DoomedInv
  <2>13. CASE CloseAll
    BY <2>13 DEF CloseAll, CloseListener, TypeOK, Maybe, ListenerInv, EndpointListens,
       OneListener, DoomedInv
  <2>14. CASE UNCHANGED vars
    BY <2>14, ListenerFrame DEF vars
  <2>15. QED
    BY <2>1, <2>2, <2>3, <2>4, <2>5, <2>6, <2>7, <2>8, <2>9, <2>10, <2>11, <2>12, <2>13,
       <2>14 DEF Next, OpStep, WatchStep
<1>3. QED
  BY <1>1, <1>2, Typed, PTL DEF Spec

\* Status and a second proxy start report an endpoint that listens, and every
\* open listener is that endpoint or the one proxyRemove is about to close.
THEOREM EndpointIsTheListener == Spec => [](EndpointListens /\ OneListener)
BY Listeners, PTL DEF ListenerInv
-----------------------------------------------------------------------------
(* Clients. *)

\* An operation under way has a collector; a listener in use too; and what was
\* dialled was dialled at a listener in use.
OriginInv ==
    /\ \A k \in Caller : ctl[k].op # "idle" => ctl[k].coll \in Coll
    /\ \A l \in Lsn : lsn[l] # "unused" => serves[l] \in Coll
    /\ \A x \in Conn : conn[x] # "new" => via[x] \in Lsn /\ lsn[via[x]] # "unused"

\* The slots and the states of the connections say the same.
SlotInv ==
    /\ \A c \in Coll, x \in Conn :
          proxyConn[c] = x => conn[x] = "attached" /\ serves[via[x]] = c
    /\ \A x \in Conn : conn[x] = "attached" => proxyConn[serves[via[x]]] = x

\* Only what was accepted waits to be attached, and only what was attached has a pump.
ConnInv ==
    /\ \A l \in Lsn, x \in Conn : accepted[l] = x => conn[x] = "accepted" /\ via[x] = l
    /\ \A x \in Conn : pump[x] # "none" => conn[x] \in {"attached", "detached", "closed"}

ClientInv == OriginInv /\ SlotInv /\ ConnInv

\* Steps that leave alone what the invariants are about.
LEMMA ClientFrame ==
    ASSUME ClientInv, UNCHANGED <<ctl, lsnVars, slotVars, accepted, via, pump>>
    PROVE  ClientInv'
BY DEF ClientInv, OriginInv, SlotInv, ConnInv, lsnVars, slotVars

\* DetachProxy keeps slots and states in agreement, whoever calls it.
LEMMA DetachKeepsSlots ==
    ASSUME TypeOK, ClientInv, NEW c \in Coll, DetachProxy(c), UNCHANGED <<serves, via>>
    PROVE  /\ SlotInv'
           /\ \A x \in Conn : conn'[x] = conn[x] \/ (conn[x] = "attached" /\ conn'[x] = "detached")
<1>1. CASE proxyConn[c] = None
  BY <1>1, NoneAssumption DEF TypeOK, Maybe, ClientInv, SlotInv, DetachProxy
<1>2. CASE proxyConn[c] # None
  <2>1. PICK y \in Conn : y = proxyConn[c]
    BY <1>2 DEF TypeOK, Maybe
  <2>2. conn' = [conn EXCEPT ![y] = "detached"] /\ conn[y] = "attached"
    BY <1>2, <2>1 DEF DetachProxy, ClientInv, SlotInv
  <2>3. \A x \in Conn : conn'[x] = IF x = y THEN "detached" ELSE conn[x]
    BY <2>2 DEF TypeOK
  <2>4. \A d \in Coll : proxyConn'[d] = IF d = c THEN None ELSE proxyConn[d]
    BY DEF DetachProxy, TypeOK
  <2>5. \A d \in Coll, x \in Conn : proxyConn'[d] = x => conn'[x] = "attached" /\ serves[via[x]] = d
    BY <2>1, <2>3, <2>4, NoneAssumption DEF ClientInv, SlotInv
  <2>6. \A x \in Conn : conn'[x] = "attached" => serves[via[x]] \in Coll
    BY <2>3 DEF ClientInv, OriginInv
  <2>7. \A x \in Conn : conn'[x] = "attached" => proxyConn'[serves[via[x]]] = x
    BY <2>1, <2>3, <2>4, <2>6 DEF ClientInv, SlotInv
  <2>8. QED
    BY <2>2, <2>3, <2>5, <2>7 DEF SlotInv
<1>3. QED
  BY <1>1, <1>2

\* CloseListener turns waiting connections away and nothing else.
LEMMA CloseKeepsClients ==
    ASSUME TypeOK, ClientInv, NEW l \in Lsn, lsn[l] # "unused", CloseListener(l),
           UNCHANGED <<serves, via, proxyConn, accepted, pump>>,
           \A k \in Caller : ctl'[k].op # "idle" => ctl'[k].coll \in Coll
    PROVE  ClientInv'
<1>1. \A m \in Lsn : lsn'[m] # "unused" <=> lsn[m] # "unused"
  BY DEF CloseListener, TypeOK
<1>2. \A x \in Conn : conn'[x] = conn[x] \/ (conn[x] = "dialed" /\ conn'[x] = "closed")
  BY DEF CloseListener
<1>3. OriginInv'
  BY <1>1, <1>2 DEF ClientInv, OriginInv
<1>4. SlotInv'
  BY <1>2 DEF ClientInv, SlotInv
<1>5. ConnInv'
  BY <1>2 DEF ClientInv, ConnInv
<1>6. QED
  BY <1>3, <1>4, <1>5 DEF ClientInv

\* At most one client, always the one in the slot, and never a closed one.
THEOREM OneClientAtATime == Spec => []OneClient
<1>1. Init => ClientInv
  BY NoneAssumption DEF Init, ClientInv, OriginInv, SlotInv, ConnInv, Idle
<1>2. TypeOK /\ RemovalInv /\ ListenerInv /\ ClientInv /\ [Next]_vars => ClientInv'
  <2> SUFFICES ASSUME TypeOK, RemovalInv, ListenerInv, ClientInv, [Next]_vars PROVE ClientInv'
    OBVIOUS
  <2> USE NoneAssumption
  <2> USE DEF collVars, portVars, slotVars, lsnVars, netVars, opVars
  <2>1. ASSUME NEW x \in Conn, ClientCloses(x) PROVE ClientInv'
    BY <2>1, ClientFrame DEF ClientCloses
  <2>2. ASSUME NEW x \in Conn, PumpFails(x) PROVE ClientInv'
    BY <2>2 DEF PumpFails, PumpTo, TypeOK, ClientInv, OriginInv, SlotInv, ConnInv
  <2>3. ASSUME NEW x \in Conn, PumpDetach(x) PROVE ClientInv'
    <3>1. serves[via[x]] \in Coll /\ DetachProxy(serves[via[x]])
      BY <2>3 DEF PumpDetach, ClientInv, OriginInv, ConnInv
    <3>2. UNCHANGED <<serves, via, accepted, ctl, lsn>>
      BY <2>3 DEF PumpDetach, PumpTo
    <3>3. SlotInv' /\ OriginInv'
      BY <3>1, <3>2, DetachKeepsSlots DEF ClientInv, OriginInv
    <3>4. ConnInv'
      BY <2>3, <3>1, <3>2, DetachKeepsSlots DEF PumpDetach, PumpTo, TypeOK, ClientInv, ConnInv
    <3>5. QED
      BY <3>3, <3>4 DEF ClientInv
  <2>4. ASSUME NEW x \in Conn, CloseDetached(x) PROVE ClientInv'
    BY <2>4 DEF CloseDetached, TypeOK, ClientInv, OriginInv, SlotInv, ConnInv
  <2>5. ASSUME NEW x \in Conn, NEW l \in Lsn, Dial(x, l) PROVE ClientInv'
    <3>1. \A y \in Conn : y # x => conn'[y] = conn[y] /\ via'[y] = via[y]
      BY <2>5 DEF Dial, TypeOK
    <3>2. conn[x] = "new" /\ conn'[x] = "dialed" /\ via'[x] = l /\ lsn[l] # "unused"
      BY <2>5 DEF Dial, TypeOK
    <3>3. UNCHANGED <<lsn, serves, ctl, proxyConn, accepted, pump>>
      BY <2>5 DEF Dial
    <3>4. OriginInv'
      BY <3>1, <3>2, <3>3 DEF ClientInv, OriginInv
    <3>5. SlotInv'
      BY <3>1, <3>2, <3>3 DEF ClientInv, SlotInv
    <3>6. ConnInv'
      BY <3>1, <3>2, <3>3 DEF ClientInv, ConnInv
    <3>7. QED
      BY <3>4, <3>5, <3>6 DEF ClientInv
  <2>6. ASSUME NEW x \in Conn, NEW l \in Lsn, Accept(l, x) PROVE ClientInv'
    BY <2>6 DEF Accept, TypeOK, ClientInv, OriginInv, SlotInv, ConnInv
  <2>7. ASSUME NEW l \in Lsn, AttachProxy(l) PROVE ClientInv'
    <3>1. PICK x \in Conn : accepted[l] = x
      BY <2>7 DEF AttachProxy, TypeOK, Maybe
    <3>2. conn[x] = "accepted" /\ via[x] = l /\ serves[l] \in Coll
      BY <3>1 DEF ClientInv, ConnInv, OriginInv
    <3>3. \A y \in Conn : y # x => conn'[y] = conn[y] /\ pump'[y] = pump[y]
      BY <2>7, <3>1 DEF AttachProxy, TypeOK
    <3>4. UNCHANGED <<lsn, serves, ctl, via>>
      BY <2>7 DEF AttachProxy
    <3>5. \A m \in Lsn : accepted'[m] = IF m = l THEN None ELSE accepted[m]
      BY <2>7 DEF AttachProxy, TypeOK
    <3>6. CASE proxyConn[serves[l]] # None
      <4>1. conn'[x] = "closed" /\ UNCHANGED <<proxyConn, pump>>
        BY <2>7, <3>1, <3>6 DEF AttachProxy, TypeOK
      <4>2. OriginInv'
        BY <3>2, <3>3, <3>4, <4>1 DEF ClientInv, OriginInv
      <4>3. SlotInv'
        BY <3>2, <3>3, <3>4, <4>1 DEF ClientInv, SlotInv
      <4>4. ConnInv'
        BY <3>1, <3>2, <3>3, <3>4, <3>5, <4>1 DEF ClientInv, ConnInv
      <4>5. QED
        BY <4>2, <4>3, <4>4 DEF ClientInv
    <3>7. CASE proxyConn[serves[l]] = None
      <4>1. conn'[x] = "attached" /\ pump'[x] = "reading"
        BY <2>7, <3>1, <3>7 DEF AttachProxy, TypeOK
      <4>2. \A d \in Coll : proxyConn'[d] = IF d = serves[l] THEN x ELSE proxyConn[d]
        BY <2>7, <3>1, <3>7 DEF AttachProxy, TypeOK
      <4>3. OriginInv'
        BY <3>2, <3>3, <3>4, <4>1 DEF ClientInv, OriginInv
      <4>4. \A d \in Coll, y \in Conn :
                proxyConn'[d] = y => conn'[y] = "attached" /\ serves[via[y]] = d
        BY <3>2, <3>3, <4>1, <4>2 DEF ClientInv, SlotInv
      <4>5. \A y \in Conn : conn'[y] = "attached" => proxyConn'[serves[via[y]]] = y
        <5>1. TAKE y \in Conn
        <5>2. CASE y = x
          BY <3>2, <4>2, <5>2
        <5>3. CASE y # x
          <6>1. HAVE conn'[y] = "attached"
          <6>2. conn[y] = "attached" /\ serves[via[y]] \in Coll /\ proxyConn[serves[via[y]]] = y
            BY <3>3, <5>3, <6>1 DEF ClientInv, OriginInv, SlotInv
          <6>3. QED
            BY <3>7, <4>2, <6>2
        <5>4. QED
          BY <5>2, <5>3
      <4>6. SlotInv'
        BY <3>4, <4>4, <4>5 DEF SlotInv
      <4>7. ConnInv'
        BY <3>1, <3>2, <3>3, <3>4, <3>5, <4>1 DEF ClientInv, ConnInv
      <4>8. QED
        BY <4>3, <4>6, <4>7 DEF ClientInv
    <3>8. QED
      BY <3>6, <3>7
  <2>8. ASSUME NEW c \in Coll, MirrorBegin(c) \/ MirrorWrites(c) \/ MirrorFails(c)
        PROVE  ClientInv'
    BY <2>8, ClientFrame DEF MirrorBegin, MirrorWrites, MirrorFails
  <2>9. ASSUME NEW c \in Coll, MirrorDetach(c) PROVE ClientInv'
    BY <2>9, DetachKeepsSlots DEF MirrorDetach, ClientInv, OriginInv, ConnInv
  <2>10. ASSUME NEW c \in Coll, PortOpens(c) \/ PortCloses(c) \/ AskToClose(c) \/ PlugIn(c)
         PROVE  ClientInv'
    BY <2>10, ClientFrame DEF PortOpens, PortCloses, AskToClose, PortTo, PlugIn
  <2>11. ASSUME NEW k \in Caller, Matches(k, "start") \/ Matches(k, "stop") PROVE ClientInv'
    BY <2>11 DEF Matches, TypeOK, Maybe, ClientInv, OriginInv, SlotInv, ConnInv
  <2>12. ASSUME NEW k \in Caller, ProxyStart(k) PROVE ClientInv'
    <3>1. \A j \in Caller : ctl'[j].op # "idle" => ctl'[j].coll \in Coll
      BY <2>12 DEF ProxyStart, Done, Idle, TypeOK, ClientInv, OriginInv
    <3>2. UNCHANGED <<conn, proxyConn, via, accepted, pump>>
      BY <2>12 DEF ProxyStart
    <3>3. \A m \in Lsn : \/ lsn'[m] = lsn[m] /\ serves'[m] = serves[m]
                         \/ /\ lsn[m] = "unused" /\ lsn'[m] = "open"
                            /\ serves'[m] = ctl[k].coll /\ ctl[k].coll \in Coll
      BY <2>12 DEF ProxyStart, TypeOK, ClientInv, OriginInv
    <3>4. OriginInv'
      BY <3>1, <3>2, <3>3 DEF ClientInv, OriginInv
    <3>5. \A x \in Conn : conn[x] # "new" => serves'[via[x]] = serves[via[x]]
      BY <3>3 DEF ClientInv, OriginInv
    <3>6. SlotInv'
      BY <3>2, <3>5 DEF ClientInv, SlotInv
    <3>7. ConnInv'
      BY <3>2 DEF ClientInv, ConnInv
    <3>8. QED
      BY <3>4, <3>6, <3>7 DEF ClientInv
  <2>13. ASSUME NEW k \in Caller, StartFails(k) PROVE ClientInv'
    BY <2>13 DEF StartFails, Done, Idle, TypeOK, ClientInv, OriginInv, SlotInv, ConnInv
  <2>14. ASSUME NEW k \in Caller, ProxyStop(k) PROVE ClientInv'
    <3>1. CASE endpoint = None
      BY <2>14, <3>1 DEF ProxyStop, Done, Idle, TypeOK, ClientInv, OriginInv, SlotInv, ConnInv
    <3>2. CASE endpoint # None
      <4>1. endpoint \in Lsn /\ lsn[endpoint] # "unused" /\ CloseListener(endpoint)
        BY <2>14, <3>2 DEF ProxyStop, TypeOK, Maybe, ListenerInv, EndpointListens
      <4>2. \A j \in Caller : ctl'[j].op # "idle" => ctl'[j].coll \in Coll
        BY <2>14, <3>2 DEF ProxyStop, TypeOK, ClientInv, OriginInv
      <4>3. QED
        BY <2>14, <3>2, <4>1, <4>2, CloseKeepsClients DEF ProxyStop
    <3>3. QED
      BY <3>1, <3>2
  <2>15. ASSUME NEW k \in Caller, StopDetach(k) PROVE ClientInv'
    <3>1. ctl[k].coll \in Coll /\ DetachProxy(ctl[k].coll)
      BY <2>15 DEF StopDetach, ClientInv, OriginInv
    <3>2. SlotInv' /\ \A x \in Conn :
              conn'[x] = conn[x] \/ (conn[x] = "attached" /\ conn'[x] = "detached")
      BY <2>15, <3>1, DetachKeepsSlots DEF StopDetach
    <3>3. OriginInv'
      BY <2>15, <3>2 DEF StopDetach, Done, Idle, TypeOK, ClientInv, OriginInv
    <3>4. ConnInv'
      BY <2>15, <3>2 DEF StopDetach, ClientInv, ConnInv
    <3>5. QED
      BY <3>2, <3>3, <3>4 DEF ClientInv
  <2>16. CASE Unplug
    BY <2>16 DEF Unplug, ClientInv, OriginInv, SlotInv, ConnInv
  <2>17. CASE UnplugCloses
    <3>1. CASE doomed = None
      BY <2>17, <3>1, ClientFrame DEF UnplugCloses
    <3>2. CASE doomed # None
      <4>1. doomed \in Lsn /\ lsn[doomed] # "unused" /\ CloseListener(doomed)
        BY <2>17, <3>2 DEF UnplugCloses, TypeOK, Maybe, ListenerInv, DoomedInv
      <4>2. \A j \in Caller : ctl'[j].op # "idle" => ctl'[j].coll \in Coll
        BY <2>17 DEF UnplugCloses, ClientInv, OriginInv
      <4>3. QED
        BY <2>17, <4>1, <4>2, CloseKeepsClients DEF UnplugCloses
    <3>3. QED
      BY <3>1, <3>2
  <2>18. CASE UnplugDetaches
    <3>1. live \in Coll /\ DetachProxy(live)
      BY <2>18 DEF UnplugDetaches, RemovalInv, ColMuFree, TypeOK, Maybe
    <3>2. QED
      BY <2>18, <3>1, DetachKeepsSlots DEF UnplugDetaches, ClientInv, OriginInv, ConnInv
  <2>19. CASE StopAll
    BY <2>19, ClientFrame DEF StopAll
  <2>20. CASE CloseAll
    <3>1. CASE endpoint = None
      BY <2>20, <3>1, ClientFrame DEF CloseAll
    <3>2. CASE endpoint # None
      <4>1. endpoint \in Lsn /\ lsn[endpoint] # "unused" /\ CloseListener(endpoint)
        BY <2>20, <3>2 DEF CloseAll, TypeOK, Maybe, ListenerInv, EndpointListens
      <4>2. \A j \in Caller : ctl'[j].op # "idle" => ctl'[j].coll \in Coll
        BY <2>20 DEF CloseAll, ClientInv, OriginInv
      <4>3. QED
        BY <2>20, <4>1, <4>2, CloseKeepsClients DEF CloseAll
    <3>3. QED
      BY <3>1, <3>2
  <2>21. CASE UNCHANGED vars
    BY <2>21, ClientFrame DEF vars
  <2>22. QED
    BY <2>1, <2>2, <2>3, <2>4, <2>5, <2>6, <2>7, <2>8, <2>9, <2>10, <2>11, <2>12, <2>13,
       <2>14, <2>15, <2>16, <2>17, <2>18, <2>19, <2>20, <2>21
       DEF Next, OpStep, WatchStep, MirrorStep
<1>3. ClientInv => OneClient
  BY DEF ClientInv, SlotInv, ConnInv, OneClient, NoOrphanConn, NoDeadSession
<1>4. QED
  BY <1>1, <1>2, <1>3, Typed, Listeners, PTL DEF Spec

-----------------------------------------------------------------------------
(* The front ends: types. *)

USE FrontAssumption

TryAt  == {"idle", "open", "wait", "ok", "failed"}
CmdAts == {"none", "accepted", "scan", "tool", "call", "far", "gone"} \cup Reply
FarAts == {"none", "asked", "tool", "ok", "fail"}
SockType == [open : BOOLEAN, unread : Seq(Reply), reads : BOOLEAN]
ViewType == [at : {"none", "live", "closed"}, chan : Seq(Event), sub : BOOLEAN, lost : BOOLEAN]
JobType  == [events : Seq(Event), active : BOOLEAN]

\* The types with what keeps them: a command that may dial has not made all its
\* attempts, and nothing is put where there is no room.
CommandTypes ==
    /\ try \in [Client -> [at : TryAt, made : 0 .. Attempts]]
    /\ \A c \in Client : /\ try[c].at = "idle" => try[c].made = 0
                         /\ try[c].at = "wait" => try[c].made < Attempts
    /\ flashed \subseteq Client /\ elsewhere \subseteq Client /\ lost \subseteq Client
    /\ far \in [Client -> FarAts]
ConnTypes ==
    /\ cmd \in [Client -> CmdAts]
    /\ sock \in [Client -> SockType]
    /\ \A c \in Client : Len(sock[c].unread) <= SockCap
    /\ conns \subseteq Client
PanelTypes ==
    /\ task \in [Task -> {"none", "upload", "tool", "far", "end", "over"}]
    /\ job \in JobType /\ Len(job.events) <= HistCap
    /\ view \in [Viewer -> ViewType]
    /\ \A v \in Viewer : Len(view[v].chan) <= ChanCap
DaemonTypes ==
    /\ op \in Client \cup Task \cup {Free}
    /\ exit \in {"up", "web", "closing", "closed"}
FrontTypes == CommandTypes /\ ConnTypes /\ PanelTypes /\ DaemonTypes

\* A bounded sequence is a sequence with that length at most.
LEMMA UpToIsSeq ==
  ASSUME NEW n \in Nat, NEW S, NEW s \in Seq(S), Len(s) <= n
  PROVE  s \in UpTo(n, S)
<1>1. s \in [1 .. Len(s) -> S] /\ Len(s) \in 0 .. n
  OBVIOUS
<1>2. QED
  BY <1>1 DEF UpTo

\* They are the types of the model.
LEMMA FrontTypesImply == FrontTypes => FrontTypeOK
<1> SUFFICES ASSUME FrontTypes
             PROVE  FrontTypeOK
  OBVIOUS
<1>1. \A c \in Client : /\ sock[c].open \in BOOLEAN /\ sock[c].reads \in BOOLEAN
                        /\ sock[c].unread \in UpTo(SockCap, Reply)
  BY UpToIsSeq DEF FrontTypes, ConnTypes, SockType
<1>2. job.events \in UpTo(HistCap, Event) /\ job.active \in BOOLEAN
  BY UpToIsSeq DEF FrontTypes, PanelTypes, JobType
<1>3. \A v \in Viewer : /\ view[v].at \in {"none", "live", "closed"}
                        /\ view[v].chan \in UpTo(ChanCap, Event)
                        /\ view[v].sub \in BOOLEAN /\ view[v].lost \in BOOLEAN
  BY UpToIsSeq DEF FrontTypes, PanelTypes, ViewType
<1>4. QED
  BY <1>1, <1>2, <1>3 DEF FrontTypes, FrontTypeOK, CommandTypes, ConnTypes, PanelTypes,
     DaemonTypes, TryAt, CmdAts, FarAts

\* They hold at the start.
LEMMA InitFrontTypes == FrontInit => FrontTypes
<1> SUFFICES ASSUME FrontInit
             PROVE  FrontTypes
  OBVIOUS
<1>1. NewSock \in SockType /\ NewSock.unread = <<>>
  BY DEF NewSock, SockType
<1>2. NewView \in ViewType /\ NewView.chan = <<>>
  BY DEF NewView, ViewType
<1>3. CommandTypes /\ DaemonTypes
  BY DEF FrontInit, CommandTypes, DaemonTypes, TryAt, FarAts
<1>4. ConnTypes
  BY <1>1 DEF FrontInit, ConnTypes, CmdAts
<1>5. PanelTypes
  BY <1>2 DEF FrontInit, PanelTypes, JobType
<1>6. QED
  BY <1>3, <1>4, <1>5 DEF FrontTypes

\* Closing connections changes nothing but that they are open.
LEMMA ShutTypes ==
  ASSUME NEW S, sock \in [Client -> SockType], sock' = Shut(S)
  PROVE  /\ sock' \in [Client -> SockType]
         /\ \A c \in Client : /\ sock'[c].unread = sock[c].unread
                              /\ sock'[c].reads = sock[c].reads
                              /\ sock'[c].open <=> sock[c].open /\ c \notin S
BY DEF Shut, SockType

\* What an answer makes of a command that has dialled.
LEMMA AnsweredTypes ==
  ASSUME CommandTypes, NEW c \in Client, NEW reply \in Reply, try[c].at = "open",
         try' = Answered(c, reply)
  PROVE  /\ try' \in [Client -> [at : TryAt, made : 0 .. Attempts]]
         /\ \A d \in Client \ {c} : try'[d] = try[d]
         /\ try'[c].made = try[c].made
         /\ try'[c].at \in {"open", "wait", "ok", "failed"}
         /\ try'[c].at = "wait" => reply = "fail" /\ try[c].made < Attempts
<1> DEFINE at2 == CASE reply = "line" -> "open" [] reply = "ok" -> "ok"
                    [] reply = "fail" -> IF try[c].made < Attempts THEN "wait" ELSE "failed"
           r == [try[c] EXCEPT !.at = at2]
<1>1. try[c] \in [at : TryAt, made : 0 .. Attempts]
  BY DEF CommandTypes
<1>2. at2 \in {"open", "wait", "ok", "failed"} /\ (at2 = "wait" => reply = "fail" /\ try[c].made < Attempts)
  BY DEF Reply
<1>3. try' = [try EXCEPT ![c] = r]
  BY DEF Answered, Reply, CommandTypes
<1> HIDE DEF at2
<1>4. r \in [at : TryAt, made : 0 .. Attempts] /\ r.at = at2 /\ r.made = try[c].made
  BY <1>1, <1>2 DEF TryAt
<1> HIDE DEF r
<1>5. QED
  BY <1>2, <1>3, <1>4 DEF CommandTypes

\* What the steps of a flash on another node are.
CallStep(c) ==
    \/ CallFails(c) \/ CallSent(c) \/ FarStarts(c) \/ FarEnds(c)
    \/ FarPrints(c) \/ FarAnswers(c) \/ FarIsLost(c)
\* What the steps of one flash command and its connection are.
ClientStep(c) ==
    \/ DialSocket(c) \/ ClientReads(c) \/ ClientSeesEnd(c) \/ ClientActs(c)
    \/ Register(c) \/ Command(c) \/ ScanEnds(c) \/ Respond(c) \/ WriteTimeout(c)
    \/ ClientToolPrints(c) \/ ClientToolEnds(c)
    \/ CallStep(c)
TaskStep(t) ==
    \/ Occupy(t) \/ Bail(t) \/ TaskStarts(t)
    \/ TaskToolPrints(t) \/ TaskToolEnds(t) \/ TaskFarEnds(t) \/ TaskEnds(t)
ViewStep(v) == Attach(v) \/ Show(v) \/ Leave(v)
WayOut == WebClose \/ CtlClose \/ CtlClosed

\* What the steps of a flash on another node leave alone, and what they change.
LEMMA CallSteps ==
  ASSUME FrontTypes, NEW c \in Client, CallStep(c)
  PROVE  /\ UNCHANGED <<op, try, elsewhere, sock, conns, panelVars, exit>>
         /\ cmd' \in [Client -> CmdAts] /\ far' \in [Client -> FarAts]
         /\ flashed' \subseteq Client /\ lost' \subseteq Client
         /\ cmd'[c] # cmd[c] => /\ cmd[c] \in {"call", "far"}
                                /\ cmd'[c] \in {"far"} \cup Reply
         /\ \A d \in Client \ {c} :
                /\ cmd'[d] = cmd[d] /\ far'[d] = far[d]
                /\ d \in flashed' <=> d \in flashed
                /\ d \in lost' <=> d \in lost
<1> USE DEF FrontTypes, CommandTypes, ConnTypes, cliVars, farVars, CmdAt, FarAt, CmdAts, FarAts, Reply
<1>1. CASE CallFails(c)
  BY <1>1 DEF CallFails
<1>2. CASE CallSent(c)
  BY <1>2 DEF CallSent
<1>3. CASE FarStarts(c)
  BY <1>3 DEF FarStarts
<1>4. CASE FarEnds(c)
  BY <1>4 DEF FarEnds
<1>5. CASE FarPrints(c)
  BY <1>5 DEF FarPrints
<1>6. CASE FarAnswers(c)
  BY <1>6 DEF FarAnswers
<1>7. CASE FarIsLost(c)
  BY <1>7 DEF FarIsLost
<1>8. QED
  BY <1>1, <1>2, <1>3, <1>4, <1>5, <1>6, <1>7 DEF CallStep

\* A connection's variables keep their types.
LEMMA ClientConnTypes ==
  ASSUME FrontTypes, NEW c \in Client, ClientStep(c)
  PROVE  ConnTypes'
<1> USE DEF FrontTypes
<1>1. ConnTypes /\ cmd[c] \in CmdAts /\ sock[c] \in SockType
  BY DEF ConnTypes
<1>2. ASSUME cmd' \in [Client -> CmdAts], conns' \subseteq Client,
             sock' = sock \/ (\E S : sock' = Shut(S))
      PROVE  ConnTypes'
  BY <1>1, <1>2, ShutTypes DEF ConnTypes
<1>3. CASE DialSocket(c)
  <2> DEFINE s == [NewSock EXCEPT !.open = TRUE]
  <2>1. s \in SockType /\ s.unread = <<>> /\ Len(s.unread) <= SockCap
    <3>1. NewSock \in SockType /\ NewSock.unread = <<>>
      BY DEF NewSock, SockType
    <3>2. s \in SockType /\ s.unread = <<>>
      BY <3>1 DEF SockType
    <3>3. QED
      BY <3>2
  <2>2. cmd' \in [Client -> CmdAts] /\ conns' = conns /\ (sock' = sock \/ sock' = [sock EXCEPT ![c] = s])
    BY <1>1, <1>3 DEF DialSocket, CmdAt, CmdAts, ConnTypes
  <2> HIDE DEF s
  <2>3. QED
    BY <1>1, <2>1, <2>2 DEF ConnTypes
<1>4. CASE ClientReads(c)
  <2> DEFINE s == [sock[c] EXCEPT !.unread = Tail(sock[c].unread),
                                  !.open = @ /\ Head(sock[c].unread) = "line"]
  <2>1. sock[c].unread \in Seq(Reply) /\ sock[c].unread # <<>> /\ Len(sock[c].unread) <= SockCap
    BY <1>1, <1>4 DEF ClientReads, SockType, ConnTypes
  <2>2. Tail(sock[c].unread) \in Seq(Reply) /\ Len(Tail(sock[c].unread)) <= SockCap
    BY <2>1
  <2>3. s \in SockType /\ s.unread = Tail(sock[c].unread)
    BY <1>1, <2>2 DEF SockType
  <2>4. cmd' = cmd /\ conns' = conns /\ sock' = [sock EXCEPT ![c] = s]
    BY <1>1, <1>4 DEF ClientReads, ConnTypes, SockType
  <2> HIDE DEF s
  <2>5. QED
    BY <1>1, <2>2, <2>3, <2>4 DEF ConnTypes
<1>5. CASE ClientSeesEnd(c)
  BY <1>1, <1>2, <1>5 DEF ClientSeesEnd, ConnTypes
<1>6. CASE ClientActs(c)
  <2> DEFINE s == [sock[c] EXCEPT !.reads = ~@]
  <2>1. s \in SockType /\ s.unread = sock[c].unread
    BY <1>1 DEF SockType
  <2>2. CASE sock' = [sock EXCEPT ![c].reads = ~@]
    <3>1. sock' = [sock EXCEPT ![c] = s] /\ cmd' = cmd /\ conns' = conns
      BY <1>6, <2>2 DEF ClientActs
    <3> HIDE DEF s
    <3>2. QED
      BY <1>1, <2>1, <3>1 DEF ConnTypes
  <2>3. QED
    BY <1>1, <1>2, <1>6, <2>2 DEF ClientActs, ConnTypes
<1>7. CASE Register(c) \/ Command(c) \/ ScanEnds(c)
  BY <1>1, <1>2, <1>7 DEF Register, Command, ScanEnds, CmdAt, CmdAts, Reply, ConnTypes
<1>8. CASE Respond(c)
  <2> DEFINE s == [sock[c] EXCEPT !.unread = Append(sock[c].unread, cmd[c])]
  <2>1. cmd' \in [Client -> CmdAts] /\ conns' = conns /\ cmd[c] \in Reply
    BY <1>1, <1>8 DEF Respond, Responded, CmdAt, CmdAts, ConnTypes
  <2>2. CASE /\ sock[c].open /\ Len(sock[c].unread) < SockCap
             /\ sock' = [sock EXCEPT ![c].unread = Append(@, cmd[c])]
    <3>1. sock[c].unread \in Seq(Reply)
      BY <1>1 DEF SockType
    <3>2. /\ Append(sock[c].unread, cmd[c]) \in Seq(Reply)
          /\ Len(Append(sock[c].unread, cmd[c])) = Len(sock[c].unread) + 1
      BY <2>1, <3>1
    <3>3. s \in SockType /\ s.unread = Append(sock[c].unread, cmd[c])
      BY <1>1, <3>2 DEF SockType
    <3>4. Len(Append(sock[c].unread, cmd[c])) <= SockCap
      BY <2>2, <3>1, <3>2
    <3>5. sock' = [sock EXCEPT ![c] = s]
      BY <1>1, <2>2 DEF ConnTypes, SockType
    <3> HIDE DEF s
    <3>6. QED
      BY <1>1, <2>1, <3>3, <3>4, <3>5 DEF ConnTypes
  <2>3. CASE sock' = sock
    BY <1>1, <1>2, <2>1, <2>3 DEF ConnTypes
  <2>4. \/ /\ sock[c].open /\ Len(sock[c].unread) < SockCap
           /\ sock' = [sock EXCEPT ![c].unread = Append(@, cmd[c])]
        \/ sock' = sock
    BY <1>8 DEF Respond
  <2> HIDE DEF s
  <2>5. QED
    BY <2>2, <2>3, <2>4
<1>9. CASE WriteTimeout(c)
  BY <1>1, <1>2, <1>9 DEF WriteTimeout, Responded, CmdAt, CmdAts, ConnTypes
<1>10. CASE ClientToolPrints(c) \/ ClientToolEnds(c)
  BY <1>1, <1>2, <1>10 DEF ClientToolPrints, ClientToolEnds, CmdAt, CmdAts, Reply, ConnTypes
<1>11. CASE CallStep(c)
  <2>1. sock' = sock /\ conns' = conns /\ cmd' \in [Client -> CmdAts]
    BY <1>11, CallSteps
  <2>2. QED
    BY <1>1, <2>1 DEF ConnTypes
<1>12. QED
  BY <1>3, <1>4, <1>5, <1>6, <1>7, <1>8, <1>9, <1>10, <1>11 DEF ClientStep

\* A command's variables keep theirs.
LEMMA ClientCommandTypes ==
  ASSUME FrontTypes, NEW c \in Client, ClientStep(c)
  PROVE  CommandTypes' /\ DaemonTypes' /\ PanelTypes'
<1>1. CommandTypes /\ ConnTypes /\ PanelTypes /\ DaemonTypes
  BY DEF FrontTypes
<1>2. PanelTypes'
  BY <1>1, CallSteps DEF ClientStep, DialSocket, ClientReads, ClientSeesEnd, ClientActs, Register, Command,
     ScanEnds, Respond, WriteTimeout, ClientToolPrints, ClientToolEnds, panelVars, PanelTypes
<1>3. DaemonTypes'
  BY <1>1, CallSteps DEF ClientStep, DialSocket, ClientReads, ClientSeesEnd, ClientActs, Register, Command,
     ScanEnds, Respond, WriteTimeout, ClientToolPrints, ClientToolEnds, Unlocked, DaemonTypes
<1>4. CommandTypes'
  <2>1. CASE DialSocket(c)
    BY <1>1, <2>1 DEF DialSocket, CommandTypes, TryAt, farVars
  <2>2. CASE ClientReads(c)
    <3>1. /\ Head(sock[c].unread) \in Reply /\ try[c].at = "open"
          /\ UNCHANGED <<flashed, elsewhere, far, lost>>
      BY <1>1, <2>2 DEF ClientReads, ConnTypes, SockType, farVars
    <3>2. try' = Answered(c, Head(sock[c].unread))
      BY <2>2 DEF ClientReads
    <3>3. QED
      BY <1>1, <3>1, <3>2, AnsweredTypes DEF CommandTypes
  <2>3. CASE ClientSeesEnd(c) \/ ClientActs(c)
    <3>1. /\ UNCHANGED <<flashed, elsewhere, far, lost>>
          /\ \/ try' = try
             \/ \E end \in {"ok", "failed"} : try' = [try EXCEPT ![c].at = end]
      BY <2>3 DEF ClientSeesEnd, ClientActs, farVars
    <3>2. QED
      BY <1>1, <3>1 DEF CommandTypes, TryAt
  <2>4. CASE Register(c) \/ Command(c) \/ ScanEnds(c) \/ Respond(c) \/ WriteTimeout(c)
    BY <1>1, <2>4 DEF Register, Command, ScanEnds, Respond, WriteTimeout, cliVars, farVars,
       CommandTypes
  <2>5. CASE ClientToolPrints(c) \/ ClientToolEnds(c)
    BY <1>1, <2>5 DEF ClientToolPrints, ClientToolEnds, cliVars, farVars, CommandTypes
  <2>6. CASE CallStep(c)
    BY <1>1, <2>6, CallSteps DEF CommandTypes
  <2>7. QED
    BY <2>1, <2>2, <2>3, <2>4, <2>5, <2>6 DEF ClientStep
<1>5. QED
  BY <1>2, <1>3, <1>4

\* An event is taken by a channel with room, and by the history while it has.
LEMMA PublishTypes ==
  ASSUME PanelTypes, NEW e \in Event, Publish(e)
  PROVE  /\ job' \in JobType /\ Len(job'.events) <= HistCap
         /\ view' \in [Viewer -> ViewType]
         /\ \A v \in Viewer : Len(view'[v].chan) <= ChanCap
<1>1. job' \in JobType /\ Len(job'.events) <= HistCap
  <2>1. job.events \in Seq(Event) /\ Len(job.events) <= HistCap
    BY DEF PanelTypes, JobType
  <2>2. Append(job.events, e) \in Seq(Event) /\ Len(Append(job.events, e)) = Len(job.events) + 1
    BY <2>1
  <2>3. (IF Len(job.events) < HistCap THEN Append(job.events, e) ELSE job.events) \in
           {s \in Seq(Event) : Len(s) <= HistCap}
    BY <2>1, <2>2
  <2>4. QED
    BY <2>3 DEF Publish, PanelTypes, JobType
<1>2. ASSUME NEW v \in Viewer
      PROVE  Sent(v, e) \in ViewType /\ Len(Sent(v, e).chan) <= ChanCap
  <2>1. view[v] \in ViewType /\ view[v].chan \in Seq(Event) /\ Len(view[v].chan) <= ChanCap
    BY DEF PanelTypes, ViewType
  <2>2. CASE ~ view[v].sub
    BY <2>1, <2>2 DEF Sent
  <2>3. CASE view[v].sub /\ Len(view[v].chan) < ChanCap
    <3> DEFINE w == [view[v] EXCEPT !.chan = Append(view[v].chan, e)]
    <3>1. Append(view[v].chan, e) \in Seq(Event) /\ Len(Append(view[v].chan, e)) <= ChanCap
      BY <2>1, <2>3
    <3>2. w \in ViewType /\ w.chan = Append(view[v].chan, e)
      BY <2>1, <3>1 DEF ViewType
    <3>3. Sent(v, e) = w
      BY <2>3 DEF Sent
    <3>4. QED
      BY <3>1, <3>2, <3>3
  <2>4. CASE view[v].sub /\ Len(view[v].chan) = ChanCap
    <3> DEFINE w == [view[v] EXCEPT !.lost = @ \/ e = "done"]
    <3>1. w \in ViewType /\ w.chan = view[v].chan
      BY <2>1 DEF ViewType
    <3>2. Sent(v, e) = w
      BY <2>4 DEF Sent
    <3>3. QED
      BY <2>1, <3>1, <3>2
  <2>5. QED
    BY <2>1, <2>2, <2>3, <2>4 DEF ViewType
<1>3. QED
  BY <1>1, <1>2 DEF Publish

\* So do the panel's tasks, the streams, and the way out.
LEMMA PanelStepTypes ==
  ASSUME FrontTypes, \/ \E t \in Task : TaskStep(t)
                     \/ \E v \in Viewer : ViewStep(v)
                     \/ WayOut
  PROVE  FrontTypes'
<1>1. CommandTypes /\ ConnTypes /\ PanelTypes /\ DaemonTypes
  BY DEF FrontTypes
<1>2. ASSUME NEW t \in Task, TaskStep(t)
      PROVE  FrontTypes'
  <2> USE DEF TaskStep, Occupy, Bail, TaskStarts, TaskToolPrints, TaskToolEnds, TaskFarEnds, TaskEnds
  <2>1. CommandTypes' /\ ConnTypes'
    BY <1>1, <1>2 DEF ctlVars, cliVars, farVars, CommandTypes, ConnTypes
  <2>2. DaemonTypes' /\ task' \in [Task -> {"none", "upload", "tool", "far", "end", "over"}]
    BY <1>1, <1>2 DEF DaemonTypes, PanelTypes, Unlocked, TaskAt
  <2>3. \/ \E e \in Event : Publish(e)
        \/ view' = view /\ (job' = job \/ job' = [events |-> <<>>, active |-> TRUE])
    BY <1>2 DEF Event
  <2> HIDE DEF TaskStep, Occupy, Bail, TaskStarts, TaskToolPrints, TaskToolEnds, TaskFarEnds, TaskEnds
  <2>4. CASE \E e \in Event : Publish(e)
    BY <1>1, <2>1, <2>2, <2>4, PublishTypes DEF FrontTypes, PanelTypes
  <2>5. CASE view' = view /\ (job' = job \/ job' = [events |-> <<>>, active |-> TRUE])
    <3>1. job' \in JobType /\ Len(job'.events) <= HistCap
      <4>1. [events |-> <<>>, active |-> TRUE] \in JobType
        BY DEF JobType
      <4>2. Len(<<>>) = 0 /\ HistCap \in Nat
        OBVIOUS
      <4>3. CASE job' = job
        BY <1>1, <4>3 DEF PanelTypes
      <4>4. CASE job' = [events |-> <<>>, active |-> TRUE]
        <5>1. job'.events = <<>>
          BY <4>4
        <5>2. QED
          BY <4>1, <4>2, <4>4, <5>1
      <4>5. QED
        BY <2>5, <4>3, <4>4
    <3>2. QED
      BY <1>1, <2>1, <2>2, <2>5, <3>1 DEF FrontTypes, PanelTypes
  <2>6. QED
    BY <2>3, <2>4, <2>5
<1> DEFINE Closed == [NewView EXCEPT !.at = "closed"]
<1>3. Closed \in ViewType /\ Closed.chan = <<>> /\ Len(Closed.chan) <= ChanCap
  <2>1. NewView \in ViewType /\ NewView.chan = <<>>
    BY DEF NewView, ViewType
  <2>2. Len(<<>>) = 0
    OBVIOUS
  <2>3. Closed.chan = <<>> /\ Closed \in ViewType
    BY <2>1 DEF ViewType
  <2>4. QED
    BY <2>2, <2>3
<1>4. ASSUME NEW v \in Viewer, ViewStep(v)
      PROVE  FrontTypes'
  <2> USE DEF ViewStep, Attach, Show, Leave
  <2>1. CommandTypes' /\ ConnTypes' /\ DaemonTypes' /\ UNCHANGED <<task, job>>
    BY <1>1, <1>4 DEF ctlVars, cliVars, farVars, CommandTypes, ConnTypes, DaemonTypes
  <2>2. view[v] \in ViewType /\ view[v].chan \in Seq(Event) /\ Len(view[v].chan) <= ChanCap
    BY <1>1 DEF PanelTypes, ViewType
  <2>3. ASSUME NEW w \in ViewType, Len(w.chan) <= ChanCap, view' = [view EXCEPT ![v] = w]
        PROVE  FrontTypes'
    BY <1>1, <2>1, <2>3 DEF FrontTypes, PanelTypes
  <2>4. CASE Attach(v)
    <3> DEFINE w == [view[v] EXCEPT !.at = IF job.active THEN "live" ELSE "closed",
                                    !.sub = job.active]
    <3>1. w \in ViewType /\ w.chan = view[v].chan
      BY <1>1, <2>2 DEF ViewType, PanelTypes, JobType
    <3>2. view' = [view EXCEPT ![v] = w]
      BY <1>1, <2>4 DEF PanelTypes, ViewType
    <3>3. QED
      BY <2>2, <2>3, <3>1, <3>2
  <2>5. CASE Show(v)
    <3> DEFINE w == [view[v] EXCEPT !.chan = Tail(view[v].chan)]
    <3>1. Tail(view[v].chan) \in Seq(Event) /\ Len(Tail(view[v].chan)) <= ChanCap
      BY <2>2, <2>5
    <3>2. w \in ViewType /\ w.chan = Tail(view[v].chan)
      BY <2>2, <3>1 DEF ViewType
    <3>3. \/ view' = [view EXCEPT ![v] = w]
          \/ view' = [view EXCEPT ![v] = Closed]
      <4>1. view' = [view EXCEPT ![v] = IF Head(view[v].chan) = "done" THEN Closed ELSE w]
        BY <2>5
      <4> HIDE DEF Closed, w
      <4>2. QED
        BY <4>1
    <3> HIDE DEF Closed, w
    <3>4. QED
      BY <1>3, <2>3, <3>1, <3>2, <3>3
  <2>6. CASE Leave(v)
    <3>1. view' = [view EXCEPT ![v] = Closed]
      BY <2>6
    <3> HIDE DEF Closed
    <3>2. QED
      BY <1>3, <2>3, <3>1
  <2>7. QED
    BY <1>4, <2>4, <2>5, <2>6
<1>5. CASE WayOut
  <2> USE DEF WayOut, WebClose, CtlClose, CtlClosed
  <2>1. CommandTypes' /\ DaemonTypes' /\ UNCHANGED <<task, job>>
    BY <1>1, <1>5 DEF ctlVars, cliVars, farVars, panelVars, CommandTypes, DaemonTypes
  <2>2. ConnTypes'
    <3>1. sock' = sock \/ sock' = Shut(conns)
      BY <1>5 DEF ctlVars
    <3>2. cmd' = cmd /\ conns' = conns
      BY <1>5 DEF ctlVars
    <3>3. QED
      BY <1>1, <3>1, <3>2, ShutTypes DEF ConnTypes
  <2>3. PanelTypes'
    <3>1. view' = view \/ view' = [v \in Viewer |-> Closed]
      BY <1>5 DEF panelVars
    <3> HIDE DEF Closed
    <3>2. QED
      BY <1>1, <1>3, <2>1, <3>1 DEF PanelTypes
  <2>4. QED
    BY <2>1, <2>2, <2>3 DEF FrontTypes
<1>6. QED
  BY <1>2, <1>4, <1>5

\* What a step of one command leaves to the others.
LEMMA OtherClients ==
  ASSUME FrontTypes, NEW c \in Client, ClientStep(c), NEW d \in Client, d # c
  PROVE  /\ try'[d] = try[d] /\ cmd'[d] = cmd[d]
         /\ sock'[d].open <=> sock[d].open
         /\ sock'[d].unread = sock[d].unread
         /\ d \in conns' <=> d \in conns
         /\ d \in flashed' <=> d \in flashed
         /\ far'[d] = far[d] /\ (d \in lost' <=> d \in lost) /\ elsewhere' = elsewhere
<1>1. CommandTypes /\ ConnTypes
  BY DEF FrontTypes
<1>2. /\ try'[d] = try[d] /\ (d \in flashed' <=> d \in flashed)
      /\ far'[d] = far[d] /\ (d \in lost' <=> d \in lost) /\ elsewhere' = elsewhere
  <2>1. CASE ClientReads(c)
    <3>1. /\ Head(sock[c].unread) \in Reply /\ try[c].at = "open"
          /\ UNCHANGED <<flashed, elsewhere, far, lost>>
          /\ try' = Answered(c, Head(sock[c].unread))
      BY <1>1, <2>1 DEF ClientReads, ConnTypes, SockType, farVars
    <3>2. QED
      BY <1>1, <3>1, AnsweredTypes
  <2>2. CASE ~ ClientReads(c) /\ ~ CallStep(c)
    BY <1>1, <2>2 DEF ClientStep, DialSocket, ClientSeesEnd, ClientActs, Register, Command,
       ScanEnds, Respond, WriteTimeout, ClientToolPrints, ClientToolEnds, cliVars, farVars,
       CommandTypes
  <2>3. CASE CallStep(c)
    BY <2>3, CallSteps
  <2>4. QED
    BY <2>1, <2>2, <2>3
<1>3. cmd'[d] = cmd[d] /\ (d \in conns' <=> d \in conns)
  BY <1>1, CallSteps DEF ClientStep, DialSocket, ClientReads, ClientSeesEnd, ClientActs, Register, Command,
     ScanEnds, Respond, WriteTimeout, ClientToolPrints, ClientToolEnds, CmdAt, Responded, ConnTypes
<1>4. \/ sock' = sock \/ sock' = Shut({c})
      \/ sock' = [sock EXCEPT ![c] = [NewSock EXCEPT !.open = TRUE]]
      \/ sock' = [sock EXCEPT ![c].reads = ~@]
      \/ sock' = [sock EXCEPT ![c].unread = Append(@, cmd[c])]
      \/ sock' = [sock EXCEPT ![c].unread = Tail(@),
                              ![c].open = @ /\ Head(sock[c].unread) = "line"]
  BY CallSteps DEF ClientStep, DialSocket, ClientReads, ClientSeesEnd, ClientActs, Register, Command,
     ScanEnds, Respond, WriteTimeout, ClientToolPrints, ClientToolEnds
<1>5. (sock'[d].open <=> sock[d].open) /\ sock'[d].unread = sock[d].unread
  <2>1. CASE sock' = Shut({c})
    BY <1>1, <2>1 DEF Shut, ConnTypes, SockType
  <2>2. CASE sock' # Shut({c})
    <3>1. CASE sock' = [sock EXCEPT ![c].unread = Tail(@),
                                    ![c].open = @ /\ Head(sock[c].unread) = "line"]
      BY <1>1, <3>1 DEF ConnTypes
    <3>2. CASE sock' = [sock EXCEPT ![c].unread = Append(@, cmd[c])]
      BY <1>1, <3>2 DEF ConnTypes
    <3>3. CASE sock' = [sock EXCEPT ![c].reads = ~@]
      BY <1>1, <3>3 DEF ConnTypes
    <3>4. CASE sock' = [sock EXCEPT ![c] = [NewSock EXCEPT !.open = TRUE]]
      BY <1>1, <3>4 DEF ConnTypes
    <3>5. QED
      BY <1>4, <2>2, <3>1, <3>2, <3>3, <3>4
  <2>3. QED
    BY <2>1, <2>2
<1>6. QED
  BY <1>2, <1>3, <1>5

\* The panel does not touch the commands and their connections.
LEMMA PanelLeavesClients ==
  (\E t \in Task : TaskStep(t)) \/ (\E v \in Viewer : ViewStep(v))
      => UNCHANGED <<cliVars, cmd, sock, conns, exit>>
BY DEF TaskStep, Occupy, Bail, TaskStarts, TaskToolPrints, TaskToolEnds, TaskFarEnds, TaskEnds,
   ViewStep, Attach, Show, Leave, ctlVars, cliVars

\* Every step is of one of these kinds.
LEMMA FrontSteps ==
  FrontNext => \/ exit # "closed" /\ \E c \in Client : ClientStep(c)
               \/ \E t \in Task : TaskStep(t)
               \/ \E v \in Viewer : ViewStep(v)
               \/ WayOut
BY DEF FrontNext, FrontStep, ClientStep, CallStep, TaskStep, ViewStep, WayOut

\* Every step keeps the types.
LEMMA FrontTypesKept == FrontTypes /\ [FrontNext]_frontVars => FrontTypes'
<1> SUFFICES ASSUME FrontTypes, [FrontNext]_frontVars
             PROVE  FrontTypes'
  OBVIOUS
<1>1. CASE \E c \in Client : ClientStep(c)
  BY <1>1, ClientConnTypes, ClientCommandTypes DEF FrontTypes
<1>2. CASE \/ \E t \in Task : TaskStep(t)
           \/ \E v \in Viewer : ViewStep(v)
           \/ WayOut
  BY <1>2, PanelStepTypes
<1>3. CASE UNCHANGED frontVars
  BY <1>3 DEF frontVars, ctlVars, cliVars, farVars, panelVars, FrontTypes, CommandTypes, ConnTypes,
     PanelTypes, DaemonTypes
<1>4. QED
  BY <1>1, <1>2, <1>3, FrontSteps

\* They always hold.
LEMMA FrontTypesAlways == FrontSpec => []FrontTypes
BY InitFrontTypes, FrontTypesKept, PTL DEF FrontSpec

\* The variables of the control socket, the commands and the panel keep their types,
\* and no buffer holds more than it has room for.
THEOREM FrontTypesCorrect == FrontSpec => []FrontTypeOK
BY FrontTypesAlways, FrontTypesImply, PTL

-----------------------------------------------------------------------------
(* The front ends: no connection is left open at the exit. *)

\* A connection that is served is registered, and one that is not is not open.
CutInv ==
    /\ CutOff
    /\ \A c \in Client : /\ cmd[c] \notin {"none", "accepted", "gone"} => c \in conns
                         /\ cmd[c] \in {"none", "gone"} => ~ sock[c].open

\* Every step keeps it: a connection is registered before it does anything else.
LEMMA CutKept == FrontTypes /\ CutInv /\ [FrontNext]_frontVars => CutInv'
<1> SUFFICES ASSUME FrontTypes, CutInv, [FrontNext]_frontVars
             PROVE  CutInv'
  OBVIOUS
<1>1. CommandTypes /\ ConnTypes
  BY DEF FrontTypes
<1>2. ASSUME NEW c \in Client, ClientStep(c)
      PROVE  CutInv'
  <2>1. exit' = exit
    BY <1>2, CallSteps DEF ClientStep, DialSocket, ClientReads, ClientSeesEnd, ClientActs, Register, Command,
       ScanEnds, Respond, WriteTimeout, ClientToolPrints, ClientToolEnds
  <2>2. sock' = Shut({c}) => ~ sock'[c].open
    <3>1. ASSUME sock' = Shut({c})
          PROVE  ~ sock'[c].open
      <4> DEFINE S == {c}
      <4>1. sock \in [Client -> SockType] /\ sock' = Shut(S) /\ c \in S
        BY <1>1, <3>1 DEF ConnTypes
      <4> HIDE DEF S
      <4>2. QED
        BY <4>1, ShutTypes
    <3>2. QED
      BY <3>1
  <2>3. /\ exit \in {"closing", "closed"} => (sock'[c].open => cmd'[c] = "accepted")
        /\ cmd'[c] \notin {"none", "accepted", "gone"} => c \in conns'
        /\ cmd'[c] \in {"none", "gone"} => ~ sock'[c].open
    <3>1. CASE DialSocket(c)
      BY <1>1, <3>1 DEF DialSocket, CmdAt, ConnTypes, CutInv, CutOff
    <3>2. CASE ClientReads(c)
      <4>1. cmd' = cmd /\ conns' = conns /\ (sock'[c].open => sock[c].open)
        BY <1>1, <3>2 DEF ClientReads, ConnTypes, SockType
      <4>2. QED
        BY <4>1 DEF CutInv, CutOff
    <3>3. CASE ClientSeesEnd(c)
      BY <3>3 DEF ClientSeesEnd, CutInv, CutOff
    <3>4. CASE ClientActs(c)
      <4>1. sock'[c].open => sock[c].open
        <5>1. CASE sock' = Shut({c})
          BY <2>2, <5>1
        <5>2. CASE sock' # Shut({c})
          <6>1. sock' = [sock EXCEPT ![c].reads = ~@]
            BY <3>4, <5>2 DEF ClientActs
          <6>2. QED
            BY <1>1, <6>1 DEF ConnTypes, SockType
        <5>3. QED
          BY <5>1, <5>2
      <4>2. cmd' = cmd /\ conns' = conns
        BY <3>4 DEF ClientActs
      <4>3. QED
        BY <4>1, <4>2 DEF CutInv, CutOff
    <3>5. CASE Register(c)
      BY <1>1, <2>2, <3>5 DEF Register, CmdAt, ConnTypes, CutInv, CutOff
    <3>6. CASE Command(c)
      BY <1>1, <3>6 DEF Command, CmdAt, ConnTypes, CutInv, CutOff
    <3>7. CASE ScanEnds(c)
      BY <1>1, <3>7 DEF ScanEnds, CmdAt, ConnTypes, CutInv, CutOff
    <3>8. CASE Respond(c)
      <4>1. sock'[c].open => sock[c].open
        BY <1>1, <3>8 DEF Respond, ConnTypes, SockType
      <4>2. cmd'[c] \in {"tool", "far", "scan"} /\ cmd[c] \in Reply /\ conns' = conns
        BY <1>1, <3>8 DEF Respond, Responded, CmdAt, ConnTypes
      <4>3. QED
        BY <4>1, <4>2 DEF CutInv, CutOff, Reply
    <3>9. CASE WriteTimeout(c)
      <4>1. ~ sock'[c].open
        BY <2>2, <3>9 DEF WriteTimeout
      <4>2. cmd'[c] \in {"tool", "far", "scan"} /\ cmd[c] \in Reply /\ conns' = conns
        BY <1>1, <3>9 DEF WriteTimeout, Responded, CmdAt, ConnTypes
      <4>3. QED
        BY <4>1, <4>2 DEF CutInv, Reply
    <3>10. CASE ClientToolPrints(c) \/ ClientToolEnds(c)
      BY <1>1, <3>10 DEF ClientToolPrints, ClientToolEnds, CmdAt, ConnTypes, CutInv, CutOff
    <3>11. CASE CallStep(c)
      <4>1. /\ UNCHANGED <<sock, conns>>
            /\ cmd'[c] # cmd[c] => /\ cmd[c] \in {"call", "far"}
                                   /\ cmd'[c] \in {"far"} \cup Reply
        BY <3>11, CallSteps
      <4>2. QED
        BY <4>1 DEF CutInv, CutOff, Reply
    <3>12. QED
      BY <1>2, <3>1, <3>2, <3>3, <3>4, <3>5, <3>6, <3>7, <3>8, <3>9, <3>10, <3>11 DEF ClientStep
  <2>4. ASSUME NEW d \in Client, d # c
        PROVE  /\ exit \in {"closing", "closed"} => (sock'[d].open => cmd'[d] = "accepted")
               /\ cmd'[d] \notin {"none", "accepted", "gone"} => d \in conns'
               /\ cmd'[d] \in {"none", "gone"} => ~ sock'[d].open
    BY <1>2, <2>4, OtherClients DEF CutInv, CutOff
  <2>5. QED
    BY <2>1, <2>3, <2>4 DEF CutInv, CutOff
<1>3. CASE (\E t \in Task : TaskStep(t)) \/ (\E v \in Viewer : ViewStep(v))
  BY <1>3, PanelLeavesClients DEF CutInv, CutOff
<1>4. CASE WayOut
  <2>1. CASE WebClose
    BY <2>1 DEF WebClose, ctlVars, CutInv, CutOff
  <2>2. CASE CtlClose
    <3>1. \A c \in Client : sock'[c].open <=> sock[c].open /\ c \notin conns
      BY <1>1, <2>2, ShutTypes DEF CtlClose, ConnTypes
    <3>2. cmd' = cmd /\ conns' = conns
      BY <2>2 DEF CtlClose
    <3>3. QED
      BY <3>1, <3>2 DEF CutInv, CutOff
  <2>3. CASE CtlClosed
    BY <2>3 DEF CtlClosed, ctlVars, CutInv, CutOff
  <2>4. QED
    BY <1>4, <2>1, <2>2, <2>3 DEF WayOut
<1>5. CASE UNCHANGED frontVars
  BY <1>5 DEF frontVars, ctlVars, CutInv, CutOff
<1>6. QED
  BY <1>2, <1>3, <1>4, <1>5, FrontSteps

\* Once Close has begun no connection stays open, other than one that was accepted
\* just before and that Serve has yet to cut (ctl.go: Close, Serve).
THEOREM ConnectionsAreCut == FrontSpec => []CutOff
<1>1. FrontInit => CutInv
  BY DEF FrontInit, CutInv, CutOff, NewSock
<1>2. CutInv => CutOff
  BY DEF CutInv
<1>3. QED
  BY <1>1, <1>2, CutKept, FrontTypesAlways, PTL DEF FrontSpec

-----------------------------------------------------------------------------
(* The front ends: no flash is done twice. *)

\* What is in a sequence.
Rng(s) == {s[i] : i \in DOMAIN s}

\* What is in a sequence when something is appended or its head is taken.
LEMMA RngFacts ==
  ASSUME NEW S, NEW s \in Seq(S)
  PROVE  /\ \A e \in S : Rng(Append(s, e)) = Rng(s) \cup {e}
         /\ s # <<>> => /\ Head(s) \in Rng(s)
                        /\ Rng(s) = Rng(Tail(s)) \cup {Head(s)}
<1>1. ASSUME NEW e \in S
      PROVE  Rng(Append(s, e)) = Rng(s) \cup {e}
  <2>1. /\ DOMAIN Append(s, e) = 1 .. Len(s) + 1
        /\ DOMAIN s = 1 .. Len(s) /\ Len(s) \in Nat
        /\ \A i \in 1 .. Len(s) : Append(s, e)[i] = s[i]
        /\ Append(s, e)[Len(s) + 1] = e
    BY <1>1
  <2>2. QED
    BY <2>1 DEF Rng
<1>2. ASSUME s # <<>>
      PROVE  Head(s) \in Rng(s) /\ Rng(s) = Rng(Tail(s)) \cup {Head(s)}
  <2>1. /\ DOMAIN s = 1 .. Len(s) /\ Len(s) \in Nat \ {0} /\ Head(s) = s[1]
        /\ DOMAIN Tail(s) = 1 .. Len(s) - 1
        /\ \A i \in 1 .. Len(s) - 1 : Tail(s)[i] = s[i + 1]
    BY <1>2
  <2>2. Head(s) \in Rng(s) /\ Rng(Tail(s)) \subseteq Rng(s)
    BY <2>1 DEF Rng
  <2>3. ASSUME NEW i \in DOMAIN s
        PROVE  s[i] \in Rng(Tail(s)) \cup {Head(s)}
    <3>1. CASE i = 1
      BY <2>1, <3>1
    <3>2. CASE i # 1
      <4>1. i - 1 \in 1 .. Len(s) - 1 /\ s[i] = Tail(s)[i - 1]
        BY <2>1, <2>3, <3>2
      <4>2. QED
        BY <2>1, <4>1 DEF Rng
    <3>3. QED
      BY <3>1, <3>2
  <2>4. QED
    BY <2>2, <2>3 DEF Rng
<1>3. QED
  BY <1>1, <1>2

\* How a command (at) and the goroutine of its connection (step) may stand, with
\* the connection's state and its unread responses, whether the tool has succeeded
\* without a call having been lost, and what the other node knows of it (there):
\* a command that waits for its next attempt, or is about to make the first, has
\* no tool at work, no open connection and no success on record; while a tool is at
\* work there are only lines to read; and a success is followed by its own answer
\* or by the end of the connection, never by a failure.
FlashAt(at, step, open, unread, done, there) ==
    /\ at = "idle" => step = "none"
    /\ at = "wait" => ~ open
    /\ step \in {"tool", "call", "far"} \cup Reply =>
           unread \subseteq {"line"} /\ at \notin {"idle", "wait"}
    /\ done => /\ at \notin {"idle", "wait"}
               /\ "fail" \notin unread
               /\ \/ step \in {"ok", "scan", "gone"}
                  \/ step \in {"far", "line"} /\ there = "ok"
               /\ step = "scan" /\ open => "ok" \in unread
Succeeded(c) == c \in flashed \ lost

\* Unless a call was lost, the other node is at work for a command exactly while
\* the handler waits for its answer or passes on a line of it.
CallInv(c) ==
    /\ cmd[c] = "tool" => c \notin elsewhere
    /\ cmd[c] \in {"call", "far"} => c \in elsewhere
    /\ c \notin lost => (far[c] # "none" <=> c \in elsewhere /\ cmd[c] \in {"far", "line"})
FlashInv ==
    \A c \in Client :
        /\ FlashAt(try[c].at, cmd[c], sock[c].open, Rng(sock[c].unread), Succeeded(c), far[c])
        /\ CallInv(c)

\* The steps of a flash on another node keep it.
LEMMA CallKept ==
  ASSUME FrontTypes, NEW c \in Client, CallStep(c), CallInv(c),
         NEW at, NEW open, NEW unread,
         FlashAt(at, cmd[c], open, unread, Succeeded(c), far[c])
  PROVE  FlashAt(at, cmd'[c], open, unread, Succeeded(c)', far'[c]) /\ CallInv(c)'
<1> USE DEF FlashAt, Succeeded, CallInv, CmdAt, FarAt, Reply
<1>1. cmd \in [Client -> CmdAts] /\ far \in [Client -> FarAts]
  BY DEF FrontTypes, CommandTypes, ConnTypes
<1>2. CASE CallFails(c)
  BY <1>1, <1>2 DEF CallFails, cliVars, farVars
<1>3. CASE CallSent(c)
  BY <1>1, <1>3 DEF CallSent
<1>4. CASE FarStarts(c)
  BY <1>1, <1>4 DEF FarStarts
<1>5. CASE FarEnds(c)
  BY <1>1, <1>5 DEF FarEnds
<1>6. CASE FarPrints(c)
  BY <1>1, <1>6 DEF FarPrints, cliVars, farVars
<1>7. CASE FarAnswers(c)
  BY <1>1, <1>7 DEF FarAnswers
<1>8. CASE FarIsLost(c)
  BY <1>1, <1>8 DEF FarIsLost
<1>9. QED
  BY <1>2, <1>3, <1>4, <1>5, <1>6, <1>7, <1>8 DEF CallStep

\* Every step keeps it.
LEMMA FlashKept == FrontTypes /\ FlashInv /\ [FrontNext]_frontVars => FlashInv'
<1> SUFFICES ASSUME FrontTypes, FlashInv, [FrontNext]_frontVars
             PROVE  FlashInv'
  OBVIOUS
<1>1. CommandTypes /\ ConnTypes
  BY DEF FrontTypes
<1>2. ASSUME NEW c \in Client, ClientStep(c)
      PROVE  FlashInv'
  <2>1. /\ FlashAt(try[c].at, cmd[c], sock[c].open, Rng(sock[c].unread), Succeeded(c), far[c])
        /\ CallInv(c)
    BY DEF FlashInv
  <2>2. sock[c].unread \in Seq(Reply) /\ sock[c].open \in BOOLEAN
    BY <1>1 DEF ConnTypes, SockType
  <2>3. \A S : sock' = Shut(S) => /\ sock'[c].unread = sock[c].unread
                                  /\ sock'[c].open => sock[c].open
                                  /\ c \in S => ~ sock'[c].open
    <3>1. ASSUME NEW S, sock' = Shut(S)
          PROVE  sock'[c] = [sock[c] EXCEPT !.open = @ /\ c \notin S]
      BY <3>1 DEF Shut
    <3>2. sock[c] \in SockType
      BY <1>1 DEF ConnTypes
    <3>3. QED
      BY <3>1, <3>2 DEF SockType
  <2>4. /\ FlashAt(try'[c].at, cmd'[c], sock'[c].open, Rng(sock'[c].unread), Succeeded(c)', far'[c])
        /\ CallInv(c)'
    <3>1. CASE DialSocket(c)
      <4>1. Rng(<<>>) = {}
        BY DEF Rng
      <4>2. /\ try[c].at \in {"idle", "wait"} /\ UNCHANGED <<flashed, elsewhere, far, lost>>
            /\ \/ /\ try'[c].at = "open" /\ cmd'[c] = "accepted"
                  /\ sock'[c].unread = <<>>
               \/ /\ try'[c].at = "failed" /\ cmd'[c] = cmd[c] /\ cmd[c] \in {"none", "gone"}
                  /\ sock' = sock
        BY <1>1, <3>1 DEF DialSocket, CmdAt, CommandTypes, ConnTypes, NewSock, farVars
      <4>3. QED
        BY <2>1, <4>1, <4>2 DEF FlashAt, Succeeded, CallInv, Reply
    <3>2. CASE ClientReads(c)
      <4> DEFINE h == Head(sock[c].unread)
      <4>1. /\ sock[c].unread # <<>> /\ try[c].at = "open" /\ try' = Answered(c, h)
            /\ cmd' = cmd /\ UNCHANGED <<flashed, elsewhere, far, lost>>
        BY <3>2 DEF ClientReads, farVars
      <4>2. sock'[c].unread = Tail(sock[c].unread) /\ (sock'[c].open <=> sock[c].open /\ h = "line")
        BY <1>1, <3>2 DEF ClientReads, ConnTypes, SockType
      <4>3. h \in Rng(sock[c].unread) /\ Rng(sock[c].unread) = Rng(sock'[c].unread) \cup {h}
        BY <2>2, <4>1, <4>2, RngFacts
      <4>4. h \in Reply
        BY <2>2, <4>1
      <4>5. /\ h = "line" => try'[c].at = "open"
            /\ h = "ok" => try'[c].at = "ok"
            /\ h = "fail" => try'[c].at \in {"wait", "failed"}
        BY <1>1, <4>1 DEF Answered, CommandTypes
      <4> HIDE DEF h
      <4>6. QED
        BY <2>1, <4>1, <4>2, <4>3, <4>4, <4>5 DEF FlashAt, Succeeded, CallInv, Reply
    <3>3. CASE ClientSeesEnd(c)
      <4>1. try'[c].at \in {"ok", "failed"} /\ UNCHANGED <<cmd, sock, flashed, elsewhere, far, lost>>
        BY <1>1, <3>3 DEF ClientSeesEnd, CommandTypes, farVars
      <4>2. QED
        BY <2>1, <4>1 DEF FlashAt, Succeeded, CallInv
    <3>4. CASE ClientActs(c)
      <4>1. /\ UNCHANGED <<cmd, flashed, elsewhere, far, lost>>
            /\ try'[c].at = try[c].at \/ try'[c].at = "failed"
        BY <1>1, <3>4 DEF ClientActs, CommandTypes, farVars
      <4>2. sock'[c].unread = sock[c].unread /\ (sock'[c].open => sock[c].open)
        BY <1>1, <2>3, <3>4 DEF ClientActs, ConnTypes, SockType
      <4>3. QED
        BY <2>1, <4>1, <4>2 DEF FlashAt, Succeeded, CallInv
    <3>5. CASE Register(c)
      <4>1. /\ UNCHANGED <<try, flashed, elsewhere, far, lost>> /\ cmd[c] = "accepted" /\ cmd'[c] \in {"gone", "scan"}
            /\ sock' = sock \/ sock' = Shut({c})
        BY <1>1, <3>5 DEF Register, CmdAt, cliVars, farVars, ConnTypes
      <4>2. sock'[c].unread = sock[c].unread /\ (sock'[c].open => sock[c].open)
        BY <2>3, <4>1
      <4>3. QED
        BY <2>1, <4>1, <4>2 DEF FlashAt, Succeeded, CallInv, Reply
    <3>6. CASE Command(c)
      <4>1. Rng(sock[c].unread) = {} /\ sock[c].open /\ cmd[c] = "scan"
        BY <3>6 DEF Command, Rng
      <4>2. UNCHANGED <<try, sock, flashed, elsewhere, far, lost>> /\ cmd'[c] \in {"tool", "call", "fail"}
              /\ (cmd'[c] = "tool" => c \notin elsewhere) /\ (cmd'[c] = "call" => c \in elsewhere)
        BY <1>1, <3>6 DEF Command, CmdAt, cliVars, farVars, ConnTypes
      <4>3. QED
        BY <2>1, <4>1, <4>2 DEF FlashAt, Succeeded, CallInv
    <3>7. CASE ScanEnds(c)
      <4>1. UNCHANGED <<try, sock, flashed, elsewhere, far, lost>> /\ cmd[c] = "scan" /\ cmd'[c] = "gone"
        BY <1>1, <3>7 DEF ScanEnds, CmdAt, cliVars, farVars, ConnTypes
      <4>2. QED
        BY <2>1, <4>1 DEF FlashAt, Succeeded, CallInv, Reply
    <3>8. CASE Respond(c)
      <4>1. /\ UNCHANGED <<try, flashed, elsewhere, far, lost>> /\ cmd[c] \in Reply
            /\ cmd[c] = "line" => cmd'[c] = IF c \in elsewhere THEN "far" ELSE "tool"
            /\ cmd[c] # "line" => cmd'[c] = "scan"
        BY <1>1, <3>8 DEF Respond, Responded, CmdAt, cliVars, farVars, ConnTypes
      <4>2. \/ ~ sock[c].open /\ sock' = sock
            \/ /\ sock[c].open /\ sock'[c].unread = Append(sock[c].unread, cmd[c])
               /\ sock'[c].open = sock[c].open
        BY <1>1, <3>8 DEF Respond, ConnTypes, SockType
      <4>3. Rng(Append(sock[c].unread, cmd[c])) = Rng(sock[c].unread) \cup {cmd[c]}
        BY <2>2, <4>1, RngFacts
      <4>4. \/ ~ sock[c].open /\ ~ sock'[c].open /\ Rng(sock'[c].unread) = Rng(sock[c].unread)
            \/ sock[c].open /\ Rng(sock'[c].unread) = Rng(sock[c].unread) \cup {cmd[c]}
        BY <4>2, <4>3
      <4>5. CASE cmd[c] = "line"
        BY <2>1, <4>1, <4>4, <4>5 DEF FlashAt, Succeeded, CallInv, Reply
      <4>6. CASE cmd[c] \in {"ok", "fail"}
        BY <2>1, <4>1, <4>4, <4>6 DEF FlashAt, Succeeded, CallInv, Reply
      <4>7. QED
        BY <4>1, <4>5, <4>6 DEF Reply
    <3>9. CASE WriteTimeout(c)
      <4>1. /\ UNCHANGED <<try, flashed, elsewhere, far, lost>> /\ cmd[c] \in Reply
            /\ cmd[c] = "line" => cmd'[c] = IF c \in elsewhere THEN "far" ELSE "tool"
            /\ cmd[c] # "line" => cmd'[c] = "scan"
            /\ sock' = Shut({c})
        BY <1>1, <3>9 DEF WriteTimeout, Responded, CmdAt, cliVars, farVars, ConnTypes
      <4>2. sock'[c].unread = sock[c].unread /\ ~ sock'[c].open
        BY <2>3, <4>1
      <4>3. QED
        BY <2>1, <4>1, <4>2 DEF FlashAt, Succeeded, CallInv, Reply
    <3>10. CASE ClientToolPrints(c)
      <4>1. UNCHANGED <<try, sock, flashed, elsewhere, far, lost>> /\ cmd[c] = "tool" /\ cmd'[c] = "line"
        BY <1>1, <3>10 DEF ClientToolPrints, CmdAt, cliVars, farVars, ConnTypes
      <4>2. QED
        BY <2>1, <4>1 DEF FlashAt, Succeeded, CallInv, Reply
    <3>11. CASE ClientToolEnds(c)
      <4>1. /\ UNCHANGED <<try, sock, elsewhere, far, lost>> /\ cmd[c] = "tool"
            /\ \/ cmd'[c] = "ok"
               \/ cmd'[c] = "fail" /\ flashed' = flashed
        BY <1>1, <3>11 DEF ClientToolEnds, CmdAt, ConnTypes, farVars
      <4>2. QED
        BY <2>1, <4>1 DEF FlashAt, Succeeded, CallInv, Reply
    <3>12. CASE CallStep(c)
      <4>1. UNCHANGED <<try, sock>>
        BY <3>12, CallSteps
      <4>2. QED
        BY <2>1, <3>12, <4>1, CallKept
    <3>13. QED
      BY <1>2, <3>1, <3>2, <3>3, <3>4, <3>5, <3>6, <3>7, <3>8, <3>9, <3>10, <3>11, <3>12
         DEF ClientStep
  <2>5. ASSUME NEW d \in Client, d # c
        PROVE  /\ FlashAt(try'[d].at, cmd'[d], sock'[d].open, Rng(sock'[d].unread),
                          Succeeded(d)', far'[d])
               /\ CallInv(d)'
    <3>1. /\ FlashAt(try[d].at, cmd[d], sock[d].open, Rng(sock[d].unread), Succeeded(d), far[d])
          /\ CallInv(d)
      BY DEF FlashInv
    <3>2. QED
      BY <1>2, <2>5, <3>1, OtherClients DEF FlashAt, Succeeded, CallInv
  <2>6. QED
    BY <2>4, <2>5 DEF FlashInv
<1>3. CASE (\E t \in Task : TaskStep(t)) \/ (\E v \in Viewer : ViewStep(v))
  BY <1>3, PanelLeavesClients DEF FlashInv, cliVars, farVars, Succeeded, CallInv
<1>4. CASE WayOut
  <2>1. UNCHANGED <<try, cmd, flashed, elsewhere, far, lost>>
    BY <1>4 DEF WayOut, WebClose, CtlClose, CtlClosed, ctlVars, cliVars, farVars
  <2>2. \A c \in Client : /\ sock'[c].unread = sock[c].unread
                          /\ sock'[c].open => sock[c].open
    <3>1. sock' = sock \/ sock' = Shut(conns)
      BY <1>4 DEF WayOut, WebClose, CtlClose, CtlClosed, ctlVars
    <3>2. QED
      BY <1>1, <3>1 DEF Shut, ConnTypes, SockType
  <2>3. QED
    BY <2>1, <2>2 DEF FlashInv, FlashAt, Succeeded, CallInv
<1>5. CASE UNCHANGED frontVars
  BY <1>5 DEF frontVars, ctlVars, cliVars, farVars, FlashInv, Succeeded, CallInv
<1>6. QED
  BY <1>2, <1>3, <1>4, <1>5, FrontSteps

\* A flash that has succeeded is not done again (cli.go: flashRetry), whatever becomes
\* of the connection to the daemon, but for one on another node whose call was lost;
\* only a dial makes an attempt.
THEOREM FlashedOnce == FrontSpec => NotTwice
<1>1. FrontInit => FlashInv
  <2> SUFFICES ASSUME FrontInit, NEW c \in Client
               PROVE  /\ FlashAt(try[c].at, cmd[c], sock[c].open, Rng(sock[c].unread),
                                 Succeeded(c), far[c])
                      /\ CallInv(c)
    BY DEF FlashInv
  <2>1. try[c].at = "idle" /\ cmd[c] = "none" /\ c \notin flashed /\ far[c] = "none"
    BY DEF FrontInit
  <2>2. QED
    BY <2>1 DEF FlashAt, Succeeded, CallInv, Reply
<1>2. FrontTypes /\ FlashInv /\ [FrontNext]_frontVars =>
          [\A c \in Client : try'[c].made > try[c].made =>
              c \notin flashed \/ c \in lost]_frontVars
  <2> SUFFICES ASSUME FrontTypes, FlashInv, FrontNext, NEW d \in Client,
                      try'[d].made > try[d].made
               PROVE  d \notin flashed \/ d \in lost
    OBVIOUS
  <2>1. CommandTypes /\ ConnTypes /\ try[d].made \in Nat
    BY DEF FrontTypes, CommandTypes
  <2>2. ASSUME NEW c \in Client, ClientStep(c)
        PROVE  d \notin flashed \/ d \in lost
    <3>1. c = d
      BY <2>1, <2>2, OtherClients
    <3>2. CASE DialSocket(c)
      BY <3>1, <3>2 DEF DialSocket, FlashInv, FlashAt, Succeeded
    <3>3. CASE ClientReads(c)
      <4>1. /\ Head(sock[c].unread) \in Reply /\ try[c].at = "open"
            /\ try' = Answered(c, Head(sock[c].unread))
        BY <2>1, <3>3 DEF ClientReads, ConnTypes, SockType
      <4>2. QED
        BY <2>1, <3>1, <4>1, AnsweredTypes
    <3>4. CASE ~ DialSocket(c) /\ ~ ClientReads(c)
      <4>1. try'[d].made = try[d].made
        BY <2>1, <2>2, <3>4, CallSteps DEF ClientStep, ClientSeesEnd, ClientActs, Register, Command,
           ScanEnds, Respond, WriteTimeout, ClientToolPrints, ClientToolEnds, cliVars, CommandTypes
      <4>2. QED
        BY <2>1, <4>1
    <3>5. QED
      BY <3>2, <3>3, <3>4
  <2>3. CASE UNCHANGED try
    BY <2>1, <2>3
  <2>4. WayOut => UNCHANGED try
    BY DEF WayOut, WebClose, CtlClose, CtlClosed, ctlVars, cliVars
  <2>5. QED
    BY <2>2, <2>3, <2>4, FrontSteps, PanelLeavesClients DEF cliVars
<1>3. QED
  BY <1>1, <1>2, FlashKept, FrontTypesAlways, PTL DEF FrontSpec, NotTwice
-----------------------------------------------------------------------------
(* A log that is followed: the viewer is never sent back, and the channel    *)
(* is never out of step.                                                     *)

\* Where a viewer may be: at a line of a file, or before the first.
Mark  == Log \X Nat
Frame == [num : Nat, line : Mark]
SendType == [at : {"idle", "want", "write"}, num : Nat, line : Mark]

\* A mark is not behind another: it is in the same file and not further down, or
\* in an older file.
NotAfter(a, b) == \/ a[1] = b[1] /\ a[2] <= b[2]
                  \/ Newer(b[1], a[1])
EndOfLog == <<cur, log[cur]>>

\* The end of what is shown never goes back to an older line (section 8 of the README:
\* a block may begin with lines that were shown).
NeverBack == [][NotAfter(shown, shown')]_tailVars

\* A frame that arrives has the number that is due.
InStep == net = "up" /\ flight # <<>> => Head(flight).num = rx

TailTypes ==
    /\ log \in [Log -> Nat] /\ cur \in Log
    /\ local \in [at : {"look", "read"}, file : Log, size : Nat, found : Log, upto : Nat]
    /\ send \in [Sender -> SendType]
    /\ wmu \in Sender \cup {Nobody} /\ tx \in Nat /\ rx \in Nat
    /\ flight \in Seq(Frame) /\ net \in {"up", "frozen", "down"}
    /\ viewer \in {"local", "remote"} /\ shown \in Mark

\* The writer's file is the newest there is, and not empty unless all are.
FilesInOrder ==
    /\ \A f \in Log : log[f] > 0 => f = cur \/ Newer(cur, f)
    /\ log[cur] = 0 => \A f \in Log : log[f] = 0

\* A viewer is a local one or has a channel; it has shown no more than there is, and
\* what it is about to read has not become less.
ViewInOrder ==
    /\ viewer = "local" => net = "down" /\ flight = <<>> /\ send["tail"].at = "idle"
    /\ viewer = "remote" => local.at = "look"
    /\ NotAfter(shown, EndOfLog)
    /\ local.at = "read" => /\ 0 < local.upto /\ local.upto <= log[local.found]
                            /\ NotAfter(shown, <<local.found, local.upto>>)

\* The lines on their way are in order, from what is shown over the frames and the
\* line to be sent to the end of the log; all other frames carry none.
Sending == send["tail"].at # "idle"
FlightInOrder(seq) ==
    \A i \in DOMAIN seq : seq[i].line # None0 =>
        /\ NotAfter(shown, seq[i].line) /\ NotAfter(seq[i].line, EndOfLog)
        /\ Sending => NotAfter(seq[i].line, send["tail"].line)
        /\ \A j \in DOMAIN seq : j > i /\ seq[j].line # None0
                                    => NotAfter(seq[i].line, seq[j].line)
LinesInOrder ==
    /\ send["loop"].line = None0
    /\ Sending => /\ NotAfter(shown, send["tail"].line)
                  /\ NotAfter(send["tail"].line, EndOfLog)
    /\ FlightInOrder(flight)

\* Numbers: the sender that has wmu has the one after those on the way.
NumbersInOrder ==
    /\ \A s \in Sender : send[s].at = "write" <=> wmu = s
    /\ net = "up" =>
          /\ \A i \in DOMAIN flight : flight[i].num = rx + (i - 1)
          /\ wmu = Nobody => tx = rx + Len(flight)
          /\ wmu # Nobody => send[wmu].num = rx + Len(flight) /\ tx = send[wmu].num + 1

TailInv == TailTypes /\ FilesInOrder /\ ViewInOrder /\ LinesInOrder /\ NumbersInOrder

\* The order is one.
LEMMA NotAfterOrder ==
  /\ \A a \in Mark : NotAfter(a, a) /\ NotAfter(None0, a)
  /\ \A a, b, c \in Mark : NotAfter(a, b) /\ NotAfter(b, c) => NotAfter(a, c)
<1>1. \A f, g, h \in Log : Newer(f, g) /\ Newer(g, h) => Newer(f, h)
  BY TailAssumption DEF Log, Newer
<1>2. \A f \in Log : f # <<0, 0>> => Newer(f, <<0, 0>>)
  BY TailAssumption DEF Log, Newer
<1>3. \A a \in Mark : a[1] \in Log /\ a[2] \in Nat
  BY DEF Mark
<1>4. \A a \in Mark : NotAfter(a, a)
  BY <1>3 DEF NotAfter
<1>5. \A a \in Mark : NotAfter(None0, a)
  BY <1>2, <1>3 DEF NotAfter, None0
<1>6. ASSUME NEW a \in Mark, NEW b \in Mark, NEW c \in Mark, NotAfter(a, b), NotAfter(b, c)
      PROVE  NotAfter(a, c)
  <2>1. a[1] \in Log /\ b[1] \in Log /\ c[1] \in Log /\ a[2] \in Nat /\ b[2] \in Nat /\ c[2] \in Nat
    BY <1>3
  <2>2. QED
    BY <1>1, <1>6, <2>1 DEF NotAfter
<1>7. QED
  BY <1>4, <1>5, <1>6

\* What is on its way is a mark.
LEMMA FramesCarryMarks ==
  ASSUME TailTypes
  PROVE  /\ \A i \in DOMAIN flight : flight[i].line \in Mark /\ flight[i].num \in Nat
         /\ \A s \in Sender : send[s].line \in Mark /\ send[s].num \in Nat
<1>1. \A fr \in Frame : fr.line \in Mark /\ fr.num \in Nat
  BY DEF Frame
<1>2. \A i \in DOMAIN flight : flight[i] \in Frame
  BY DEF TailTypes
<1>3. \A s \in Sender : send[s] \in SendType
  BY DEF TailTypes
<1>4. \A s \in Sender : send[s].line \in Mark /\ send[s].num \in Nat
  BY <1>3 DEF SendType
<1>5. QED
  BY <1>1, <1>2, <1>4

\* The latest file is the writer's.
LEMMA LatestIsCurrent ==
  ASSUME TailTypes, FilesInOrder, Existing # {}
  PROVE  Latest = cur /\ log[cur] > 0
<1>1. log[cur] > 0 /\ cur \in Existing
  BY DEF TailTypes, FilesInOrder, Existing
<1>2. \A g \in Existing \ {cur} : Newer(cur, g)
  BY DEF FilesInOrder, Existing
<1>3. \A f, g \in Log : ~ (Newer(f, g) /\ Newer(g, f))
  BY TailAssumption DEF Log, Newer
<1>4. \A f \in Existing : (\A g \in Existing \ {f} : Newer(f, g)) => f = cur
  BY <1>1, <1>2, <1>3 DEF Existing
<1>5. QED
  BY <1>1, <1>2, <1>4 DEF Latest

\* The writer goes on: the end of the log moves on, and no other file grows.
LEMMA WriterGoesOn ==
  ASSUME TailInv, WriteLine
  PROVE  TailInv' /\ NotAfter(shown, shown')
<1>1. TailTypes
  BY DEF TailInv
<1>2. /\ cur' \in Log
      /\ cur' = cur \/ Newer(cur', cur)
      /\ log' = [log EXCEPT ![cur'] = @ + 1]
      /\ UNCHANGED <<local, channelVars, viewer, shown>>
  <2>1. /\ cur[1] \in 0 .. MaxDay /\ cur[2] \in 0 .. MaxSfx /\ MaxDay \in Nat /\ MaxSfx \in Nat
        /\ cur \in Log
    BY <1>1, TailAssumption DEF TailTypes, Log
  <2>2. CASE cur' = cur
    BY <2>1, <2>2 DEF WriteLine
  <2>3. CASE cur[2] < MaxSfx /\ cur' = <<cur[1], cur[2] + 1>>
    <3>1. cur[2] + 1 \in 0 .. MaxSfx
      BY <2>1, <2>3
    <3>2. cur' \in Log
      BY <2>1, <2>3, <3>1 DEF Log
    <3>3. Newer(cur', cur)
      BY <2>1, <2>3 DEF Newer
    <3>4. QED
      BY <3>2, <3>3 DEF WriteLine
  <2>4. CASE cur[1] < MaxDay /\ cur' = <<cur[1] + 1, 0>>
    <3>1. cur[1] + 1 \in 0 .. MaxDay /\ 0 \in 0 .. MaxSfx
      BY <2>1, <2>4
    <3>2. cur' \in Log
      BY <2>4, <3>1 DEF Log
    <3>3. Newer(cur', cur)
      BY <2>1, <2>4 DEF Newer
    <3>4. QED
      BY <3>2, <3>3 DEF WriteLine
  <2>5. QED
    BY <2>2, <2>3, <2>4 DEF WriteLine
<1> USE DEF channelVars
<1>3. \A f \in Log : log[f] \in Nat /\ log'[f] = IF f = cur' THEN log[f] + 1 ELSE log[f]
  BY <1>1, <1>2 DEF TailTypes
<1>4. TailTypes'
  <2>1. \A f \in Log : log'[f] \in Nat
    BY <1>3
  <2>2. log' \in [Log -> Nat]
    <3>1. DOMAIN log' = Log /\ log' = [f \in Log |-> log'[f]]
      BY <1>1, <1>2 DEF TailTypes
    <3>2. QED
      BY <2>1, <3>1
  <2>3. QED
    BY <1>1, <1>2, <2>2 DEF TailTypes
<1>5. FilesInOrder'
  <2>1. \A f, g, h \in Log : Newer(f, g) /\ Newer(g, h) => Newer(f, h)
    BY TailAssumption DEF Log, Newer
  <2>2. ASSUME NEW f \in Log, log'[f] > 0, f # cur'
        PROVE  Newer(cur', f)
    <3>1. log[f] > 0
      BY <1>3, <2>2
    <3>2. f = cur \/ Newer(cur, f)
      BY <3>1 DEF TailInv, FilesInOrder
    <3>3. cur \in Log
      BY <1>1 DEF TailTypes
    <3>4. QED
      BY <1>2, <2>1, <2>2, <3>2, <3>3
  <2>3. log'[cur'] # 0
    <3>1. log'[cur'] = log[cur'] + 1 /\ log[cur'] \in Nat
      BY <1>2, <1>3
    <3>2. QED
      BY <3>1
  <2>4. QED
    BY <2>2, <2>3 DEF FilesInOrder
<1>6. EndOfLog \in Mark /\ EndOfLog' \in Mark /\ NotAfter(EndOfLog, EndOfLog')
  <2>1. /\ cur \in Log /\ cur' \in Log /\ log[cur] \in Nat /\ log'[cur'] \in Nat
        /\ cur' = cur => log[cur] <= log'[cur']
    BY <1>1, <1>2, <1>3, <1>4 DEF TailTypes
  <2>2. QED
    BY <1>2, <2>1 DEF EndOfLog, Mark, NotAfter
<1>7. \A a \in Mark : NotAfter(a, EndOfLog) => NotAfter(a, EndOfLog')
  BY <1>6, NotAfterOrder
<1>8. ViewInOrder'
  <2>1. NotAfter(shown', EndOfLog')
    BY <1>1, <1>2, <1>7 DEF TailInv, ViewInOrder, TailTypes
  <2>2. local.found \in Log
    BY <1>1 DEF TailTypes
  <2>3. log[local.found] <= log'[local.found] /\ local.upto \in Nat
    BY <1>1, <1>3, <2>2 DEF TailTypes
  <2>4. local.at = "read" => local.upto <= log'[local.found]
    BY <1>3, <2>2, <2>3 DEF TailInv, ViewInOrder
  <2>5. QED
    BY <1>2, <2>1, <2>4 DEF TailInv, ViewInOrder
<1>9. LinesInOrder'
  <2>1. Sending => NotAfter(send["tail"].line, EndOfLog')
    BY <1>1, <1>7, FramesCarryMarks DEF TailInv, LinesInOrder, Sender
  <2>2. \A i \in DOMAIN flight : flight[i].line \in Mark
    BY <1>1, FramesCarryMarks
  <2>3. FlightInOrder(flight)'
    BY <1>2, <1>7, <2>2 DEF TailInv, LinesInOrder, FlightInOrder, Sending
  <2>4. QED
    BY <1>2, <2>1, <2>3 DEF TailInv, LinesInOrder, Sending
<1>10. NumbersInOrder'
  BY <1>2 DEF TailInv, NumbersInOrder
<1>11. NotAfter(shown, shown')
  BY <1>1, <1>2, NotAfterOrder DEF TailTypes
<1>12. QED
  BY <1>4, <1>5, <1>8, <1>9, <1>10, <1>11 DEF TailInv

\* The local viewer reads what it has found, or what has come since.
LEMMA LocalGoesOn ==
  ASSUME TailInv, LocalLook \/ LocalRead
  PROVE  TailInv' /\ NotAfter(shown, shown')
<1>1. TailTypes /\ UNCHANGED <<log, cur, viewer, channelVars>>
  BY DEF TailInv, LocalLook, LocalRead, fileVars
<1>2. EndOfLog \in Mark /\ EndOfLog' = EndOfLog
  BY <1>1 DEF TailTypes, EndOfLog, Mark
<1>3. FilesInOrder' /\ NumbersInOrder'
  BY <1>1 DEF TailInv, FilesInOrder, NumbersInOrder, channelVars
<1>4. LinesInOrder' /\ TailTypes' /\ ViewInOrder' /\ NotAfter(shown, shown')
  <2>1. CASE LocalLook
    <3>1. Latest = cur
      BY <1>1, <2>1, LatestIsCurrent DEF TailInv, LocalLook
    <3>2. /\ viewer = "local" /\ UNCHANGED shown
          /\ local' = [local EXCEPT !.at = "read", !.found = cur, !.upto = log[cur]]
      BY <2>1, <3>1 DEF LocalLook
    <3>3. /\ local'.at = "read" /\ local'.found = cur /\ local'.upto = log[cur]
          /\ local' \in [at : {"look", "read"}, file : Log, size : Nat, found : Log, upto : Nat]
      BY <1>1, <3>2 DEF TailTypes
    <3>4. TailTypes'
      BY <1>1, <3>2, <3>3 DEF TailTypes, channelVars
    <3>5. LinesInOrder'
      BY <1>1, <1>2, <3>2 DEF TailInv, LinesInOrder, FlightInOrder, Sending, channelVars
    <3>6. log[cur] \in Nat /\ log[cur] > 0
      BY <1>1, <2>1, LatestIsCurrent DEF TailTypes, TailInv, LocalLook
    <3>7. ViewInOrder'
      BY <1>1, <1>2, <3>2, <3>3, <3>6 DEF TailInv, ViewInOrder, EndOfLog, channelVars
    <3>8. QED
      BY <1>1, <3>2, <3>4, <3>5, <3>7, NotAfterOrder DEF TailTypes
  <2>2. CASE LocalRead
    <3> DEFINE n == IF local.size = 0 \/ local.file # local.found THEN log[local.found]
                    ELSE local.upto
    <3>1. /\ local.at = "read" /\ viewer = "local" /\ shown' = <<local.found, n>>
          /\ local' = [local EXCEPT !.at = "look", !.file = local.found, !.size = local.upto]
      BY <1>1, <2>2 DEF LocalRead, TailInv, ViewInOrder, TailTypes
    <3>2. local.found \in Log /\ local.upto \in Nat /\ log[local.found] \in Nat
      BY <1>1 DEF TailTypes
    <3>3. /\ n \in Nat /\ local.upto <= n /\ n <= log[local.found]
          /\ NotAfter(shown, <<local.found, local.upto>>)
      BY <3>1, <3>2 DEF TailInv, ViewInOrder
    <3> HIDE DEF n
    <3>4. /\ <<local.found, local.upto>> \in Mark /\ shown' \in Mark
          /\ NotAfter(<<local.found, local.upto>>, shown')
      BY <3>1, <3>2, <3>3 DEF Mark, NotAfter
    <3>5. NotAfter(shown, shown')
      BY <1>1, <3>3, <3>4, NotAfterOrder DEF TailTypes
    <3>6. NotAfter(shown', EndOfLog)
      <4>1. log[local.found] > 0
        BY <3>1, <3>2 DEF TailInv, ViewInOrder
      <4>2. local.found = cur \/ Newer(cur, local.found)
        BY <3>2, <4>1 DEF TailInv, FilesInOrder
      <4>3. QED
        BY <3>1, <3>3, <4>2 DEF NotAfter, EndOfLog
    <3>7. /\ local'.at = "look"
          /\ local' \in [at : {"look", "read"}, file : Log, size : Nat, found : Log, upto : Nat]
      BY <1>1, <3>1 DEF TailTypes
    <3>8. TailTypes'
      BY <1>1, <3>4, <3>7 DEF TailTypes, channelVars
    <3>9. LinesInOrder'
      BY <1>1, <3>1 DEF TailInv, ViewInOrder, LinesInOrder, FlightInOrder, Sending, channelVars
    <3>10. ViewInOrder'
      BY <1>1, <1>2, <3>1, <3>6, <3>7 DEF TailInv, ViewInOrder, channelVars
    <3>11. QED
      BY <3>5, <3>8, <3>9, <3>10
  <2>3. QED
    BY <2>1, <2>2
<1>5. QED
  BY <1>3, <1>4 DEF TailInv

\* What the steps on the channel have in common: the files stay, there is a
\* channel, and what is shown is what was or a line of a frame.
ChannelStep ==
    \/ TailPoll \/ Pong \/ TailRecv \/ Watchdog \/ Redial \/ NetFails
    \/ \E s \in Sender : SendLock(s) \/ SendWrite(s)

\* They leave the viewer and the files alone.
LEMMA ChannelKeepsFiles == ChannelStep => UNCHANGED <<log, cur, viewer, local>>
BY DEF ChannelStep, TailPoll, Pong, TailRecv, Watchdog, Redial, NetFails, SendLock, SendWrite,
   fileVars

\* A local viewer has no channel.
LEMMA ChannelIsRemote ==
  ASSUME TailInv, ChannelStep, viewer = "local"
  PROVE  /\ UNCHANGED <<net, flight, shown, rx>>
         /\ send'["tail"] = send["tail"]
<1>1. /\ net = "down" /\ flight = <<>> /\ send["tail"].at = "idle"
      /\ send \in [Sender -> SendType]
  BY DEF TailInv, ViewInOrder, TailTypes
<1>2. PICK s \in Sender : SendLock(s) \/ SendWrite(s)
  BY <1>1 DEF ChannelStep, TailPoll, Pong, TailRecv, Watchdog, Redial, NetFails
<1>3. s # "tail"
  BY <1>1, <1>2 DEF SendLock, SendWrite
<1>4. QED
  BY <1>1, <1>2, <1>3 DEF SendLock, SendWrite, Sender

\* Types.
LEMMA ChannelTypes ==
  ASSUME TailInv, ChannelStep
  PROVE  TailTypes'
<1>1. TailTypes
  BY DEF TailInv
<1>2. UNCHANGED <<log, cur, viewer, local>>
  BY ChannelKeepsFiles
<1>3. None0 \in Mark
  BY TailAssumption DEF None0, Mark, Log
<1>4. ASSUME send' \in [Sender -> SendType],
             wmu' \in Sender \cup {Nobody}, tx' \in Nat, rx' \in Nat, flight' \in Seq(Frame),
             net' \in {"up", "frozen", "down"}, shown' \in Mark
      PROVE  TailTypes'
  BY <1>1, <1>2, <1>4 DEF TailTypes
<1>5. CASE TailPoll
  <2>1. Latest = cur
    BY <1>1, <1>5, LatestIsCurrent DEF TailInv, TailPoll
  <2>2. <<cur, log[cur]>> \in Mark
    BY <1>1 DEF TailTypes, Mark
  <2>3. /\ send' = [send EXCEPT !["tail"] = [at |-> "want", num |-> 0, line |-> <<cur, log[cur]>>]]
        /\ UNCHANGED <<wmu, tx, rx, flight, net, shown>>
    BY <1>5, <2>1 DEF TailPoll
  <2>4. [at |-> "want", num |-> 0, line |-> <<cur, log[cur]>>] \in SendType
    BY <2>2 DEF SendType
  <2>5. send' \in [Sender -> SendType]
    BY <1>1, <2>3, <2>4 DEF TailTypes
  <2>6. QED
    BY <1>1, <1>4, <2>3, <2>5 DEF TailTypes
<1>6. CASE Pong
  <2>1. /\ send' = [send EXCEPT !["loop"] = [NoSend EXCEPT !.at = "want"]]
        /\ UNCHANGED <<wmu, tx, rx, flight, net, shown>>
    BY <1>6 DEF Pong
  <2>2. [NoSend EXCEPT !.at = "want"] = [at |-> "want", num |-> 0, line |-> None0]
    BY DEF NoSend
  <2>3. QED
    <3>1. [at |-> "want", num |-> 0, line |-> None0] \in SendType
      BY <1>3 DEF SendType
    <3>2. send' \in [Sender -> SendType]
      BY <1>1, <2>1, <2>2, <3>1 DEF TailTypes
    <3>3. QED
      BY <1>1, <1>4, <2>1, <3>2 DEF TailTypes
<1>7. ASSUME NEW s \in Sender, SendLock(s)
      PROVE  TailTypes'
  <2>1. /\ wmu' = s /\ tx' = tx + 1 /\ UNCHANGED <<rx, flight, net, shown>>
        /\ send' = [send EXCEPT ![s].at = "write", ![s].num = tx]
    BY <1>7 DEF SendLock
  <2>2. send[s] \in SendType
    BY <1>1 DEF TailTypes
  <2>3. [send[s] EXCEPT !.at = "write", !.num = tx] \in SendType
    BY <1>1, <2>2 DEF TailTypes, SendType
  <2>4. send' \in [Sender -> SendType]
    BY <1>1, <2>1, <2>3 DEF TailTypes
  <2>5. /\ wmu' \in Sender \cup {Nobody} /\ tx' \in Nat /\ rx' \in Nat
        /\ flight' \in Seq(Frame) /\ net' \in {"up", "frozen", "down"} /\ shown' \in Mark
    BY <1>1, <2>1 DEF TailTypes
  <2>6. QED
    BY <1>4, <2>4, <2>5
<1>8. ASSUME NEW s \in Sender, SendWrite(s)
      PROVE  TailTypes'
  <2>1. /\ send' = [send EXCEPT ![s] = NoSend] /\ wmu' = Nobody
        /\ UNCHANGED <<tx, rx, net, shown>>
        /\ \/ flight' = Append(flight, [num |-> send[s].num, line |-> send[s].line])
           \/ UNCHANGED flight
    BY <1>8 DEF SendWrite
  <2>2. NoSend \in SendType
    BY <1>3 DEF NoSend, SendType
  <2>3. [num |-> send[s].num, line |-> send[s].line] \in Frame
    BY <1>1, FramesCarryMarks DEF Frame
  <2>4. flight' \in Seq(Frame)
    <3> DEFINE fr == [num |-> send[s].num, line |-> send[s].line]
    <3>1. fr \in Frame /\ flight \in Seq(Frame) /\ flight' \in {flight, Append(flight, fr)}
      BY <1>1, <2>1, <2>3 DEF TailTypes
    <3> HIDE DEF fr
    <3>2. QED
      BY <3>1
  <2>5. QED
    BY <1>1, <1>4, <2>1, <2>2, <2>4 DEF TailTypes
<1>9. CASE TailRecv
  <2>1. /\ flight # <<>> /\ flight' = Tail(flight) /\ UNCHANGED <<send, wmu, tx>>
        /\ rx' \in {rx, rx + 1} /\ net' \in {net, "down"}
        /\ shown' \in {shown, flight[1].line}
    BY <1>1, <1>9 DEF TailRecv, TailTypes
  <2>2. flight' \in Seq(Frame) /\ 1 \in DOMAIN flight
    BY <1>1, <2>1 DEF TailTypes
  <2>3. shown' \in Mark
    BY <1>1, <2>1, <2>2, FramesCarryMarks DEF TailTypes
  <2>4. /\ send' \in [Sender -> SendType] /\ wmu' \in Sender \cup {Nobody}
        /\ tx' \in Nat /\ rx' \in Nat /\ net' \in {"up", "frozen", "down"}
    BY <1>1, <2>1 DEF TailTypes
  <2>5. QED
    BY <1>4, <2>2, <2>3, <2>4
<1>10. CASE Watchdog \/ NetFails
  BY <1>1, <1>4, <1>10 DEF Watchdog, NetFails, TailTypes
<1>11. CASE Redial
  <2>1. NoSend \in SendType
    BY <1>3 DEF NoSend, SendType
  <2>2. QED
    BY <1>1, <1>4, <1>11, <2>1 DEF Redial, TailTypes
<1>12. QED
  BY <1>5, <1>6, <1>7, <1>8, <1>9, <1>10, <1>11 DEF ChannelStep

\* The lock: whoever has a number has wmu until the frame is written.
LEMMA NumbersGoOn ==
  ASSUME TailInv, ChannelStep
  PROVE  NumbersInOrder'
<1>1. TailTypes /\ NumbersInOrder
  BY DEF TailInv
<1>2. /\ send \in [Sender -> SendType]
      /\ Nobody \notin Sender /\ wmu \in Sender \cup {Nobody}
      /\ flight \in Seq(Frame) /\ tx \in Nat /\ rx \in Nat /\ Len(flight) \in Nat
      /\ DOMAIN flight = 1 .. Len(flight)
  BY <1>1 DEF TailTypes, Sender, Nobody
<1>3. CASE TailPoll \/ Pong
  <2>1. PICK s \in Sender : /\ send[s].at = "idle"
                            /\ \A p \in Sender \ {s} : send'[p] = send[p]
                            /\ send'[s].at = "want"
    <3>1. CASE TailPoll
      <4>1. /\ "tail" \in Sender /\ send["tail"].at = "idle"
            /\ \A p \in Sender \ {"tail"} : send'[p] = send[p]
            /\ send'["tail"].at = "want"
        BY <1>2, <3>1 DEF TailPoll, Sender
      <4>2. QED
        BY <4>1
    <3>2. CASE Pong
      <4>1. /\ "loop" \in Sender /\ send["loop"].at = "idle"
            /\ \A p \in Sender \ {"loop"} : send'[p] = send[p]
            /\ send'["loop"].at = "want"
        BY <1>2, <3>2 DEF Pong, Sender, NoSend
      <4>2. QED
        BY <4>1
    <3>3. QED
      BY <1>3, <3>1, <3>2
  <2>2. UNCHANGED <<wmu, tx, rx, flight, net>>
    BY <1>3 DEF TailPoll, Pong
  <2>3. wmu # s
    BY <1>1, <2>1 DEF NumbersInOrder
  <2>4. \A p \in Sender : /\ send'[p].at = "write" <=> send[p].at = "write"
                          /\ p # s => send'[p] = send[p]
    BY <1>2, <2>1
  <2>5. QED
    BY <1>1, <1>2, <2>2, <2>3, <2>4 DEF NumbersInOrder
<1>4. ASSUME NEW s \in Sender, SendLock(s)
      PROVE  NumbersInOrder'
  <2>1. /\ wmu = Nobody /\ wmu' = s /\ tx' = tx + 1 /\ UNCHANGED <<rx, flight, net>>
        /\ send' = [send EXCEPT ![s].at = "write", ![s].num = tx]
    BY <1>4 DEF SendLock
  <2>2. send'[s].at = "write" /\ send'[s].num = tx /\ \A p \in Sender \ {s} : send'[p] = send[p]
    BY <1>2, <2>1
  <2>3. QED
    BY <1>1, <1>2, <2>1, <2>2 DEF NumbersInOrder
<1>5. ASSUME NEW s \in Sender, SendWrite(s)
      PROVE  NumbersInOrder'
  <2>1. /\ send[s].at = "write" /\ wmu' = Nobody /\ UNCHANGED <<tx, rx, net>>
        /\ send' = [send EXCEPT ![s] = NoSend]
        /\ net = "up" => flight' = Append(flight, [num |-> send[s].num, line |-> send[s].line])
    BY <1>5 DEF SendWrite
  <2>2. wmu = s
    BY <1>1, <2>1 DEF NumbersInOrder
  <2>3. \A p \in Sender : send'[p].at # "write"
    BY <1>1, <1>2, <2>1, <2>2 DEF NumbersInOrder, NoSend
  <2>4. CASE net = "up"
    <3>1. send[s].num = rx + Len(flight) /\ tx = send[s].num + 1
      BY <1>1, <1>2, <2>2, <2>4 DEF NumbersInOrder
    <3>2. /\ Len(flight') = Len(flight) + 1 /\ DOMAIN flight' = 1 .. Len(flight) + 1
          /\ \A i \in 1 .. Len(flight) : flight'[i] = flight[i]
          /\ flight'[Len(flight) + 1].num = send[s].num
      BY <1>2, <2>1, <2>4
    <3>3. \A i \in DOMAIN flight' : flight'[i].num = rx + (i - 1)
      BY <1>1, <1>2, <2>4, <3>1, <3>2 DEF NumbersInOrder
    <3>4. QED
      BY <1>2, <2>1, <2>3, <3>1, <3>2, <3>3 DEF NumbersInOrder
  <2>5. CASE net # "up"
    BY <1>2, <2>1, <2>3, <2>5 DEF NumbersInOrder
  <2>6. QED
    BY <2>4, <2>5
<1>6. CASE TailRecv
  <2>1. /\ net = "up" /\ flight # <<>> /\ flight' = Tail(flight) /\ UNCHANGED <<send, wmu, tx>>
        /\ flight[1].num = rx => rx' = rx + 1
    BY <1>6 DEF TailRecv
  <2>2. 1 \in DOMAIN flight /\ flight[1].num = rx + (1 - 1)
    BY <1>1, <1>2, <2>1 DEF NumbersInOrder
  <2>3. rx' = rx + 1
    BY <1>2, <2>1, <2>2
  <2>4. /\ Len(flight') = Len(flight) - 1 /\ DOMAIN flight' = 1 .. Len(flight) - 1
        /\ \A i \in 1 .. Len(flight) - 1 : flight'[i] = flight[i + 1] /\ i + 1 \in DOMAIN flight
    BY <1>2, <2>1
  <2>5. \A i \in DOMAIN flight' : flight'[i].num = rx' + (i - 1)
    <3>1. ASSUME NEW i \in 1 .. Len(flight) - 1
          PROVE  flight[i + 1].num = rx + 1 + (i - 1)
      <4>1. flight[i + 1].num = rx + (i + 1 - 1)
        BY <1>1, <2>1, <2>4 DEF NumbersInOrder
      <4>2. QED
        BY <1>2, <4>1
    <3>2. QED
      BY <2>3, <2>4, <3>1
  <2>6. Len(flight') \in Nat /\ rx' + Len(flight') = rx + Len(flight)
    BY <1>2, <2>3, <2>4
  <2>7. /\ wmu' = Nobody => tx' = rx' + Len(flight')
        /\ wmu' # Nobody => send'[wmu'].num = rx' + Len(flight') /\ tx' = send'[wmu'].num + 1
    BY <1>1, <2>1, <2>6 DEF NumbersInOrder
  <2>8. \A s \in Sender : send'[s].at = "write" <=> wmu' = s
    BY <1>1, <2>1 DEF NumbersInOrder
  <2>9. QED
    BY <2>5, <2>7, <2>8 DEF NumbersInOrder
<1>7. CASE Watchdog \/ NetFails
  BY <1>1, <1>7 DEF Watchdog, NetFails, NumbersInOrder
<1>8. CASE Redial
  <2>1. /\ \A s \in Sender : send'[s].at = "idle"
        /\ wmu' = Nobody /\ tx' = 0 /\ rx' = 0 /\ flight' = <<>>
    BY <1>8 DEF Redial, NoSend
  <2>2. \A s \in Sender : s # wmu'
    BY <1>2, <2>1
  <2>3. DOMAIN flight' = {} /\ Len(flight') = 0
    BY <2>1
  <2>4. \A s \in Sender : send'[s].at = "write" <=> wmu' = s
    BY <2>1, <2>2
  <2>5. tx' = rx' + Len(flight') /\ \A i \in DOMAIN flight' : FALSE
    BY <2>1, <2>3
  <2>6. wmu' = Nobody
    BY <2>1
  <2>7. QED
    BY <2>4, <2>5, <2>6 DEF NumbersInOrder
<1>9. QED
  BY <1>3, <1>4, <1>5, <1>6, <1>7, <1>8 DEF ChannelStep

\* A step that leaves the frames, what is shown and the line to be sent alone leaves
\* them in order.
LEMMA SameLines ==
  ASSUME LinesInOrder, UNCHANGED <<log, cur, flight, shown>>,
         Sending' = Sending, send'["tail"].line = send["tail"].line,
         send'["loop"].line = None0
  PROVE  LinesInOrder'
BY DEF LinesInOrder, FlightInOrder, Sending, EndOfLog

\* The lines stay in order, and what is shown goes on.
LEMMA LinesGoOn ==
  ASSUME TailInv, ChannelStep
  PROVE  LinesInOrder' /\ NotAfter(shown, shown') /\ NotAfter(shown', EndOfLog)
<1>1. TailTypes /\ LinesInOrder
  BY DEF TailInv
<1>2. UNCHANGED <<log, cur>> /\ EndOfLog' = EndOfLog
  BY ChannelKeepsFiles DEF EndOfLog
<1>3. /\ send \in [Sender -> SendType] /\ "tail" \in Sender /\ "loop" \in Sender
      /\ Sender = {"tail", "loop"} /\ shown \in Mark /\ EndOfLog \in Mark
      /\ flight \in Seq(Frame) /\ Len(flight) \in Nat /\ DOMAIN flight = 1 .. Len(flight)
  BY <1>1 DEF TailTypes, Sender, EndOfLog, Mark
<1>4. NotAfter(shown, shown) /\ NotAfter(shown, EndOfLog) /\ NotAfter(EndOfLog, EndOfLog)
  BY <1>3, NotAfterOrder DEF TailInv, ViewInOrder
<1>5. CASE TailPoll
  <2>1. Latest = cur
    BY <1>1, <1>5, LatestIsCurrent DEF TailInv, TailPoll
  <2>2. /\ send' = [send EXCEPT !["tail"] = [at |-> "want", num |-> 0, line |-> EndOfLog]]
        /\ UNCHANGED <<flight, shown>>
    BY <1>5, <2>1 DEF TailPoll, EndOfLog
  <2>3. /\ send'["tail"].at = "want" /\ send'["tail"].line = EndOfLog
        /\ send'["loop"] = send["loop"]
    BY <1>3, <2>2
  <2>4. QED
    BY <1>1, <1>2, <1>4, <2>2, <2>3 DEF LinesInOrder, FlightInOrder, Sending
<1>6. CASE Pong
  <2>1. /\ send' = [send EXCEPT !["loop"] = [NoSend EXCEPT !.at = "want"]]
        /\ UNCHANGED <<flight, shown>>
    BY <1>6 DEF Pong
  <2>2. send'["tail"] = send["tail"] /\ send'["loop"].line = None0
    BY <1>3, <2>1 DEF NoSend
  <2>3. QED
    BY <1>1, <1>2, <1>4, <2>1, <2>2, SameLines DEF Sending
<1>7. ASSUME NEW s \in Sender, SendLock(s)
      PROVE  LinesInOrder' /\ UNCHANGED shown
  <2>1. /\ send[s].at = "want" /\ UNCHANGED <<flight, shown>>
        /\ send' = [send EXCEPT ![s].at = "write", ![s].num = tx]
    BY <1>7 DEF SendLock
  <2>2. \A p \in Sender : /\ send'[p].line = send[p].line
                          /\ send'[p].at # "idle" <=> send[p].at # "idle"
    BY <1>3, <2>1 DEF SendType
  <2>3. send'["loop"].line = None0 /\ Sending' = Sending
    BY <1>1, <1>3, <2>2 DEF LinesInOrder, Sending
  <2>4. QED
    BY <1>1, <1>2, <1>3, <2>1, <2>2, <2>3, SameLines
<1>8. ASSUME NEW s \in Sender, SendWrite(s)
      PROVE  LinesInOrder' /\ UNCHANGED shown
  <2> DEFINE fr == [num |-> send[s].num, line |-> send[s].line]
             n  == Len(flight)
  <2>1. /\ send[s].at = "write" /\ UNCHANGED shown
        /\ send' = [send EXCEPT ![s] = NoSend]
        /\ flight' = flight \/ flight' = Append(flight, fr)
    BY <1>8 DEF SendWrite
  <2>2. /\ send'["loop"].line = None0
        /\ s = "tail" => ~ Sending' /\ Sending
        /\ s = "loop" => send'["tail"] = send["tail"]
    BY <1>1, <1>3, <2>1 DEF LinesInOrder, Sending, NoSend
  <2>3. CASE flight' = flight
    BY <1>1, <1>2, <1>3, <2>1, <2>2, <2>3 DEF LinesInOrder, FlightInOrder, Sending
  <2>4. CASE flight' = Append(flight, fr)
    <3>1. /\ DOMAIN flight' = 1 .. n + 1 /\ flight'[n + 1].line = send[s].line
          /\ \A i \in 1 .. n : flight'[i] = flight[i]
      BY <1>3, <2>4
    <3>2. CASE s = "loop"
      <4>1. flight'[n + 1].line = None0 /\ Sending' = Sending
        BY <1>1, <2>2, <3>1, <3>2 DEF LinesInOrder, Sending
      <4>2. \A i \in DOMAIN flight' : flight'[i].line # None0
                => i \in DOMAIN flight /\ flight'[i] = flight[i]
        BY <1>3, <3>1, <4>1
      <4>3. FlightInOrder(flight)'
        BY <1>1, <1>2, <2>1, <2>2, <3>2, <4>1, <4>2 DEF LinesInOrder, FlightInOrder
      <4>4. QED
        BY <1>1, <1>2, <2>1, <2>2, <3>2, <4>1, <4>3 DEF LinesInOrder
    <3>3. CASE s = "tail"
      <4>1. /\ NotAfter(shown, send["tail"].line) /\ NotAfter(send["tail"].line, EndOfLog)
            /\ flight'[n + 1].line = send["tail"].line /\ ~ Sending'
        BY <1>1, <2>2, <3>1, <3>3 DEF LinesInOrder
      <4>2. \A i \in 1 .. n : flight[i].line # None0 =>
               /\ NotAfter(shown, flight[i].line) /\ NotAfter(flight[i].line, EndOfLog)
               /\ NotAfter(flight[i].line, send["tail"].line)
        BY <1>1, <1>3, <2>2, <3>3 DEF LinesInOrder, FlightInOrder
      <4>3. \A i, j \in 1 .. n : /\ flight[i].line # None0
                                 /\ j > i /\ flight[j].line # None0
                => NotAfter(flight[i].line, flight[j].line)
        BY <1>1, <1>3 DEF LinesInOrder, FlightInOrder
      <4>4. ASSUME NEW i \in 1 .. n + 1, flight'[i].line # None0
            PROVE  /\ NotAfter(shown, flight'[i].line) /\ NotAfter(flight'[i].line, EndOfLog)
                   /\ \A j \in 1 .. n + 1 : j > i /\ flight'[j].line # None0
                                    => NotAfter(flight'[i].line, flight'[j].line)
        <5>1. CASE i = n + 1
          BY <1>3, <4>1, <5>1
        <5>2. CASE i \in 1 .. n
          <6>1. flight'[i] = flight[i]
            BY <3>1, <5>2
          <6>2. ASSUME NEW j \in 1 .. n + 1, j > i, flight'[j].line # None0
                PROVE  NotAfter(flight'[i].line, flight'[j].line)
            <7>1. CASE j = n + 1
              BY <4>1, <4>2, <4>4, <5>2, <6>1, <7>1
            <7>2. CASE j \in 1 .. n
              BY <3>1, <4>3, <4>4, <5>2, <6>1, <6>2, <7>2
            <7>3. QED
              BY <1>3, <7>1, <7>2
          <6>3. QED
            BY <4>2, <4>4, <5>2, <6>1, <6>2
        <5>3. QED
          BY <1>3, <5>1, <5>2
      <4>5. FlightInOrder(flight)'
        BY <1>2, <2>1, <3>1, <4>1, <4>4 DEF FlightInOrder
      <4>6. QED
        BY <2>1, <2>2, <4>1, <4>5 DEF LinesInOrder
    <3>4. QED
      BY <1>3, <3>2, <3>3
  <2>5. QED
    BY <2>1, <2>3, <2>4
<1>9. CASE TailRecv
  <2>1. /\ net = "up" /\ flight # <<>> /\ flight' = Tail(flight) /\ UNCHANGED send
        /\ shown' \in {shown, flight[1].line}
        /\ flight[1].line = None0 => shown' = shown
        /\ flight[1].num = rx /\ flight[1].line # None0 => shown' = flight[1].line
    BY <1>9 DEF TailRecv
  <2>2. 1 \in DOMAIN flight /\ \A i \in DOMAIN flight : flight[i].line \in Mark
    BY <1>1, <1>3, <2>1, FramesCarryMarks
  <2>3. shown' = IF flight[1].line = None0 THEN shown ELSE flight[1].line
    <3>1. net = "up" => flight[1].num = rx + (1 - 1)
      BY <2>2 DEF TailInv, NumbersInOrder
    <3>2. rx \in Nat
      BY <1>1 DEF TailTypes
    <3>3. QED
      BY <2>1, <3>1, <3>2
  <2>4. /\ DOMAIN flight' = 1 .. Len(flight) - 1
        /\ \A i \in 1 .. Len(flight) - 1 : flight'[i] = flight[i + 1] /\ i + 1 \in DOMAIN flight
    BY <1>3, <2>1
  <2>5. NotAfter(shown, shown') /\ NotAfter(shown', EndOfLog)
    BY <1>1, <1>4, <2>2, <2>3 DEF LinesInOrder, FlightInOrder
  <2>6. \A i \in DOMAIN flight : flight[i].line # None0 => NotAfter(shown, flight[i].line)
    BY <1>1 DEF LinesInOrder, FlightInOrder
  <2>7. ASSUME NEW i \in DOMAIN flight, i > 1, flight[i].line # None0
        PROVE  NotAfter(shown', flight[i].line)
    BY <1>1, <2>2, <2>3, <2>6, <2>7 DEF LinesInOrder, FlightInOrder
  <2>8. Sending' = Sending /\ send' = send
    BY <2>1 DEF Sending
  <2>9. Sending => NotAfter(shown', send["tail"].line) /\ NotAfter(send["tail"].line, EndOfLog)
    BY <1>1, <2>2, <2>3 DEF LinesInOrder, FlightInOrder
  <2>10. ASSUME NEW i \in 1 .. Len(flight) - 1, flight'[i].line # None0
         PROVE  /\ NotAfter(shown', flight'[i].line) /\ NotAfter(flight'[i].line, EndOfLog)
                /\ Sending => NotAfter(flight'[i].line, send["tail"].line)
                /\ \A j \in 1 .. Len(flight) - 1 : j > i /\ flight'[j].line # None0
                                    => NotAfter(flight'[i].line, flight'[j].line)
    <3>1. flight'[i] = flight[i + 1] /\ i + 1 \in DOMAIN flight /\ i + 1 > 1
      BY <2>4
    <3>2. /\ NotAfter(flight[i + 1].line, EndOfLog)
          /\ Sending => NotAfter(flight[i + 1].line, send["tail"].line)
          /\ \A j \in DOMAIN flight : j > i + 1 /\ flight[j].line # None0
                                    => NotAfter(flight[i + 1].line, flight[j].line)
      BY <1>1, <2>10, <3>1 DEF LinesInOrder, FlightInOrder
    <3>3. ASSUME NEW j \in 1 .. Len(flight) - 1, j > i, flight'[j].line # None0
          PROVE  NotAfter(flight'[i].line, flight'[j].line)
      <4>1. flight'[j] = flight[j + 1] /\ j + 1 \in DOMAIN flight /\ j + 1 > i + 1
        BY <1>3, <2>4, <3>3
      <4>2. QED
        BY <3>1, <3>2, <3>3, <4>1
    <3>4. NotAfter(shown', flight'[i].line)
      BY <2>7, <2>10, <3>1
    <3>5. QED
      BY <3>1, <3>2, <3>3, <3>4
  <2>11. FlightInOrder(flight)'
    BY <1>2, <2>4, <2>8, <2>10 DEF FlightInOrder
  <2>12. LinesInOrder'
    BY <1>1, <1>2, <2>8, <2>9, <2>11 DEF LinesInOrder
  <2>13. QED
    BY <2>5, <2>12
<1>10. CASE Watchdog \/ NetFails
  <2>1. UNCHANGED <<flight, shown, send>>
    BY <1>10 DEF Watchdog, NetFails
  <2>2. QED
    BY <1>1, <1>2, <1>4, <2>1, SameLines DEF Sending, LinesInOrder
<1>11. CASE Redial
  <2>1. send' = [s \in Sender |-> NoSend] /\ flight' = <<>> /\ UNCHANGED shown
    BY <1>11 DEF Redial
  <2>2. send'["loop"].line = None0 /\ ~ Sending' /\ DOMAIN flight' = {}
    BY <1>3, <2>1 DEF Sending, NoSend
  <2>3. QED
    BY <1>4, <2>1, <2>2 DEF LinesInOrder, FlightInOrder
<1>12. QED
  BY <1>4, <1>5, <1>6, <1>7, <1>8, <1>9, <1>10, <1>11 DEF ChannelStep

\* Every step keeps all of it, and none goes back.
LEMMA TailGoesOn ==
  ASSUME TailInv, [TailNext]_tailVars
  PROVE  TailInv' /\ NotAfter(shown, shown')
<1>1. CASE WriteLine
  BY <1>1, WriterGoesOn
<1>2. CASE LocalLook \/ LocalRead
  BY <1>2, LocalGoesOn
<1>3. CASE ChannelStep
  <2>1. UNCHANGED <<log, cur, viewer, local>> /\ EndOfLog' = EndOfLog
    BY <1>3, ChannelKeepsFiles DEF EndOfLog
  <2>2. FilesInOrder'
    BY <2>1 DEF TailInv, FilesInOrder
  <2>3. TailTypes' /\ NumbersInOrder' /\ LinesInOrder'
        /\ NotAfter(shown, shown') /\ NotAfter(shown', EndOfLog)
    BY <1>3, ChannelTypes, NumbersGoOn, LinesGoOn
  <2>4. viewer = "local" => UNCHANGED <<net, flight, shown>> /\ send'["tail"] = send["tail"]
    BY <1>3, ChannelIsRemote
  <2>5. viewer \in {"local", "remote"}
    BY DEF TailInv, TailTypes
  <2>6. local.at = "read" => viewer = "local"
    BY <2>5 DEF TailInv, ViewInOrder
  <2>7. ViewInOrder'
    BY <2>1, <2>3, <2>4, <2>6 DEF TailInv, ViewInOrder
  <2>8. QED
    BY <2>2, <2>3, <2>7 DEF TailInv
<1>4. CASE UNCHANGED tailVars
  <2>1. TailInv'
    BY <1>4 DEF TailInv, TailTypes, FilesInOrder, ViewInOrder, LinesInOrder, FlightInOrder,
       NumbersInOrder, Sending, EndOfLog, tailVars, fileVars, channelVars
  <2>2. QED
    BY <1>4, <2>1, NotAfterOrder DEF TailInv, TailTypes, tailVars
<1>5. QED
  BY <1>1, <1>2, <1>3, <1>4 DEF TailNext, TailWork, ChannelStep

\* Nothing has been written, and nothing is shown.
LEMMA TailBegins == TailInit => TailInv
<1> SUFFICES ASSUME TailInit
             PROVE  TailInv
  OBVIOUS
<1>1. <<0, 0>> \in Log /\ None0 \in Mark
  BY TailAssumption DEF Log, Mark, None0
<1>2. /\ log = [f \in Log |-> 0] /\ cur = <<0, 0>> /\ shown = None0
      /\ local = [at |-> "look", file |-> <<0, 0>>, size |-> 0, found |-> <<0, 0>>, upto |-> 0]
      /\ send = [s \in Sender |-> NoSend] /\ wmu = Nobody /\ tx = 0 /\ rx = 0
      /\ flight = <<>> /\ net = "down" /\ viewer \in {"local", "remote"}
  BY DEF TailInit
<1>3. NoSend \in SendType
  BY <1>1 DEF NoSend, SendType
<1>4. TailTypes
  BY <1>1, <1>2, <1>3 DEF TailTypes
<1>5. FilesInOrder
  BY <1>1, <1>2 DEF FilesInOrder
<1>6. EndOfLog \in Mark /\ NotAfter(shown, EndOfLog)
  BY <1>1, <1>2, NotAfterOrder DEF EndOfLog, Mark
<1>7. /\ \A s \in Sender : send[s].at = "idle" /\ send[s].line = None0
      /\ "tail" \in Sender /\ "loop" \in Sender /\ Nobody \notin Sender
  BY <1>2 DEF NoSend, Sender, Nobody
<1>8. ViewInOrder
  BY <1>2, <1>6, <1>7 DEF ViewInOrder
<1>9. LinesInOrder
  BY <1>2, <1>7 DEF LinesInOrder, FlightInOrder, Sending
<1>10. NumbersInOrder
  BY <1>2, <1>7 DEF NumbersInOrder
<1>11. QED
  BY <1>4, <1>5, <1>8, <1>9, <1>10 DEF TailInv

\* A viewer of a log is never sent back to an older line: what is shown next ends with
\* the line shown last or a newer one.  Not a rotation or midnight changes this, nor a
\* connection that breaks or freezes and the one that replaces it, nor the pongs among
\* the lines (web.go tailLiveDir, tail.go handleTail and TailStream).
THEOREM ViewerNeverGoesBack == TailSpec => NeverBack
<1>1. TailInv /\ [TailNext]_tailVars => TailInv' /\ [NotAfter(shown, shown')]_tailVars
  BY TailGoesOn
<1>2. QED
  BY <1>1, TailBegins, PTL DEF TailSpec, NeverBack

\* Both ends of a channel count alike: as long as the connection is up, the frame that
\* arrives is the one whose number is due, whichever of the two goroutines sent it
\* (channel.go Send, Recv).
THEOREM FramesInStep == TailSpec => []InStep
<1>1. TailInv => InStep
  <2> SUFFICES ASSUME TailInv, net = "up", flight # <<>>
               PROVE  Head(flight).num = rx
    BY DEF InStep
  <2>1. flight \in Seq(Frame) /\ rx \in Nat
    BY DEF TailInv, TailTypes
  <2>2. 1 \in DOMAIN flight /\ Head(flight) = flight[1]
    BY <2>1
  <2>3. flight[1].num = rx + (1 - 1)
    BY <2>2 DEF TailInv, NumbersInOrder
  <2>4. QED
    BY <2>1, <2>2, <2>3
<1>2. TailInv /\ [TailNext]_tailVars => TailInv'
  BY TailGoesOn
<1>3. QED
  BY <1>1, <1>2, TailBegins, PTL DEF TailSpec
=============================================================================
