----------------------------- MODULE MeshProofs -----------------------------
(***************************************************************************)
(* Proofs about the mesh beside the pairing: the tunnels, the calls, the   *)
(* links and the files, for any number of tunnels, peers, addresses, loops *)
(* and clients.                                                            *)
(***************************************************************************)
EXTENDS MeshLinks, MeshTunnels, MeshShare, MeshCall, FiniteSetTheorems, TLAPS

USE TunnelAssumption
-----------------------------------------------------------------------------
(* Tunnels: the endpoint is given back.                                    *)

TunRec  == [at : TunSteps, pattern : Pattern, closed : BOOLEAN,
            user : {"none", "on", "gone"}]
DialRec == [at : DialSteps, ep : Tunnels, open : BOOLEAN, acked : BOOLEAN]

\* What the invariant needs of the types.
TunnelTypes ==
    /\ tun \in [Tunnel -> TunRec]
    /\ dial \in [Tunnel -> DialRec]
    /\ ep \in [Device -> Tunnels] /\ slot \in [Device -> Tunnels]
    /\ table \in [Pattern -> Tunnels]

AtWork(t) == dial[t].at \in {"connect", "ack", "pump", "stop"}
AskedFirst == \A t \in Tunnel : dial[t].at # "none" => tun[t].at # "none"
TunnelInv == TunnelTypes /\ EndpointGivenBack /\ AskedFirst

\* Hanging up on a client closes its connection and moves no goroutine.
LEMMA HungUpTypes ==
  ASSUME TunnelTypes, NEW d \in Device,
         NEW now \in [Tunnel -> DialRec]
  PROVE  /\ HungUp(d, now) \in [Tunnel -> DialRec]
         /\ \A t \in Tunnel : HungUp(d, now)[t].at = now[t].at
<1>1. CASE slot[d] = NoTunnel
  BY <1>1 DEF HungUp
<1>2. CASE slot[d] # NoTunnel
  <2>1. slot[d] \in Tunnel
    BY <1>2 DEF TunnelTypes, Tunnels
  <2> DEFINE r == [now[slot[d]] EXCEPT !.open = FALSE]
  <2>2. /\ r \in DialRec
        /\ r.at = now[slot[d]].at
    BY <2>1 DEF DialRec
  <2>3. HungUp(d, now) = [now EXCEPT ![slot[d]] = r]
    BY <1>2 DEF HungUp
  <2> HIDE DEF r
  <2>4. QED
    BY <2>1, <2>2, <2>3
<1>3. QED
  BY <1>1, <1>2

\* The device of a tunnel is what it was asked for.
LEMMA DevStays ==
  ASSUME TunnelTypes, NEW t \in Tunnel, tun'[t].pattern = tun[t].pattern
  PROVE  Dev(t)' = Dev(t) /\ Dev(t) \in Device
  BY DEF TunnelTypes, TunRec, Dev

\* An endpoint keeps its dial, when the dials at its device go on working.
LEMMA StaysServed ==
  ASSUME TunnelInv,
         \A t \in Tunnel : tun'[t].pattern = tun[t].pattern,
         \A d \in Device : ep'[d] # NoTunnel =>
             \/ \E t \in Tunnel : Dev(t) = d /\ AtWork(t)'
             \/ /\ ep[d] # NoTunnel
                /\ \A t \in Tunnel : Dev(t) = d /\ AtWork(t) => AtWork(t)'
  PROVE  EndpointGivenBack'
<1>1. \A t \in Tunnel : Dev(t)' = Dev(t)
  BY DevStays DEF TunnelInv
<1>2. SUFFICES ASSUME NEW d \in Device, ep'[d] # NoTunnel
               PROVE  \E t \in Tunnel : Dev(t)' = d /\ AtWork(t)'
  BY DEF EndpointGivenBack, AtWork
<1>3. CASE \E t \in Tunnel : Dev(t) = d /\ AtWork(t)'
  BY <1>1, <1>3
<1>4. CASE /\ ep[d] # NoTunnel
           /\ \A t \in Tunnel : Dev(t) = d /\ AtWork(t) => AtWork(t)'
  <2>1. PICK t \in Tunnel : Dev(t) = d /\ AtWork(t)
    BY <1>4 DEF TunnelInv, EndpointGivenBack, AtWork
  <2>2. QED
    BY <1>1, <1>4, <2>1
<1>5. QED
  BY <1>2, <1>3, <1>4

\* The steps of a dial.
LEMMA DialsServe ==
  ASSUME TunnelInv, NEW t \in Tunnel, DialStep(t)
  PROVE  TunnelTypes' /\ EndpointGivenBack'
<1> USE DEF TunnelInv
<1>1. Dev(t) \in Device
  BY DEF TunnelTypes, TunRec, Dev
<1>2. CASE DialStart(t)
  <2>1. TunnelTypes'
    <3>1. ep' \in [Device -> Tunnels]
      BY <1>1, <1>2 DEF DialStart, TunnelTypes, Tunnels
    <3>2. /\ \A e \in Tunnels :
                [dial[t] EXCEPT !.at = "connect", !.ep = e] \in DialRec
          /\ [dial[t] EXCEPT !.at = "over"] \in DialRec
      <4>1. dial[t] \in DialRec
        BY DEF TunnelTypes
      <4>2. QED
        BY <4>1, ZenonT(60) DEF DialRec, DialSteps
    <3>3. dial' \in [Tunnel -> DialRec]
      <4>1. \/ \E e \in Tunnels : dial' = [dial EXCEPT ![t] =
                  [dial[t] EXCEPT !.at = "connect", !.ep = e]]
            \/ dial' = [dial EXCEPT ![t] = [dial[t] EXCEPT !.at = "over"]]
        BY <1>1, <1>2, <3>1 DEF DialStart, DialAt, TunnelTypes
      <4>2. QED
        BY <3>2, <4>1 DEF TunnelTypes
    <3>4. QED
      BY <1>2, <3>1, <3>3 DEF DialStart, TunnelTypes
  <2>2. ASSUME NEW d \in Device, ep'[d] # NoTunnel
        PROVE  \/ \E b \in Tunnel : Dev(b) = d /\ AtWork(b)'
               \/ /\ ep[d] # NoTunnel
                  /\ \A b \in Tunnel : Dev(b) = d /\ AtWork(b) => AtWork(b)'
    <3>1. CASE dial'[t].at = "connect"
      <4>1. AtWork(t)'
        BY <3>1 DEF AtWork
      <4>2. CASE d = Dev(t)
        BY <4>1, <4>2
      <4>3. CASE d # Dev(t)
        <5>1. ep[d] # NoTunnel
          BY <1>1, <1>2, <2>2, <4>3 DEF DialStart, TunnelTypes
        <5>2. \A b \in Tunnel : b # t => dial'[b] = dial[b]
          BY <1>2 DEF DialStart, DialAt, TunnelTypes
        <5>3. QED
          BY <4>1, <5>1, <5>2 DEF AtWork
      <4>4. QED
        BY <4>2, <4>3
    <3>2. CASE dial'[t].at # "connect"
      <4>1. dial' = DialAt(t, "over") /\ ep' = ep /\ dial[t].at = "start"
        BY <1>2, <3>2 DEF DialStart, DialAt, TunnelTypes, DialRec
      <4>2. \A b \in Tunnel : b # t => dial'[b] = dial[b]
        BY <4>1 DEF DialAt, TunnelTypes
      <4>3. QED
        BY <2>2, <4>1, <4>2 DEF AtWork
    <3>3. QED
      BY <3>1, <3>2
  <2>3. QED
    BY <1>2, <2>1, <2>2, StaysServed DEF DialStart
<1>3. CASE DialFails(t)
  <2> DEFINE now == DialAt(t, "over")
  <2>1. /\ now \in [Tunnel -> DialRec]
        /\ \A b \in Tunnel : b # t => now[b].at = dial[b].at
    BY DEF DialAt, TunnelTypes, DialSteps, DialRec
  <2>2. dial' = HungUp(Dev(t), now)
    BY <1>3 DEF DialFails
  <2> HIDE DEF now
  <2>3. QED
    <3>1. /\ dial' \in [Tunnel -> DialRec]
          /\ \A b \in Tunnel : dial'[b].at = now[b].at
      BY <1>1, <2>1, <2>2, HungUpTypes
    <3>2. TunnelTypes'
      BY <1>1, <1>3, <3>1 DEF DialFails, ProxyStopped, TunnelTypes, Tunnels
    <3>3. ASSUME NEW d \in Device, ep'[d] # NoTunnel
          PROVE  /\ ep[d] # NoTunnel
                 /\ \A b \in Tunnel : Dev(b) = d /\ AtWork(b) => AtWork(b)'
      <4>1. d # Dev(t) /\ ep'[d] = ep[d]
        BY <1>1, <1>3, <3>3 DEF DialFails, ProxyStopped, TunnelTypes
      <4>2. QED
        BY <2>1, <3>1, <3>3, <4>1 DEF AtWork
    <3>4. QED
      BY <1>3, <3>2, <3>3, StaysServed DEF DialFails
<1>4. CASE DialConnect(t)
  <2>1. TunnelTypes'
    <3>1. \A o \in BOOLEAN : [dial[t] EXCEPT !.at = "ack", !.open = o] \in DialRec
      <4>1. dial[t] \in DialRec
        BY DEF TunnelTypes
      <4>2. QED
        BY <4>1, ZenonT(60) DEF DialRec, DialSteps
    <3>2. dial' \in [Tunnel -> DialRec]
      BY <1>4, <3>1 DEF DialConnect, TunnelTypes
    <3>3. QED
      BY <1>1, <1>4, <3>2 DEF DialConnect, TunnelTypes, Tunnels
  <2>2. \A b \in Tunnel : AtWork(b) => AtWork(b)'
    BY <1>4 DEF DialConnect, TunnelTypes, AtWork
  <2>3. QED
    BY <1>4, <2>1, <2>2, StaysServed DEF DialConnect
<1>5. CASE DialAck(t)
  <2>1. TunnelTypes'
    BY <1>5, ZenonT(60) DEF DialAck, DialAt, TunnelTypes, DialSteps, DialRec
  <2>2. \A b \in Tunnel : AtWork(b) => AtWork(b)'
    BY <1>5 DEF DialAck, DialAt, TunnelTypes, AtWork
  <2>3. QED
    BY <1>5, <2>1, <2>2, StaysServed DEF DialAck
<1>6. CASE PumpsEnd(t)
  <2>1. TunnelTypes'
    BY <1>6 DEF PumpsEnd, DialAt, TunnelTypes, DialSteps, DialRec
  <2>2. \A b \in Tunnel : AtWork(b) => AtWork(b)'
    BY <1>6 DEF PumpsEnd, DialAt, TunnelTypes, AtWork
  <2>3. QED
    BY <1>6, <2>1, <2>2, StaysServed DEF PumpsEnd
<1>7. CASE DialStop(t)
  <2> DEFINE now == DialAt(t, "over")
             hung == HungUp(Dev(t), now)
  <2>1. /\ now \in [Tunnel -> DialRec]
        /\ \A b \in Tunnel : b # t => now[b].at = dial[b].at
    BY DEF DialAt, TunnelTypes, DialSteps, DialRec
  <2>2. dial' = [hung EXCEPT ![t].open = FALSE]
    BY <1>7 DEF DialStop
  <2> HIDE DEF now
  <2>3. /\ hung \in [Tunnel -> DialRec]
        /\ \A b \in Tunnel : hung[b].at = now[b].at
    BY <1>1, <2>1, HungUpTypes
  <2> HIDE DEF hung
  <2>4. /\ dial' \in [Tunnel -> DialRec]
        /\ \A b \in Tunnel : dial'[b].at = now[b].at
    BY <2>2, <2>3 DEF DialRec
  <2>5. TunnelTypes'
    BY <1>1, <1>7, <2>4 DEF DialStop, ProxyStopped, TunnelTypes, Tunnels
  <2>6. ASSUME NEW d \in Device, ep'[d] # NoTunnel
        PROVE  /\ ep[d] # NoTunnel
               /\ \A b \in Tunnel : Dev(b) = d /\ AtWork(b) => AtWork(b)'
    <3>1. d # Dev(t) /\ ep'[d] = ep[d]
      BY <1>1, <1>7, <2>6 DEF DialStop, ProxyStopped, TunnelTypes
    <3>2. QED
      BY <2>1, <2>4, <2>6, <3>1 DEF AtWork
  <2>7. QED
    BY <1>7, <2>5, <2>6, StaysServed DEF DialStop
<1>8. QED
  BY <1>2, <1>3, <1>4, <1>5, <1>6, <1>7 DEF DialStep

\* A dial is at work only for a tunnel that was asked for.
LEMMA DialsAskedFirst ==
  ASSUME TunnelInv, NEW t \in Tunnel, DialStep(t)
  PROVE  AskedFirst'
<1>1. tun' = tun /\ dial[t].at # "none"
  BY DEF DialStep, DialStart, DialFails, DialConnect, DialAck, PumpsEnd, DialStop
<1>2. \A b \in Tunnel : b # t => dial'[b].at = dial[b].at
  <2>1. CASE DialFails(t) \/ DialStop(t)
    <3> DEFINE now == DialAt(t, "over")
    <3>1. /\ now \in [Tunnel -> DialRec]
          /\ \A b \in Tunnel : b # t => now[b].at = dial[b].at
      BY DEF TunnelInv, DialAt, TunnelTypes, DialSteps, DialRec
    <3>2. \/ dial' = HungUp(Dev(t), now)
          \/ dial' = [HungUp(Dev(t), now) EXCEPT ![t].open = FALSE]
      BY <2>1 DEF DialFails, DialStop
    <3> HIDE DEF now
    <3>3. Dev(t) \in Device
      BY DEF TunnelInv, TunnelTypes, TunRec, Dev
    <3> DEFINE hung == HungUp(Dev(t), now)
    <3>4. /\ hung \in [Tunnel -> DialRec]
          /\ \A b \in Tunnel : hung[b].at = now[b].at
      BY <3>1, <3>3, HungUpTypes DEF TunnelInv
    <3>5. dial' = hung \/ dial' = [hung EXCEPT ![t].open = FALSE]
      BY <3>2
    <3> HIDE DEF hung
    <3>6. QED
      BY <3>1, <3>4, <3>5
  <2>2. CASE DialStart(t) \/ DialConnect(t) \/ DialAck(t) \/ PumpsEnd(t)
    BY <2>2 DEF DialStart, DialConnect, DialAck, PumpsEnd, DialAt, TunnelInv, TunnelTypes
  <2>3. QED
    BY <2>1, <2>2 DEF DialStep
<1>3. QED
  BY <1>1, <1>2 DEF AskedFirst, TunnelInv

\* A step of the user's side changes one tunnel, never its pattern, and never
\* back to the start.
LEMMA UsersMove ==
  ASSUME TunnelTypes, NEW t \in Tunnel,
         ServeStep(t) \/ UserDials(t) \/ UserHangsUp(t) \/ UserSends(t)
  PROVE  /\ tun' \in [Tunnel -> TunRec]
         /\ \A b \in Tunnel : tun'[b].pattern = tun[b].pattern
         /\ \A b \in Tunnel : tun[b].at # "none" => tun'[b].at # "none"
<1> SUFFICES \E r \in TunRec : /\ tun' = [tun EXCEPT ![t] = r]
                               /\ r.pattern = tun[t].pattern
                               /\ tun[t].at # "none" => r.at # "none"
  BY DEF TunnelTypes
<1>1. /\ tun[t] \in TunRec
      /\ tun = [b \in Tunnel |-> tun[b]]
  BY DEF TunnelTypes
<1>2. CASE OpenFails(t) \/ OpenDone(t) \/ AcceptFails(t) \/ UserGone(t)
  <2>1. PICK step \in TunSteps \ {"none"} : tun' = [tun EXCEPT ![t].at = step]
    BY <1>2 DEF OpenFails, OpenDone, AcceptFails, UserGone, TunAt, TunSteps
  <2> DEFINE r == [tun[t] EXCEPT !.at = step]
  <2>2. r \in TunRec /\ r.pattern = tun[t].pattern /\ r.at # "none"
    BY <1>1, <2>1 DEF TunRec
  <2>3. tun' = [tun EXCEPT ![t] = r]
    BY <1>1, <2>1
  <2> HIDE DEF r
  <2>4. QED
    BY <2>2, <2>3
<1>3. CASE Drop(t)
  <2> DEFINE r == [tun[t] EXCEPT !.at = "done", !.closed = TRUE]
  <2>1. r \in TunRec /\ r.pattern = tun[t].pattern /\ r.at # "none"
    BY <1>1 DEF TunRec, TunSteps
  <2>2. tun' = [tun EXCEPT ![t] = r]
    BY <1>1, <1>3 DEF Drop
  <2> HIDE DEF r
  <2>3. QED
    BY <2>1, <2>2
<1>4. CASE UserDials(t)
  <2> DEFINE r == [tun[t] EXCEPT !.at = "bridge", !.user = "on"]
  <2>1. r \in TunRec /\ r.pattern = tun[t].pattern /\ r.at # "none"
    BY <1>1 DEF TunRec, TunSteps
  <2>2. tun' = [tun EXCEPT ![t] = r]
    BY <1>1, <1>4 DEF UserDials
  <2> HIDE DEF r
  <2>3. QED
    BY <2>1, <2>2
<1>5. CASE UserHangsUp(t)
  <2> DEFINE r == [tun[t] EXCEPT !.user = "gone"]
  <2>1. r \in TunRec /\ r.pattern = tun[t].pattern /\ r.at = tun[t].at
    BY <1>1 DEF TunRec
  <2>2. tun' = [tun EXCEPT ![t] = r]
    BY <1>1, <1>5 DEF UserHangsUp
  <2> HIDE DEF r
  <2>3. QED
    BY <2>1, <2>2
<1>6. CASE UserSends(t)
  <2> DEFINE r == [tun[t] EXCEPT !.at = "drop", !.user = "gone"]
  <2>1. r \in TunRec /\ r.pattern = tun[t].pattern /\ r.at # "none"
    BY <1>1 DEF TunRec, TunSteps
  <2>2. tun' = [tun EXCEPT ![t] = r]
    BY <1>1, <1>6 DEF UserSends
  <2> HIDE DEF r
  <2>3. QED
    BY <2>1, <2>2
<1>7. QED
  BY <1>2, <1>3, <1>4, <1>5, <1>6 DEF ServeStep

\* The steps of the initiator move no dial away from its work.
LEMMA InitiatorServes ==
  ASSUME TunnelInv, NEW t \in Tunnel,
         \/ ServeStep(t) \/ OpenAsks(t) \/ UserDials(t)
         \/ UserHangsUp(t) \/ UserSends(t)
  PROVE  TunnelInv'
<1> USE DEF TunnelInv
<1>1. CASE OpenAsks(t)
  <2>1. TunnelTypes'
    BY <1>1, SMTT(30) DEF OpenAsks, TunAt, DialAt, TunnelTypes, TunSteps, DialSteps, TunRec, DialRec
  <2>2. \A b \in Tunnel : tun'[b].pattern = tun[b].pattern
    BY <1>1 DEF OpenAsks, TunAt, TunnelTypes, TunRec
  <2>3. \A b \in Tunnel : AtWork(b) => AtWork(b)'
    BY <1>1 DEF OpenAsks, DialAt, TunnelTypes, AtWork, AskedFirst
  <2>4. AskedFirst'
    BY <1>1 DEF OpenAsks, TunAt, DialAt, TunnelTypes, AskedFirst
  <2>5. QED
    BY <2>1, <2>2, <2>3, <2>4, <1>1, StaysServed DEF OpenAsks
<1>2. CASE ServeStep(t) \/ UserDials(t) \/ UserHangsUp(t) \/ UserSends(t)
  <2>1. dial' = dial /\ ep' = ep /\ slot' = slot
    BY <1>2 DEF ServeStep, OpenFails, OpenDone, AcceptFails, UserGone, Drop,
                UserDials, UserHangsUp, UserSends
  <2>2. /\ tun' \in [Tunnel -> TunRec]
        /\ \A b \in Tunnel : tun'[b].pattern = tun[b].pattern
        /\ \A b \in Tunnel : tun[b].at # "none" => tun'[b].at # "none"
    BY <1>2, UsersMove
  <2>3. table' \in [Pattern -> Tunnels]
    BY <1>2 DEF ServeStep, OpenFails, OpenDone, AcceptFails, UserGone, Drop,
                UserDials, UserHangsUp, UserSends, TunnelTypes, Tunnels
  <2>4. TunnelTypes'
    BY <2>1, <2>2, <2>3 DEF TunnelTypes
  <2>5. AskedFirst'
    BY <2>1, <2>2 DEF AskedFirst
  <2>6. QED
    BY <2>1, <2>2, <2>4, <2>5, StaysServed DEF AtWork
<1>3. QED
  BY <1>1, <1>2

\* The board goes, or the user closes a tunnel.
LEMMA GoneServes ==
  ASSUME TunnelInv,
         \/ \E d \in Device : EndpointGone(d)
         \/ \E p \in Pattern : CloseTunnel(p)
  PROVE  TunnelInv'
<1> USE DEF TunnelInv
<1>1. ASSUME NEW g \in Device, EndpointGone(g)
      PROVE  TunnelInv'
  <2>1. /\ dial' \in [Tunnel -> DialRec]
        /\ \A b \in Tunnel : dial'[b].at = dial[b].at
    BY <1>1, HungUpTypes DEF EndpointGone, TunnelTypes
  <2>2. TunnelTypes'
    BY <1>1, <2>1 DEF EndpointGone, ProxyStopped, TunnelTypes, Tunnels
  <2>3. \A d \in Device : ep'[d] # NoTunnel => ep[d] # NoTunnel
    BY <1>1 DEF EndpointGone, ProxyStopped, TunnelTypes
  <2>4. AskedFirst'
    BY <1>1, <2>1 DEF EndpointGone, AskedFirst
  <2>5. QED
    BY <1>1, <2>1, <2>2, <2>3, <2>4, StaysServed DEF EndpointGone, AtWork
<1>2. ASSUME NEW p \in Pattern, CloseTunnel(p)
      PROVE  TunnelInv'
  <2>1. dial' = dial /\ ep' = ep /\ slot' = slot /\ table[p] \in Tunnel
    BY <1>2 DEF CloseTunnel, TunnelTypes, Tunnels
  <2>2. /\ tun' \in [Tunnel -> TunRec]
        /\ \A b \in Tunnel : tun'[b].pattern = tun[b].pattern /\ tun'[b].at = tun[b].at
    <3> DEFINE r == [tun[table[p]] EXCEPT !.closed = TRUE]
    <3>1. tun[table[p]] \in TunRec
      BY <2>1 DEF TunnelTypes
    <3>2. /\ r \in TunRec /\ r.at = tun[table[p]].at
          /\ r.pattern = tun[table[p]].pattern
      BY <3>1 DEF TunRec
    <3>3. tun' = [tun EXCEPT ![table[p]] = r]
      BY <1>2, <2>1 DEF CloseTunnel, TunnelTypes
    <3> HIDE DEF r
    <3>4. QED
      BY <2>1, <3>2, <3>3 DEF TunnelTypes
  <2>3. TunnelTypes'
    BY <1>2, <2>1, <2>2 DEF CloseTunnel, TunnelTypes, Tunnels
  <2>4. QED
    BY <2>1, <2>2, <2>3, StaysServed DEF AtWork, AskedFirst
<1>3. QED
  BY <1>1, <1>2

\* EndpointGivenBack (MeshTunnels), for any tunnels to any devices: whichever
\* of them fails, ends or is overtaken, the last one to leave a device takes
\* its endpoint with it (tunnel.go:39-40).
THEOREM EndpointsAreGivenBack == TunnelSpec => []EndpointGivenBack
<1>1. TunnelInit => TunnelInv
  <2> SUFFICES ASSUME TunnelInit PROVE TunnelInv
    OBVIOUS
  <2>1. tun \in [Tunnel -> TunRec]
    <3>1. [at : {"none"}, pattern : Pattern, closed : {FALSE},
           user : {"none"}] \subseteq TunRec
      BY DEF TunRec, TunSteps
    <3>2. QED
      BY <3>1 DEF TunnelInit
  <2>2. dial \in [Tunnel -> DialRec]
    BY DEF TunnelInit, DialRec, DialSteps, Tunnels
  <2>3. TunnelTypes
    BY <2>1, <2>2 DEF TunnelInit, TunnelTypes, Tunnels
  <2>4. QED
    BY <2>3 DEF TunnelInit, TunnelInv, EndpointGivenBack, AskedFirst
<1>2. TunnelInv /\ [TunnelNext]_tunnelVars => TunnelInv'
  <2> SUFFICES ASSUME TunnelInv, [TunnelNext]_tunnelVars PROVE TunnelInv'
    OBVIOUS
  <2>1. CASE UNCHANGED tunnelVars
    BY <2>1 DEF tunnelVars, TunnelInv, TunnelTypes, EndpointGivenBack, AskedFirst, Dev
  <2>2. ASSUME NEW t \in Tunnel, DialStep(t) PROVE TunnelInv'
    BY <2>2, DialsServe, DialsAskedFirst DEF TunnelInv
  <2>3. QED
    BY <2>1, <2>2, InitiatorServes, GoneServes DEF TunnelNext
<1>3. TunnelInv => EndpointGivenBack
  BY DEF TunnelInv
<1>4. QED
  BY <1>1, <1>2, <1>3, PTL DEF TunnelSpec
-----------------------------------------------------------------------------
(* Calls: what is reported of a peer is what it answered.                  *)

AskRec  == [at : {"idle", "resolve", "known", "dial", "send", "recv", "done"},
            sawOK : BOOLEAN, devices : BOOLEAN,
            err : {"", "unreachable", "refused", "broken"}]
ToldRec == [state : {"asked", "online", "offline"}, devices : BOOLEAN]
CallTypes ==
    /\ ask \in [Asked -> AskRec] /\ conn \in [Asked -> {"none", "up", "down"}]
    /\ line \in [Asked -> Seq(Frame)] /\ told \in [Asked -> ToldRec]
    /\ serves \in [Asked -> {"idle", "request", "forward", "end", "done", "wedged"}]

\* What holds of one peer.  The end of an answer is the last thing the peer
\* sends, so that whoever has read it knows that the peer is done.
Unasked(p)   == ask[p].at \in {"idle", "resolve", "known", "dial", "send"}
                    => /\ serves[p] = "idle" /\ line[p] = <<>>
                       /\ ~ask[p].sawOK /\ ~ask[p].devices
EndIsLast(p) == (\E n \in 1 .. Len(line[p]) : line[p][n].end) => serves[p] = "done"
OkIsDevices(p) == ask[p].sawOK = ask[p].devices
GoodEnd(p)   == ask[p].at = "done" /\ ask[p].err = "" => ask[p].sawOK /\ serves[p] = "done"
ToldTrue(p)  == told[p].state = "online" => told[p].devices /\ serves[p] = "done"
CallOf(p) == Unasked(p) /\ EndIsLast(p) /\ OkIsDevices(p) /\ GoodEnd(p) /\ ToldTrue(p)
CallInv == CallTypes /\ \A p \in Asked : CallOf(p)

\* A step that leaves one peer's call as it is.
LEMMA CallStays ==
  ASSUME NEW p \in Asked, CallOf(p), ask'[p] = ask[p], line'[p] = line[p],
         serves'[p] = serves[p], told'[p] = told[p]
  PROVE  CallOf(p)'
  BY DEF CallOf, Unasked, EndIsLast, OkIsDevices, GoodEnd, ToldTrue

\* A call that returns with an error has nothing to report.
LEMMA ErrorReturns ==
  ASSUME CallInv, NEW p \in Asked, NEW e \in {"unreachable", "refused", "broken"},
         Returns(p, e), UNCHANGED <<line, serves, told>>
  PROVE  CallInv'
<1> DEFINE r == [ask[p] EXCEPT !.at = "done", !.err = e]
<1>1. ask[p] \in AskRec
  BY DEF CallInv, CallTypes
<1>2. /\ r \in AskRec /\ r.at = "done" /\ r.err # "" /\ r.sawOK = ask[p].sawOK
      /\ r.devices = ask[p].devices
  BY <1>1 DEF AskRec
<1>3. ask' = [ask EXCEPT ![p] = r]
  BY DEF Returns, CallInv, CallTypes
<1> HIDE DEF r
<1>4. CallTypes'
  BY <1>2, <1>3, ZenonT(60) DEF Returns, CallInv, CallTypes
<1>5. CallOf(p)'
  BY <1>2, <1>3 DEF CallInv, CallTypes, CallOf, Unasked, EndIsLast, OkIsDevices,
                    GoodEnd, ToldTrue
<1>6. \A q \in Asked \ {p} : CallOf(q)'
  BY <1>3, CallStays DEF CallInv, CallTypes
<1>7. QED
  BY <1>4, <1>5, <1>6 DEF CallInv

\* A step of the call itself that is no error.
LEMMA CallMoves ==
  ASSUME CallInv, NEW p \in Asked, NEW r \in AskRec,
         ask' = [ask EXCEPT ![p] = r],
         \E c \in {"none", "up", "down"} : conn' = [conn EXCEPT ![p] = c],
         UNCHANGED told, CallOf(p)',
         line' \in [Asked -> Seq(Frame)], \A q \in Asked \ {p} : line'[q] = line[q],
         \E w \in {"idle", "request", "forward", "end", "done", "wedged"} :
             serves' = [serves EXCEPT ![p] = w]
  PROVE  CallInv'
<1>1. CallTypes'
  BY DEF CallInv, CallTypes
<1>2. \A q \in Asked \ {p} : CallOf(q)'
  BY CallStays DEF CallInv, CallTypes
<1>3. QED
  BY <1>1, <1>2 DEF CallInv

\* The call's own steps.
LEMMA CallKeeps ==
  ASSUME CallInv, NEW p \in Asked, CallStep(p)
  PROVE  CallInv'
<1>0. /\ ask[p] \in AskRec /\ line[p] \in Seq(Frame) /\ CallOf(p)
      /\ conn[p] \in {"none", "up", "down"}
      /\ serves[p] \in {"idle", "request", "forward", "end", "done", "wedged"}
      /\ conn = [conn EXCEPT ![p] = conn[p]] /\ serves = [serves EXCEPT ![p] = serves[p]]
  BY DEF CallInv, CallTypes
<1> DEFINE Forward(step) == [ask[p] EXCEPT !.at = step]
<1>1. ASSUME NEW step \in {"known", "dial", "send"},
             ask[p].at \in {"resolve", "known", "dial"},
             ask' = [ask EXCEPT ![p].at = step],
             UNCHANGED conn \/ conn' = [conn EXCEPT ![p] = "up"],
             UNCHANGED <<line, serves, told>>
      PROVE  CallInv'
  <2>1. /\ Forward(step) \in AskRec /\ Forward(step).at = step
        /\ Forward(step).sawOK = ask[p].sawOK /\ Forward(step).devices = ask[p].devices
    BY <1>0, <1>1 DEF AskRec
  <2>2. ask' = [ask EXCEPT ![p] = Forward(step)]
    BY <1>1
  <2> HIDE DEF Forward
  <2>3. ask'[p] = Forward(step)
    BY <2>2 DEF CallInv, CallTypes
  <2>4. CallOf(p)'
    BY <1>0, <1>1, <2>1, <2>3 DEF CallOf, Unasked, EndIsLast, OkIsDevices,
                                  GoodEnd, ToldTrue
  <2>5. \E c \in {"none", "up", "down"} : conn' = [conn EXCEPT ![p] = c]
    BY <1>0, <1>1
  <2>6. line' \in [Asked -> Seq(Frame)]
    BY <1>1 DEF CallInv, CallTypes
  <2>7. QED
    BY <1>0, <1>1, <2>1, <2>2, <2>4, <2>5, <2>6, CallMoves
<1>2. CASE Match(p)
  <2>1. CASE Returns(p, "unreachable")
    BY <1>2, <2>1, ErrorReturns DEF Match
  <2>2. CASE ask' = [ask EXCEPT ![p].at = "known"] /\ UNCHANGED conn
    BY <1>1, <1>2, <2>2 DEF Match
  <2>3. QED
    BY <1>2, <2>1, <2>2 DEF Match
<1>3. CASE FastFail(p)
  <2>1. CASE Returns(p, "refused")
    BY <1>3, <2>1, ErrorReturns DEF FastFail
  <2>2. CASE ask' = [ask EXCEPT ![p].at = "dial"] /\ UNCHANGED conn
    BY <1>1, <1>3, <2>2 DEF FastFail
  <2>3. QED
    BY <1>3, <2>1, <2>2 DEF FastFail
<1>4. CASE DialPeer(p)
  <2>1. CASE Returns(p, "unreachable")
    BY <1>4, <2>1, ErrorReturns DEF DialPeer
  <2>2. CASE ask' = [ask EXCEPT ![p].at = "send"] /\ conn' = [conn EXCEPT ![p] = "up"]
    BY <1>1, <1>4, <2>2 DEF DialPeer
  <2>3. QED
    BY <1>4, <2>1, <2>2 DEF DialPeer
<1>5. CASE SendReq(p)
  <2>1. CASE conn[p] # "up"
    BY <1>5, <2>1, ErrorReturns DEF SendReq
  <2>2. CASE conn[p] = "up"
    <3>1. /\ Forward("recv") \in AskRec /\ Forward("recv").at = "recv"
          /\ Forward("recv").sawOK = ask[p].sawOK
          /\ Forward("recv").devices = ask[p].devices
      BY <1>0 DEF AskRec
    <3>2. ask' = [ask EXCEPT ![p] = Forward("recv")]
      BY <1>5, <2>2 DEF SendReq
    <3> HIDE DEF Forward
    <3>3. /\ ask'[p] = Forward("recv") /\ serves'[p] = "request" /\ line[p] = <<>>
          /\ serves[p] = "idle" /\ line' = line /\ told' = told
      BY <1>0, <1>5, <2>2, <3>2 DEF SendReq, CallInv, CallTypes, CallOf, Unasked
    <3>4. CallOf(p)'
      BY <1>0, <3>1, <3>3 DEF CallOf, Unasked, EndIsLast, OkIsDevices, GoodEnd, ToldTrue
    <3>5. line' \in [Asked -> Seq(Frame)] /\ \A q \in Asked \ {p} : line'[q] = line[q]
      BY <3>3 DEF CallInv, CallTypes
    <3>6. QED
      BY <1>0, <1>5, <2>2, <3>1, <3>2, <3>4, <3>5, CallMoves DEF SendReq
  <2>3. QED
    BY <2>1, <2>2
<1>6. CASE RecvFrame(p)
  <2> DEFINE frame == Head(line[p])
             ok    == ask[p].sawOK \/ frame.resp = "ok"
             r     == [ask[p] EXCEPT !.sawOK = ok,
                         !.devices = ask[p].devices \/ frame.resp = "ok",
                         !.at  = IF frame.end THEN "done" ELSE ask[p].at,
                         !.err = IF frame.end THEN Verdict(ok) ELSE ask[p].err]
  <2>1. /\ line[p] # <<>> /\ ask[p].at = "recv" /\ line' = [line EXCEPT ![p] = Tail(line[p])]
        /\ conn' = [conn EXCEPT ![p] = IF frame.end THEN "down" ELSE conn[p]]
        /\ serves' = serves /\ told' = told
    BY <1>6 DEF RecvFrame
  <2>2. frame \in Frame /\ frame = line[p][1] /\ Len(line[p]) \in Nat /\ Len(line[p]) >= 1
    BY <1>0, <2>1
  <2>3. frame.end \in BOOLEAN /\ ok \in BOOLEAN
    BY <1>0, <2>2 DEF Frame, AskRec
  <2>4. ask' = [ask EXCEPT ![p] = r]
    BY <1>6 DEF RecvFrame
  <2>5. r \in AskRec
    BY <1>0, <2>3 DEF AskRec, Verdict
  <2>6. /\ r.sawOK = ok /\ r.devices = (ask[p].devices \/ frame.resp = "ok")
        /\ r.at = IF frame.end THEN "done" ELSE ask[p].at
        /\ r.err = IF frame.end THEN Verdict(ok) ELSE ask[p].err
    BY <1>0 DEF AskRec
  <2>7. frame.end => serves[p] = "done"
    BY <1>0, <2>2 DEF CallOf, EndIsLast
  <2>8. r.sawOK = r.devices
    BY <1>0, <2>6 DEF CallOf, OkIsDevices
  <2>9. r.at \in {"recv", "done"}
    BY <2>1, <2>6
  <2> HIDE DEF r, ok, frame
  <2>10. r.at = "done" /\ r.err = "" => r.sawOK /\ serves[p] = "done"
    BY <2>1, <2>3, <2>6, <2>7 DEF Verdict
  <2>11. /\ Tail(line[p]) \in Seq(Frame)
         /\ \A n \in 1 .. Len(Tail(line[p])) :
               n + 1 \in 1 .. Len(line[p]) /\ Tail(line[p])[n] = line[p][n + 1]
    BY <1>0, <2>1
  <2>12. ask'[p] = r /\ line'[p] = Tail(line[p])
    BY <2>1, <2>4 DEF CallInv, CallTypes
  <2>13. EndIsLast(p)'
    BY <1>0, <2>1, <2>11, <2>12 DEF CallOf, EndIsLast
  <2>14. CallOf(p)'
    BY <1>0, <2>1, <2>8, <2>9, <2>10, <2>12, <2>13
    DEF CallOf, Unasked, OkIsDevices, GoodEnd, ToldTrue
  <2>15. /\ line' \in [Asked -> Seq(Frame)] /\ \A q \in Asked \ {p} : line'[q] = line[q]
         /\ \E c \in {"none", "up", "down"} : conn' = [conn EXCEPT ![p] = c]
    BY <1>0, <2>1, <2>11 DEF CallInv, CallTypes
  <2>16. QED
    BY <1>0, <2>1, <2>4, <2>5, <2>14, <2>15, CallMoves
<1>7. CASE RecvFails(p) \/ Deadline(p)
  BY <1>7, ErrorReturns DEF RecvFails, Deadline
<1>8. QED
  BY <1>2, <1>3, <1>4, <1>5, <1>6, <1>7 DEF CallStep

\* The peer's steps: only the last of them sends the end.
LEMMA PeerKeeps ==
  ASSUME CallInv, NEW p \in Asked, ServeGate(p) \/ ServeResp(p) \/ ServeReqEnd(p)
  PROVE  CallInv'
<1>0. /\ ask[p] \in AskRec /\ line[p] \in Seq(Frame) /\ CallOf(p)
      /\ ask' = ask /\ conn' = conn /\ told' = told
      /\ serves[p] \in {"request", "forward", "end"}
  BY DEF CallInv, CallTypes, ServeGate, ServeResp, ServeReqEnd
<1>1. PICK w \in {"forward", "end", "done", "wedged"} :
         serves' = [serves EXCEPT ![p] = w]
  BY DEF ServeGate, ServeResp, ServeReqEnd
<1>2. \/ line' = line
      \/ \E f \in Frame : /\ line' = [line EXCEPT ![p] = Append(line[p], f)]
                          /\ f.end => w = "done"
  <2>1. /\ [resp |-> "refusal", end |-> TRUE] \in Frame
        /\ [resp |-> "ok", end |-> FALSE] \in Frame
        /\ [resp |-> "none", end |-> TRUE] \in Frame
    BY DEF Frame
  <2>2. serves'[p] = w
    BY <1>1 DEF CallInv, CallTypes
  <2>3. CASE ServeGate(p)
    BY <2>1, <2>2, <2>3 DEF ServeGate, Put, CallInv, CallTypes
  <2>4. CASE ServeResp(p)
    BY <2>1, <2>4 DEF ServeResp, Put
  <2>5. CASE ServeReqEnd(p)
    BY <2>1, <2>2, <2>5 DEF ServeReqEnd, Put, CallInv, CallTypes
  <2>6. QED
    BY <2>3, <2>4, <2>5
<1>3. ~(\E n \in 1 .. Len(line[p]) : line[p][n].end)
  BY <1>0 DEF CallOf, EndIsLast
<1>4. /\ line' \in [Asked -> Seq(Frame)] /\ \A q \in Asked \ {p} : line'[q] = line[q]
      /\ serves'[p] = w
  <2>1. serves'[p] = w
    BY <1>1 DEF CallInv, CallTypes
  <2>2. CASE line' = line
    BY <2>1, <2>2 DEF CallInv, CallTypes
  <2>3. ASSUME NEW f \in Frame, line' = [line EXCEPT ![p] = Append(line[p], f)]
        PROVE  /\ line' \in [Asked -> Seq(Frame)]
               /\ \A q \in Asked \ {p} : line'[q] = line[q]
    <3>1. Append(line[p], f) \in Seq(Frame)
      BY <1>0
    <3>2. QED
      BY <2>3, <3>1 DEF CallInv, CallTypes
  <2>4. QED
    BY <1>2, <2>1, <2>2, <2>3
<1>5. EndIsLast(p)'
  <2>1. CASE line' = line
    BY <1>3, <2>1 DEF EndIsLast
  <2>2. ASSUME NEW f \in Frame, f.end => w = "done",
               line' = [line EXCEPT ![p] = Append(line[p], f)]
        PROVE  EndIsLast(p)'
    <3>1. line'[p] = Append(line[p], f)
      BY <2>2 DEF CallInv, CallTypes
    <3>2. ASSUME NEW n \in 1 .. Len(line'[p]), line'[p][n].end
          PROVE  w = "done"
      <4>1. CASE n \in 1 .. Len(line[p])
        BY <1>0, <1>3, <3>1, <3>2, <4>1
      <4>2. CASE n = Len(line[p]) + 1
        BY <1>0, <2>2, <3>1, <3>2, <4>2
      <4>3. QED
        BY <1>0, <3>1, <4>1, <4>2
    <3>3. QED
      BY <1>4, <3>2 DEF EndIsLast
  <2>3. QED
    BY <1>2, <2>1, <2>2
<1>6. CallOf(p)'
  BY <1>0, <1>4, <1>5 DEF CallOf, Unasked, OkIsDevices, GoodEnd, ToldTrue
<1>7. CallTypes'
  BY <1>0, <1>1, <1>4 DEF CallInv, CallTypes
<1>8. \A q \in Asked \ {p} : CallOf(q)'
  BY <1>0, <1>1, <1>4, CallStays DEF CallInv, CallTypes
<1>9. QED
  BY <1>6, <1>7, <1>8 DEF CallInv

\* The start, the reports, and a connection that breaks.
LEMMA RestKeeps ==
  ASSUME CallInv,
         \/ AggregateStatus
         \/ \E p \in Asked : Report(p) \/ TimeOut(p) \/ Break(p)
  PROVE  CallInv'
<1>1. CASE AggregateStatus
  <2>1. \A p \in Asked : /\ ask[p] \in AskRec /\ ask[p].at = "idle" /\ CallOf(p)
                         /\ ask'[p] = [ask[p] EXCEPT !.at = "resolve"]
    BY <1>1 DEF AggregateStatus, CallInv, CallTypes
  <2>2. \A p \in Asked : /\ ask'[p] \in AskRec /\ ask'[p].at = "resolve"
                         /\ ask'[p].sawOK = ask[p].sawOK
                         /\ ask'[p].devices = ask[p].devices
    BY <2>1, ZenonT(60) DEF AskRec
  <2>3. CallTypes'
    BY <1>1, <2>2 DEF AggregateStatus, CallInv, CallTypes
  <2>4. ASSUME NEW p \in Asked PROVE CallOf(p)'
    <3>1. line' = line /\ serves' = serves /\ told' = told
      BY <1>1 DEF AggregateStatus
    <3>2. Unasked(p)' /\ EndIsLast(p)'
      BY <2>1, <2>2, <3>1 DEF CallOf, Unasked, EndIsLast
    <3>3. OkIsDevices(p)' /\ GoodEnd(p)' /\ ToldTrue(p)'
      BY <2>1, <2>2, <3>1, ZenonT(60) DEF CallOf, OkIsDevices, GoodEnd, ToldTrue
    <3>4. QED
      BY <3>2, <3>3 DEF CallOf
  <2>5. QED
    BY <2>3, <2>4 DEF CallInv
<1>2. ASSUME NEW p \in Asked, Report(p) \/ TimeOut(p)
      PROVE  CallInv'
  <2>1. CallOf(p) /\ ask[p] \in AskRec
    BY DEF CallInv, CallTypes
  <2>2. PICK r \in ToldRec : /\ told' = [told EXCEPT ![p] = r]
                             /\ r.state = "online" => r.devices /\ serves[p] = "done"
    <3> DEFINE r == [state |-> "online", devices |-> ask[p].devices]
    <3>1. CASE Report(p) /\ ask[p].err = ""
      <4>1. /\ ask[p].devices \in BOOLEAN
            /\ ask[p].devices /\ serves[p] = "done"
        BY <2>1, <3>1 DEF Report, AskRec, CallOf, GoodEnd, OkIsDevices
      <4>2. r \in ToldRec /\ r.devices
        BY <4>1 DEF ToldRec
      <4>3. told' = [told EXCEPT ![p] = r]
        BY <3>1 DEF Report
      <4> HIDE DEF r
      <4>4. QED
        BY <4>1, <4>2, <4>3
    <3>2. CASE TimeOut(p) \/ (Report(p) /\ ask[p].err # "")
      <4>1. Offline \in ToldRec /\ Offline.state # "online"
        BY DEF ToldRec, Offline
      <4>2. told' = [told EXCEPT ![p] = Offline]
        BY <3>2 DEF Report, TimeOut
      <4>3. QED
        BY <4>1, <4>2
    <3>3. QED
      BY <1>2, <3>1, <3>2
  <2>3. UNCHANGED <<ask, conn, line, serves>>
    BY <1>2 DEF Report, TimeOut
  <2>4. CallTypes'
    BY <2>2, <2>3 DEF CallInv, CallTypes
  <2>5. told'[p] = r
    BY <2>2 DEF CallInv, CallTypes
  <2>6. CallOf(p)'
    BY <2>1, <2>2, <2>3, <2>5 DEF CallOf, Unasked, EndIsLast, OkIsDevices, GoodEnd, ToldTrue
  <2>7. \A q \in Asked \ {p} : CallOf(q)'
    BY <2>2, <2>3, CallStays DEF CallInv, CallTypes
  <2>8. QED
    BY <2>4, <2>6, <2>7 DEF CallInv
<1>3. ASSUME NEW p \in Asked, Break(p)
      PROVE  CallInv'
  <2>1. CallOf(p) /\ line[p] \in Seq(Frame)
    BY DEF CallInv, CallTypes
  <2>2. PICK n \in 0 .. Len(line[p]) : line' = [line EXCEPT ![p] = SubSeq(line[p], 1, n)]
    BY <1>3 DEF Break
  <2>3. /\ SubSeq(line[p], 1, n) \in Seq(Frame)
        /\ Len(SubSeq(line[p], 1, n)) = n
        /\ \A m \in 1 .. n : SubSeq(line[p], 1, n)[m] = line[p][m] /\ m \in 1 .. Len(line[p])
    BY <2>1
  <2>4. line'[p] = SubSeq(line[p], 1, n)
    BY <2>2 DEF CallInv, CallTypes
  <2>5. conn' \in [Asked -> {"none", "up", "down"}] /\ UNCHANGED <<ask, serves, told>>
    BY <1>3 DEF Break, CallInv, CallTypes
  <2>6. CallTypes'
    BY <2>2, <2>3, <2>5 DEF CallInv, CallTypes
  <2>7. EndIsLast(p)'
    BY <2>1, <2>3, <2>4, <2>5 DEF CallOf, EndIsLast
  <2>8. line[p] = <<>> => line'[p] = <<>>
    BY <2>1, <2>2, <2>3, <2>4
  <2>9. CallOf(p)'
    BY <2>1, <2>5, <2>7, <2>8 DEF CallOf, Unasked, OkIsDevices, GoodEnd, ToldTrue
  <2>10. \A q \in Asked \ {p} : CallOf(q)'
    BY <2>2, <2>5, CallStays DEF CallInv, CallTypes
  <2>11. QED
    BY <2>6, <2>9, <2>10 DEF CallInv
<1>4. QED
  BY <1>1, <1>2, <1>3

\* AnswerTrue (MeshCall), for any number of peers and answers of any length:
\* what the status says of a peer that is online comes from an answer that the
\* peer has sent to its end, however calls, timeouts and breaks interleave
\* (node.go:549-551).
THEOREM AnswersAreTrue == CallSpec => []AnswerTrue
<1>1. CallInit => CallInv
  <2> SUFFICES ASSUME CallInit PROVE CallInv
    OBVIOUS
  <2>1. CallTypes
    <3>1. /\ [at |-> "idle", sawOK |-> FALSE, devices |-> FALSE, err |-> ""] \in AskRec
          /\ Unknown \in ToldRec
      BY DEF AskRec, ToldRec, Unknown
    <3>2. <<>> \in Seq(Frame)
      OBVIOUS
    <3>3. QED
      BY <3>1, <3>2 DEF CallInit, CallTypes
  <2>2. ASSUME NEW p \in Asked PROVE CallOf(p)
    <3>1. /\ ask[p].at = "idle" /\ ask[p].sawOK = FALSE /\ ask[p].devices = FALSE
          /\ line[p] = <<>> /\ serves[p] = "idle" /\ told[p].state = "asked"
      BY DEF CallInit, Unknown
    <3>2. Len(line[p]) = 0
      BY <3>1
    <3>3. Unasked(p) /\ OkIsDevices(p) /\ GoodEnd(p) /\ ToldTrue(p)
      BY <3>1 DEF Unasked, OkIsDevices, GoodEnd, ToldTrue
    <3>4. EndIsLast(p)
      BY <3>2 DEF EndIsLast
    <3>5. QED
      BY <3>3, <3>4 DEF CallOf
  <2>3. QED
    BY <2>1, <2>2 DEF CallInv
<1>2. CallInv /\ [CallNext]_callVars => CallInv'
  <2> SUFFICES ASSUME CallInv, [CallNext]_callVars PROVE CallInv'
    OBVIOUS
  <2>1. CASE UNCHANGED callVars
    BY <2>1, CallStays DEF callVars, CallInv, CallTypes
  <2>2. QED
    BY <2>1, CallKeeps, PeerKeeps, RestKeeps DEF CallNext
<1>3. CallInv => AnswerTrue
  BY DEF CallInv, CallOf, ToldTrue, AnswerTrue
<1>4. QED
  BY <1>1, <1>2, <1>3, PTL DEF CallSpec
-----------------------------------------------------------------------------
(* Links: no peer that asked for one is forgotten.                         *)

USE LinksAssumption

LoopRec == [at : LoopSteps, key : Key \cup {None}, addr : Addr \cup {None},
            target : Addr \cup {None}, peer : Id \cup {None}, live : BOOLEAN]
Entries == Entry \cup {NoEntry}
LinksTypes ==
    /\ reg \in [Key -> Entries]
    /\ links \in [Key -> Loop \cup {None}]
    /\ loop \in [Loop -> LoopRec]
    /\ \A l \in Loop : loop[l].at # "done" => loop[l].key \in Key
    /\ beacon \in [id : Id \cup {None}, addr : Addr \cup {None}]
    /\ heard \subseteq Id /\ where \in [Id -> Addr \cup {None}] /\ closing \in BOOLEAN

\* The loop of a key is the key's own, and has not come to its end.
Goes(l, k, now) == now[l].key = k /\ now[l].at \notin {"done", "recheck"}
LoopsGoOn(now)  == \A k \in Key : links[k] # None => Goes(links[k], k, now)
HeardKnown      == \A i \in heard : Known(i)
LinksInv == /\ LinksTypes /\ HeardKnown /\ NotForgotten
            /\ closing \/ LoopsGoOn(loop)

\* An entry is no NoEntry: it has an address.
LEMMA EntryIsKnown ==
  /\ \A e \in Entry : e # NoEntry /\ e.addr \in Addr /\ e.addr # None
  /\ \A e \in Entry, a \in Addr : [e EXCEPT !.addr = a] \in Entry
  /\ \A e \in Entry, i \in Id : [e EXCEPT !.id = i] \in Entry
  /\ \A a \in Addr, i \in Id, s \in BOOLEAN : [id |-> i, addr |-> a, static |-> s] \in Entry
  BY DEF Entry, NoEntry

\* The registry's writes are typed and take no peer out of it.
LEMMA RegistryGrows ==
  ASSUME LinksTypes, NEW a \in Addr, NEW i \in Id
  PROVE  /\ UpsertBeacon(i, a) \in [Key -> Entries]
         /\ LearnedIdent(a, i) \in [Key -> Entries]
         /\ \A j \in Id : Known(j) => /\ UpsertBeacon(i, a)[j] # NoEntry
                                      /\ LearnedIdent(a, i)[j] # NoEntry
<1>1. i \in Key /\ Id \subseteq Key /\ \A k \in Key : Known(k) => reg[k] \in Entry
  BY DEF LinksTypes, Entries, Known, Key
<1>2. reg \in [Key -> Entries] /\ Entry \subseteq Entries /\ NoEntry \in Entries
  BY DEF LinksTypes, Entries
<1>3. UpsertBeacon(i, a) \in [Key -> Entries]
      /\ \A j \in Id : Known(j) => UpsertBeacon(i, a)[j] # NoEntry
  <2> DEFINE e == IF Known(i) THEN [reg[i] EXCEPT !.addr = a]
                  ELSE [id |-> i, addr |-> a, static |-> FALSE]
  <2>1. e \in Entry /\ e # NoEntry
    BY <1>1, EntryIsKnown
  <2>2. UpsertBeacon(i, a) = [reg EXCEPT ![i] = e]
    BY DEF UpsertBeacon
  <2> HIDE DEF e
  <2>3. QED
    BY <1>1, <1>2, <2>1, <2>2 DEF Known
<1>4. CASE a \in Static /\ Known(a)
  <2> DEFINE e == [reg[a] EXCEPT !.id = i]
  <2>1. a \in Key /\ a \notin Id
    BY <1>4 DEF Key
  <2>2. e \in Entry /\ e # NoEntry
    BY <1>1, <1>4, <2>1, EntryIsKnown
  <2>3. LearnedIdent(a, i) = [reg EXCEPT ![a] = NoEntry, ![i] = e]
    BY <1>4 DEF LearnedIdent
  <2> HIDE DEF e
  <2>4. QED
    BY <1>1, <1>2, <1>3, <2>1, <2>2, <2>3 DEF Known
<1>5. CASE ~(a \in Static /\ Known(a))
  <2> DEFINE e == IF Known(i) THEN [reg[i] EXCEPT !.addr = a]
                  ELSE [id |-> i, addr |-> a, static |-> TRUE]
  <2>1. e \in Entry /\ e # NoEntry
    BY <1>1, EntryIsKnown
  <2>2. LearnedIdent(a, i) = [reg EXCEPT ![i] = e]
    BY <1>5 DEF LearnedIdent
  <2> HIDE DEF e
  <2>3. QED
    BY <1>1, <1>2, <1>3, <2>1, <2>2 DEF Known
<1>6. QED
  BY <1>4, <1>5

\* A loop whose peer is registered finds an address.
LEMMA Resolved ==
  ASSUME LinksTypes, NEW l \in Loop, loop[l].key \in Key
  PROVE  /\ ResolvedAddr(l) \in Addr \cup {None}
         /\ Known(loop[l].key) => ResolvedAddr(l) # None
<1>1. loop[l].addr \in Addr \cup {None}
  BY DEF LinksTypes, LoopRec
<1>2. CASE Known(loop[l].key)
  <2>1. reg[loop[l].key] \in Entry
    BY <1>2 DEF LinksTypes, Entries, Known
  <2>2. ResolvedAddr(l) = reg[loop[l].key].addr
    BY <1>2 DEF ResolvedAddr
  <2>3. QED
    BY <2>1, <2>2, EntryIsKnown
<1>3. CASE ~Known(loop[l].key) /\ ByAddr(loop[l].addr) # {}
  BY <1>1, <1>3 DEF ResolvedAddr
<1>4. CASE ~Known(loop[l].key) /\ ByAddr(loop[l].addr) = {}
  BY <1>1, <1>4 DEF ResolvedAddr
<1>5. QED
  BY <1>2, <1>3, <1>4

\* A step that leaves the map of the links alone, takes no loop to its end
\* and none from its second look.
LEMMA LinksStay ==
  ASSUME LinksInv, LinksTypes', links' = links, heard' \subseteq heard,
         closing' = closing, HeardKnown',
         ~closing => \A l \in Loop :
             /\ loop'[l].key = loop[l].key
             /\ loop[l].at \notin {"done", "recheck"}
                    => loop'[l].at \notin {"done", "recheck"}
             /\ loop[l].at = "recheck" => loop'[l].at = "recheck"
  PROVE  LinksInv'
<1>1. CASE closing
  BY <1>1 DEF LinksInv, NotForgotten
<1>2. CASE ~closing
  <2>1. LoopsGoOn(loop)'
    BY <1>2 DEF LinksInv, LoopsGoOn, Goes, LinksTypes
  <2>2. NotForgotten'
    <3>1. SUFFICES ASSUME NEW i \in heard'
                   PROVE  \/ links'[i] # None /\ loop'[links'[i]].at # "done"
                          \/ \E l \in Loop : loop'[l].key = i /\ loop'[l].at = "recheck"
      BY DEF NotForgotten
    <3>2. i \in Key /\ i \in heard
      BY DEF LinksInv, LinksTypes, Key
    <3>3. CASE links[i] # None
      BY <2>1, <3>2, <3>3 DEF LoopsGoOn, Goes
    <3>4. CASE \E l \in Loop : loop[l].key = i /\ loop[l].at = "recheck"
      BY <1>2, <3>4
    <3>5. QED
      BY <1>2, <3>2, <3>3, <3>4 DEF LinksInv, NotForgotten
  <2>3. QED
    BY <2>1, <2>2 DEF LinksInv
<1>3. QED
  BY <1>1, <1>2 DEF LinksInv, LinksTypes

\* ensureLink: the key has a loop, and the others keep theirs.
LEMMA LinkEnsured ==
  ASSUME LinksTypes, NEW k \in Key, NEW a \in Addr \cup {None},
         NEW now \in [Loop -> LoopRec], EnsureLink(k, a, now),
         \A l \in Loop : now[l].at # "done" => now[l].key \in Key
  PROVE  /\ links' \in [Key -> Loop \cup {None}] /\ loop' \in [Loop -> LoopRec]
         /\ \A l \in Loop : loop'[l].at # "done" => loop'[l].key \in Key
         /\ links'[k] # None
         /\ \A l \in Loop : now[l].at = "recheck"
                => loop'[l].key = now[l].key /\ loop'[l].at = "recheck"
         /\ LoopsGoOn(now) => LoopsGoOn(loop)'
<1>0. links \in [Key -> Loop \cup {None}] /\ None \notin Loop
  BY DEF LinksTypes, Loop
<1>1. CASE links[k] # None
  <2> DEFINE m == links[k]
             r == [now[m] EXCEPT !.addr = a]
  <2>1. m \in Loop /\ links' = links
    BY <1>0, <1>1 DEF EnsureLink
  <2>2. /\ r \in LoopRec /\ r.at = now[m].at /\ r.key = now[m].key
    BY <2>1 DEF LoopRec
  <2>3. loop' = now \/ loop' = [now EXCEPT ![m] = r]
    BY <1>1, <2>1 DEF EnsureLink
  <2> HIDE DEF r
  <2>4. /\ loop' \in [Loop -> LoopRec]
        /\ \A l \in Loop : loop'[l].at = now[l].at /\ loop'[l].key = now[l].key
    BY <2>1, <2>2, <2>3
  <2>5. QED
    BY <1>0, <1>1, <2>1, <2>4 DEF LoopsGoOn, Goes
<1>2. CASE links[k] = None
  <2> DEFINE r == [NoLoop EXCEPT !.at = "top", !.key = k, !.addr = a]
  <2>1. PICK m \in Loop : /\ now[m].at = "done"
                          /\ loop' = [now EXCEPT ![m] = r]
                          /\ links' = [links EXCEPT ![k] = m]
    BY <1>2 DEF EnsureLink
  <2>2. r \in LoopRec /\ r.at = "top" /\ r.key = k
    BY DEF NoLoop, LoopRec, LoopSteps
  <2> HIDE DEF r
  <2>3. loop'[m] = r /\ \A l \in Loop \ {m} : loop'[l] = now[l]
    BY <2>1
  <2>4. LoopsGoOn(now) => LoopsGoOn(loop)'
    BY <1>0, <2>1, <2>2, <2>3 DEF LoopsGoOn, Goes
  <2>5. QED
    BY <1>0, <2>1, <2>2, <2>3, <2>4
<1>3. QED
  BY <1>1, <1>2

\* The steps of a loop that leave it in the map, if it was there.
LEMMA LoopKeeps ==
  ASSUME LinksInv, NEW l \in Loop,
         LoopTop(l) \/ Dial(l) \/ KnockAnswer(l) \/ LinkLost(l) \/ WaitOver(l)
  PROVE  LinksInv'
<1>1. LinksTypes /\ loop[l] \in LoopRec /\ loop[l].at \notin {"done", "recheck"}
      /\ loop[l].key \in Key
  BY DEF LinksInv, LinksTypes, LoopTop, Dial, KnockAnswer, LinkLost, WaitOver
<1>2. links' = links /\ LoopUnchanged /\ closing' = closing /\ heard' = heard
  BY DEF LoopTop, Dial, KnockAnswer, LinkLost, WaitOver, LoopUnchanged
<1>3. \E r \in LoopRec :
         /\ loop' = [loop EXCEPT ![l] = r]
         /\ r.key = loop[l].key
         /\ ~closing => r.at \notin {"done", "recheck"}
  <2>1. CASE LoopTop(l)
    <3>1. CASE closing \/ ResolvedAddr(l) = None
      <4> DEFINE r(step) == [loop[l] EXCEPT !.at = step]
      <4>1. PICK step \in {"done", "gone"} : /\ loop' = [loop EXCEPT ![l] = r(step)]
                                             /\ ~closing => step = "gone"
        BY <2>1, <3>1 DEF LoopTop, LoopAt
      <4>2. r(step) \in LoopRec /\ r(step).at = step /\ r(step).key = loop[l].key
        BY <1>1 DEF LoopRec, LoopSteps
      <4> HIDE DEF r
      <4>3. QED
        BY <4>1, <4>2
    <3>2. CASE ~closing /\ ResolvedAddr(l) # None
      <4> DEFINE r == [loop[l] EXCEPT !.at = "dial", !.target = ResolvedAddr(l)]
      <4>1. ResolvedAddr(l) \in Addr \cup {None}
        BY <1>1, Resolved
      <4>2. r \in LoopRec /\ r.at = "dial" /\ r.key = loop[l].key
        BY <1>1, <4>1 DEF LoopRec, LoopSteps
      <4>3. loop' = [loop EXCEPT ![l] = r]
        BY <2>1, <3>2 DEF LoopTop
      <4> HIDE DEF r
      <4>4. QED
        BY <4>2, <4>3
    <3>3. QED
      BY <3>1, <3>2
  <2>2. CASE Dial(l)
    <3>1. CASE loop' = LoopAt(l, "wait")
      <4> DEFINE r == [loop[l] EXCEPT !.at = "wait"]
      <4>1. r \in LoopRec /\ r.at = "wait" /\ r.key = loop[l].key
        BY <1>1 DEF LoopRec, LoopSteps
      <4>2. loop' = [loop EXCEPT ![l] = r]
        BY <3>1 DEF LoopAt
      <4> HIDE DEF r
      <4>3. QED
        BY <4>1, <4>2
    <3>2. ASSUME NEW i \in Id, loop' = [loop EXCEPT ![l].at = "knock", ![l].peer = i,
                                                    ![l].live = TRUE]
          PROVE  \E r \in LoopRec : /\ loop' = [loop EXCEPT ![l] = r]
                                    /\ r.key = loop[l].key /\ r.at = "knock"
      <4> DEFINE r == [loop[l] EXCEPT !.at = "knock", !.peer = i, !.live = TRUE]
      <4>1. r \in LoopRec /\ r.at = "knock" /\ r.key = loop[l].key
        BY <1>1 DEF LoopRec, LoopSteps
      <4>2. loop' = [loop EXCEPT ![l] = r]
        BY <3>2
      <4> HIDE DEF r
      <4>3. QED
        BY <4>1, <4>2
    <3>3. QED
      BY <2>2, <3>1, <3>2 DEF Dial
  <2>3. CASE KnockAnswer(l)
    <3>1. PICK step \in {"alive", "wait"} : loop' = [loop EXCEPT ![l].at = step]
      BY <2>3 DEF KnockAnswer, LoopAt
    <3> DEFINE r == [loop[l] EXCEPT !.at = step]
    <3>2. r \in LoopRec /\ r.at = step /\ r.key = loop[l].key
      BY <1>1 DEF LoopRec, LoopSteps
    <3>3. loop' = [loop EXCEPT ![l] = r]
      BY <3>1
    <3> HIDE DEF r
    <3>4. QED
      BY <3>1, <3>2, <3>3
  <2>4. CASE LinkLost(l)
    <3> DEFINE r == [loop[l] EXCEPT !.at = "wait", !.live = FALSE]
    <3>2. r \in LoopRec /\ r.at = "wait" /\ r.key = loop[l].key
      BY <1>1 DEF LoopRec, LoopSteps
    <3>3. loop' = [loop EXCEPT ![l] = r]
      BY <2>4 DEF LinkLost
    <3> HIDE DEF r
    <3>4. QED
      BY <3>2, <3>3
  <2>5. CASE WaitOver(l)
    <3> DEFINE step == IF closing THEN "done" ELSE "top"
               r == [loop[l] EXCEPT !.at = step, !.target = None, !.peer = None,
                                    !.live = FALSE]
    <3>1. /\ step \in LoopSteps
          /\ ~closing => step = "top"
      BY DEF LoopSteps
    <3>2. loop' = [loop EXCEPT ![l] = r]
      BY <2>5 DEF WaitOver
    <3> HIDE DEF step
    <3>3. r \in LoopRec /\ r.at = step /\ r.key = loop[l].key
      BY <1>1, <3>1 DEF LoopRec
    <3> HIDE DEF r
    <3>4. QED
      BY <3>1, <3>2, <3>3
  <2>6. QED
    BY <2>1, <2>2, <2>3, <2>4, <2>5
<1>4. reg' = reg \/ \E a \in Addr, i \in Id : reg' = LearnedIdent(a, i)
  <2>1. CASE LoopTop(l) \/ KnockAnswer(l) \/ LinkLost(l) \/ WaitOver(l)
    BY <2>1 DEF LoopTop, KnockAnswer, LinkLost, WaitOver
  <2>2. CASE Dial(l)
    <3>1. ASSUME NEW e \in ByAddr(loop[l].target)
          PROVE  loop[l].target \in Addr
      BY <1>1, EntryIsKnown DEF ByAddr, Known, LinksTypes, Entries
    <3>2. QED
      BY <2>2, <3>1 DEF Dial
  <2>3. QED
    BY <2>1, <2>2
<1>5. LinksTypes' /\ HeardKnown'
  <2>1. reg' \in [Key -> Entries] /\ HeardKnown'
    BY <1>1, <1>2, <1>4, RegistryGrows DEF LinksInv, LinksTypes, HeardKnown, Known
  <2>2. /\ loop' \in [Loop -> LoopRec]
        /\ \A b \in Loop : loop'[b].at # "done" => loop'[b].key \in Key
    BY <1>1, <1>3 DEF LinksTypes
  <2>3. QED
    BY <1>1, <1>2, <2>1, <2>2 DEF LinksTypes, LoopUnchanged, peerVars
<1>6. QED
  BY <1>1, <1>2, <1>3, <1>5, LinksStay DEF LinksTypes

\* A loop that finds no address leaves the map, and looks again.
LEMMA GoneKeeps ==
  ASSUME LinksInv, NEW l \in Loop, RemoveSelf(l)
  PROVE  LinksInv'
<1> DEFINE r == [loop[l] EXCEPT !.at = "recheck"]
           k == loop[l].key
<1>1. /\ LinksTypes /\ loop[l] \in LoopRec /\ loop[l].at = "gone" /\ k \in Key
  BY DEF LinksInv, LinksTypes, RemoveSelf
<1>2. r \in LoopRec /\ r.at = "recheck" /\ r.key = k
  BY <1>1 DEF LoopRec, LoopSteps
<1>3. loop' = [loop EXCEPT ![l] = r]
  BY DEF RemoveSelf, LoopAt
<1> HIDE DEF r, k
<1>4. loop'[l] = r /\ \A b \in Loop \ {l} : loop'[b] = loop[b]
  BY <1>1, <1>3 DEF LinksTypes
<1>5. /\ reg' = reg /\ heard' = heard /\ closing' = closing /\ beacon' = beacon
      /\ where' = where
      /\ links' = IF links[k] = l THEN [links EXCEPT ![k] = None] ELSE links
  BY DEF RemoveSelf, LoopUnchanged, peerVars, k
<1>6. LinksTypes' /\ HeardKnown'
  <2>1. loop' \in [Loop -> LoopRec] /\ links' \in [Key -> Loop \cup {None}]
    BY <1>1, <1>2, <1>3, <1>5 DEF LinksTypes
  <2>2. QED
    BY <1>1, <1>2, <1>4, <1>5, <2>1 DEF LinksInv, LinksTypes, HeardKnown, Known
<1>7. CASE ~closing
  <2>1. LoopsGoOn(loop) /\ \A j \in Key : links[j] = l => j = k
    BY <1>1, <1>7 DEF LinksInv, LoopsGoOn, Goes, LinksTypes, Loop, k
  <2>2. LoopsGoOn(loop)'
    BY <1>1, <1>4, <1>5, <2>1 DEF LoopsGoOn, Goes, LinksTypes
  <2>3. NotForgotten'
    <3>1. SUFFICES ASSUME NEW i \in heard
                   PROVE  \/ links'[i] # None /\ loop'[links'[i]].at # "done"
                          \/ \E b \in Loop : loop'[b].key = i /\ loop'[b].at = "recheck"
      BY <1>5 DEF NotForgotten
    <3>2. i \in Key
      BY <1>1 DEF LinksTypes, Key
    <3>3. CASE \E b \in Loop : loop[b].key = i /\ loop[b].at = "recheck"
      BY <1>1, <1>4, <3>3
    <3>4. CASE links[i] # None /\ i # k
      BY <1>1, <1>5, <2>2, <3>2, <3>4 DEF LoopsGoOn, Goes, LinksTypes
    <3>5. CASE links[i] # None /\ i = k /\ links[k] = l
      BY <1>2, <1>4, <3>5
    <3>6. CASE links[i] # None /\ i = k /\ links[k] # l
      BY <1>5, <2>2, <3>2, <3>6 DEF LoopsGoOn, Goes
    <3>7. QED
      BY <1>7, <3>1, <3>3, <3>4, <3>5, <3>6 DEF LinksInv, NotForgotten
  <2>4. QED
    BY <1>6, <2>2, <2>3 DEF LinksInv
<1>8. CASE closing
  BY <1>5, <1>6, <1>8 DEF LinksInv, NotForgotten
<1>9. QED
  BY <1>1, <1>7, <1>8 DEF LinksTypes

\* The second look: a peer that has been heard of meanwhile gets its loop.
LEMMA RecheckKeeps ==
  ASSUME LinksInv, NEW l \in Loop, Recheck(l)
  PROVE  LinksInv'
<1> DEFINE r == [loop[l] EXCEPT !.at = "done"]
           k == loop[l].key
           now == LoopAt(l, "done")
<1>1. /\ LinksTypes /\ loop[l] \in LoopRec /\ loop[l].at = "recheck" /\ k \in Key
  BY DEF LinksInv, LinksTypes, Recheck
<1>2. r \in LoopRec /\ r.at = "done" /\ r.key = k
  BY <1>1 DEF LoopRec, LoopSteps
<1>3. now = [loop EXCEPT ![l] = r]
  BY DEF LoopAt
<1>4. IF ResolvedAddr(l) # None THEN EnsureLink(k, None, now)
      ELSE loop' = now /\ links' = links
  BY DEF Recheck
<1>5. Known(k) => ResolvedAddr(l) # None
  BY <1>1, Resolved
<1> HIDE DEF r, k, now
<1>6. /\ now \in [Loop -> LoopRec] /\ now[l].at = "done"
      /\ \A b \in Loop \ {l} : now[b] = loop[b]
      /\ \A b \in Loop : now[b].at # "done" => now[b].key \in Key
  BY <1>1, <1>2, <1>3 DEF LinksTypes
<1>7. /\ reg' = reg /\ heard' = heard /\ closing' = closing /\ beacon' = beacon
      /\ where' = where
  BY DEF Recheck, LoopUnchanged, peerVars
<1>8. ~closing => LoopsGoOn(now)
  BY <1>1, <1>6 DEF LinksInv, LoopsGoOn, Goes, LinksTypes
<1>9. CASE ResolvedAddr(l) = None
  <2>1. loop' = now /\ links' = links
    BY <1>4, <1>9
  <2>2. LinksTypes' /\ HeardKnown'
    BY <1>1, <1>6, <1>7, <2>1 DEF LinksInv, LinksTypes, HeardKnown, Known
  <2>3. ~closing => LoopsGoOn(loop)'
    BY <1>8, <2>1 DEF LoopsGoOn, Goes
  <2>4. NotForgotten'
    <3>1. SUFFICES ASSUME ~closing, NEW i \in heard
                   PROVE  \/ links'[i] # None /\ loop'[links'[i]].at # "done"
                          \/ \E b \in Loop : loop'[b].key = i /\ loop'[b].at = "recheck"
      BY <1>1, <1>7 DEF NotForgotten, LinksTypes
    <3>2. i \in Key /\ Known(i)
      BY <1>1 DEF LinksInv, LinksTypes, Key, HeardKnown
    <3>3. i # k
      BY <1>5, <1>9, <3>2
    <3>4. CASE links[i] # None
      BY <2>1, <2>3, <3>1, <3>2, <3>4 DEF LoopsGoOn, Goes
    <3>5. CASE \E b \in Loop : loop[b].key = i /\ loop[b].at = "recheck"
      BY <1>6, <2>1, <3>3, <3>5 DEF k
    <3>6. QED
      BY <3>1, <3>4, <3>5 DEF LinksInv, NotForgotten
  <2>5. QED
    BY <1>1, <1>7, <2>2, <2>3, <2>4 DEF LinksInv, LinksTypes
<1>10. CASE ResolvedAddr(l) # None
  <2>1. EnsureLink(k, None, now)
    BY <1>4, <1>10
  <2>2. /\ links' \in [Key -> Loop \cup {None}] /\ loop' \in [Loop -> LoopRec]
        /\ \A b \in Loop : loop'[b].at # "done" => loop'[b].key \in Key
        /\ links'[k] # None
        /\ \A b \in Loop : now[b].at = "recheck"
                => loop'[b].key = now[b].key /\ loop'[b].at = "recheck"
        /\ LoopsGoOn(now) => LoopsGoOn(loop)'
    BY <1>1, <1>6, <2>1, LinkEnsured
  <2>3. LinksTypes' /\ HeardKnown'
    BY <1>1, <1>7, <2>2 DEF LinksInv, LinksTypes, HeardKnown, Known
  <2>4. ~closing => LoopsGoOn(loop)'
    BY <1>8, <2>2
  <2>5. \A j \in Key : links[j] # None => links'[j] # None
    BY <1>1, <2>1 DEF EnsureLink, LinksTypes, Loop
  <2>6. NotForgotten'
    <3>1. SUFFICES ASSUME ~closing, NEW i \in heard
                   PROVE  \/ links'[i] # None /\ loop'[links'[i]].at # "done"
                          \/ \E b \in Loop : loop'[b].key = i /\ loop'[b].at = "recheck"
      BY <1>1, <1>7 DEF NotForgotten, LinksTypes
    <3>2. i \in Key
      BY <1>1 DEF LinksTypes, Key
    <3>3. CASE i = k \/ links[i] # None
      BY <2>2, <2>4, <2>5, <3>1, <3>2, <3>3 DEF LoopsGoOn, Goes
    <3>4. CASE i # k /\ \E b \in Loop : loop[b].key = i /\ loop[b].at = "recheck"
      BY <1>6, <2>2, <3>4 DEF k
    <3>5. QED
      BY <3>1, <3>3, <3>4 DEF LinksInv, NotForgotten
  <2>7. QED
    BY <1>1, <1>7, <2>3, <2>4, <2>6 DEF LinksInv, LinksTypes
<1>11. QED
  BY <1>9, <1>10

\* A beacon that has been registered asks for its link.
LEMMA BeaconLinkKeeps ==
  ASSUME LinksInv, BeaconLink
  PROVE  LinksInv'
<1> DEFINE k == beacon.id
           a == beacon.addr
<1>1. LinksTypes /\ k \in Id /\ k \in Key /\ a \in Addr \cup {None}
  BY DEF LinksInv, LinksTypes, BeaconLink, Key
<1>2. /\ EnsureLink(k, a, loop) /\ reg' = reg /\ closing' = closing /\ where' = where
      /\ heard' \subseteq heard \cup {k}
      /\ k \in heard' => Known(k) \/ k \in heard
      /\ beacon' = [id |-> None, addr |-> None]
  BY DEF BeaconLink, peerVars
<1> HIDE DEF k, a
<1>3. /\ links' \in [Key -> Loop \cup {None}] /\ loop' \in [Loop -> LoopRec]
      /\ \A b \in Loop : loop'[b].at # "done" => loop'[b].key \in Key
      /\ links'[k] # None
      /\ \A b \in Loop : loop[b].at = "recheck"
              => loop'[b].key = loop[b].key /\ loop'[b].at = "recheck"
      /\ LoopsGoOn(loop) => LoopsGoOn(loop)'
  BY <1>1, <1>2, LinkEnsured DEF LinksTypes
<1>4. \A j \in Key : links[j] # None => links'[j] # None
  BY <1>1, <1>2 DEF EnsureLink, LinksTypes, Loop
<1>5. LinksTypes' /\ HeardKnown'
  BY <1>1, <1>2, <1>3 DEF LinksInv, LinksTypes, HeardKnown, Known
<1>6. NotForgotten'
  <2>1. SUFFICES ASSUME ~closing, NEW i \in heard'
                 PROVE  \/ links'[i] # None /\ loop'[links'[i]].at # "done"
                        \/ \E b \in Loop : loop'[b].key = i /\ loop'[b].at = "recheck"
    BY <1>1, <1>2 DEF NotForgotten, LinksTypes
  <2>2. i \in Key /\ (i = k \/ i \in heard)
    BY <1>1, <1>2, <1>5 DEF LinksTypes, Key
  <2>3. CASE i = k \/ links[i] # None
    BY <1>3, <1>4, <2>1, <2>2, <2>3 DEF LinksInv, LoopsGoOn, Goes
  <2>4. CASE \E b \in Loop : loop[b].key = i /\ loop[b].at = "recheck"
    BY <1>3, <2>4
  <2>5. QED
    BY <2>1, <2>2, <2>3, <2>4 DEF LinksInv, NotForgotten
<1>7. QED
  BY <1>1, <1>2, <1>3, <1>5, <1>6 DEF LinksInv, LinksTypes

\* Beacons, incoming connections, calls, the sweep, the end and the peers.
LEMMA WorldKeeps ==
  ASSUME LinksInv,
         \/ \E i \in Id : BeaconIn(i) \/ Incoming(i) \/ Outdated(i) \/ PeerMoves(i)
         \/ Expire \/ CloseLinks \/ \E k \in Key : CallPeer(k)
  PROVE  LinksInv'
<1>0. LinksTypes /\ HeardKnown
  BY DEF LinksInv
<1>1. ASSUME NEW i \in Id, BeaconIn(i) PROVE LinksInv'
  <2>1. where[i] \in Addr /\ reg' = UpsertBeacon(i, where[i])
    BY <1>0, <1>1 DEF BeaconIn, LinksTypes
  <2>2. LinksTypes' /\ HeardKnown'
    BY <1>0, <1>1, <2>1, RegistryGrows
    DEF BeaconIn, LinksTypes, HeardKnown, Known, loopVars, peerVars
  <2>3. QED
    BY <1>1, <2>2, LinksStay DEF BeaconIn, loopVars
<1>2. ASSUME NEW i \in Id, NEW a \in Addr, reg' = LearnedIdent(a, i),
             UNCHANGED <<loopVars, linkSt, beacon, heard, peerVars, closing, expiries>>
      PROVE  LinksInv'
  <2>1. LinksTypes' /\ HeardKnown'
    BY <1>0, <1>2, RegistryGrows DEF LinksTypes, HeardKnown, Known, loopVars, peerVars
  <2>2. QED
    BY <1>2, <2>1, LinksStay DEF loopVars
<1>3. ASSUME NEW i \in Id, Incoming(i) PROVE LinksInv'
  BY <1>0, <1>2, <1>3 DEF Incoming, LinksTypes
<1>4. ASSUME NEW k \in Key, CallPeer(k) PROVE LinksInv'
  <2>1. reg[k] \in Entry
    BY <1>0, <1>4 DEF CallPeer, Known, LinksTypes, Entries
  <2>2. reg[k].addr \in Addr
    BY <2>1, EntryIsKnown
  <2>3. PICK i \in Id : reg' = LearnedIdent(reg[k].addr, i)
    BY <1>4 DEF CallPeer
  <2>4. QED
    BY <1>2, <1>4, <2>2, <2>3 DEF CallPeer
<1>5. ASSUME NEW i \in Id, Outdated(i) PROVE LinksInv'
  <2>1. LinksTypes' /\ HeardKnown'
    BY <1>0, <1>5 DEF Outdated, LinksTypes, HeardKnown, Known, loopVars, peerVars
  <2>2. QED
    BY <1>5, <2>1, LinksStay DEF Outdated, loopVars
<1>6. ASSUME NEW i \in Id, PeerMoves(i) PROVE LinksInv'
  <2>1. /\ Broken(i) \in [Loop -> LoopRec]
        /\ \A l \in Loop : Broken(i)[l].at = loop[l].at /\ Broken(i)[l].key = loop[l].key
    <3>1. ASSUME NEW l \in Loop
          PROVE  /\ [loop[l] EXCEPT !.live = FALSE] \in LoopRec
                 /\ [loop[l] EXCEPT !.live = FALSE].at = loop[l].at
                 /\ [loop[l] EXCEPT !.live = FALSE].key = loop[l].key
                 /\ loop[l] \in LoopRec
      <4>1. loop[l] \in LoopRec
        BY <1>0 DEF LinksTypes
      <4>2. QED
        BY <4>1 DEF LoopRec
    <3>2. QED
      BY <3>1 DEF Broken
  <2>2. /\ loop' \in [Loop -> LoopRec]
        /\ \A l \in Loop : loop'[l].at = loop[l].at /\ loop'[l].key = loop[l].key
    BY <1>0, <1>6, <2>1 DEF PeerMoves, LinksTypes
  <2>3. where' \in [Id -> Addr \cup {None}]
    BY <1>0, <1>6 DEF PeerMoves, LinksTypes
  <2>4. UNCHANGED <<reg, links, linkSt, beacon, heard, closing, expiries>>
    BY <1>6 DEF PeerMoves
  <2>5. LinksTypes' /\ HeardKnown'
    BY <1>0, <2>2, <2>3, <2>4 DEF LinksTypes, HeardKnown, Known
  <2>6. QED
    BY <2>2, <2>4, <2>5, LinksStay
<1>7. ASSUME Expire PROVE LinksInv'
  <2>1. reg' \in [Key -> Entries]
    BY <1>0, <1>7 DEF Expire, LinksTypes, Entries
  <2>2. heard' \subseteq heard /\ HeardKnown'
    BY <1>0, <1>7 DEF Expire, LinksTypes, HeardKnown, Known, Key
  <2>3. UNCHANGED <<loopVars, linkSt, beacon, peerVars, closing>>
    BY <1>7 DEF Expire
  <2>4. LinksTypes'
    BY <1>0, <2>1, <2>2, <2>3 DEF LinksTypes, loopVars, peerVars
  <2>5. QED
    BY <2>2, <2>3, <2>4, LinksStay DEF loopVars
<1>8. ASSUME CloseLinks PROVE LinksInv'
  <2>1. LinksTypes' /\ HeardKnown'
    BY <1>0, <1>8 DEF CloseLinks, LinksTypes, HeardKnown, Known, peerVars
  <2>2. QED
    BY <1>8, <2>1 DEF CloseLinks, LinksInv, NotForgotten
<1>9. QED
  BY <1>1, <1>3, <1>4, <1>5, <1>6, <1>7, <1>8

\* There are loops enough for the seeds.
LEMMA SeedsHaveLoops ==
  \E f \in [Key -> Loop \cup {None}] :
      /\ \A k \in Key : f[k] = None <=> k \in Id
      /\ \A j, k \in Static : f[j] = f[k] => j = k
<1>1. /\ Cardinality(Static) \in Nat
      /\ ExistsBijection(1 .. Cardinality(Static), Static)
  BY FS_CardinalityType
<1>2. PICK b \in [1 .. Cardinality(Static) -> Static] :
         \A k \in Static : \E n \in 1 .. Cardinality(Static) : b[n] = k
  BY <1>1 DEF ExistsBijection, Bijection, Surjection
<1> DEFINE num(k) == CHOOSE n \in 1 .. Cardinality(Static) : b[n] = k
           f == [k \in Key |-> IF k \in Id THEN None ELSE num(k)]
<1>3. \A k \in Static : num(k) \in 1 .. Cardinality(Static) /\ b[num(k)] = k
  BY <1>2
<1> HIDE DEF num
<1>4. \A k \in Static : num(k) \in Loop /\ num(k) # None
  BY <1>1, <1>3 DEF Loop
<1>5. /\ f \in [Key -> Loop \cup {None}]
      /\ \A k \in Key : f[k] = None <=> k \in Id
  BY <1>4 DEF Key
<1>6. ASSUME NEW j \in Static, NEW k \in Static, f[j] = f[k]
      PROVE  j = k
  <2>1. j \notin Id /\ k \notin Id /\ j \in Key /\ k \in Key
    BY DEF Key
  <2>2. num(j) = num(k)
    BY <1>6, <2>1
  <2>3. QED
    BY <1>3, <2>2
<1>7. QED
  BY <1>5, <1>6

\* NotForgotten (MeshLinks), for any number of peers, seeds, addresses and
\* loops: a peer whose beacon asked for a link has a loop that goes on, or one
\* that is about to look again (link.go:66-78, the dead entry of #57).
THEOREM NoneForgotten == LinksSpec => []NotForgotten
<1>1. LinksInit => LinksInv
  <2> SUFFICES ASSUME LinksInit PROVE LinksInv
    OBVIOUS
  <2>1. /\ links \in [Key -> Loop \cup {None}]
        /\ \A k \in Key : links[k] = None <=> k \in Id
        /\ \A j, k \in Static : links[j] = links[k] => j = k
    BY SeedsHaveLoops DEF LinksInit
  <2>2. NoLoop \in LoopRec /\ NoLoop.at = "done"
    BY DEF NoLoop, LoopRec, LoopSteps
  <2>3. ASSUME NEW l \in Loop, NEW k \in Static, links[k] = l
        PROVE  loop[l] \in LoopRec /\ loop[l].at = "top" /\ loop[l].key = k
    <3> DEFINE r == [NoLoop EXCEPT !.at = "top", !.key = k, !.addr = k]
    <3>1. r \in LoopRec /\ r.at = "top" /\ r.key = k
      BY DEF NoLoop, LoopRec, LoopSteps, Key
    <3>2. (CHOOSE x \in Static : links[x] = l) = k
      BY <2>1, <2>3
    <3>3. loop[l] = r
      BY <2>3, <3>2 DEF LinksInit
    <3> HIDE DEF r
    <3>4. QED
      BY <3>1, <3>3
  <2>4. ASSUME NEW l \in Loop, ~\E k \in Static : links[k] = l
        PROVE  loop[l] = NoLoop
    BY <2>4 DEF LinksInit
  <2>5. LinksTypes
    <3>1. reg \in [Key -> Entries]
      BY DEF LinksInit, Entries, Entry, Key
    <3>2. /\ loop \in [Loop -> LoopRec]
          /\ \A l \in Loop : loop[l].at # "done" => loop[l].key \in Key
      <4>1. loop = [l \in Loop |-> loop[l]]
        BY DEF LinksInit
      <4>2. \A l \in Loop : loop[l] \in LoopRec
                /\ (loop[l].at # "done" => loop[l].key \in Key)
        BY <2>2, <2>3, <2>4 DEF Key
      <4>3. QED
        BY <4>1, <4>2
    <3>3. QED
      BY <2>1, <3>1, <3>2 DEF LinksInit, LinksTypes
  <2>6. LoopsGoOn(loop)
    <3>1. SUFFICES ASSUME NEW k \in Key, links[k] # None
                   PROVE  Goes(links[k], k, loop)
      BY DEF LoopsGoOn
    <3>2. k \in Static /\ links[k] \in Loop
      BY <2>1, <3>1 DEF Key
    <3>3. QED
      BY <2>3, <3>2 DEF Goes
  <2>7. QED
    BY <2>5, <2>6 DEF LinksInit, LinksInv, HeardKnown, NotForgotten
<1>2. LinksInv /\ [LinksNext]_linksVars => LinksInv'
  <2> SUFFICES ASSUME LinksInv, [LinksNext]_linksVars PROVE LinksInv'
    OBVIOUS
  <2>1. CASE UNCHANGED linksVars
    BY <2>1 DEF linksVars, loopVars, peerVars, LinksInv, LinksTypes, HeardKnown,
                Known, LoopsGoOn, Goes, NotForgotten
  <2>2. QED
    BY <2>1, LoopKeeps, GoneKeeps, RecheckKeeps, BeaconLinkKeeps, WorldKeeps
    DEF LinksNext, LoopStep
<1>3. LinksInv => NotForgotten
  BY DEF LinksInv
<1>4. QED
  BY <1>1, <1>2, <1>3, PTL DEF LinksSpec
-----------------------------------------------------------------------------
(* Files: a flash finds its images whole, a product is served alone.       *)

USE ShareAssumption

JobRec == [kind : {"flash", "dump"}, at : JobSteps, size : [File -> 1 .. MaxChunk],
           file : 1 .. Files + 1, seq : Chunk]
SrvSteps == {"idle", "run", "over", "reading", "removing"}
ShareTypes ==
    /\ job \in [Client -> JobRec] /\ ack \in [Client -> {"none", "ok", "refused"}]
    /\ srv \in [Client -> SrvSteps]
    /\ stored \in [Client -> [File -> Seq(Chunk)]]
    /\ dir \in [Client -> {"none", "empty", "file"}]
    /\ dlAuth \subseteq Client /\ sweeping \subseteq Client
    /\ share \in {"up", "closed", "down"}

\* The first n chunks of an image are there, in order.
HasChunks(c, x, n) == /\ Len(stored[c][x]) = n
                      /\ \A k \in 1 .. n : stored[c][x][k] = k - 1
Before(c) == \A x \in File : x < job[c].file => HasChunks(c, x, job[c].size[x])

\* What holds of an upload: the images before the one in hand are whole, and
\* of that one there is what has been acknowledged.
AtImage(c) == /\ job[c].kind = "flash" /\ job[c].file <= Files
              /\ job[c].seq < job[c].size[job[c].file] /\ Before(c)
Upload(c) ==
    /\ job[c].at = "none" => job[c].file = 1 /\ job[c].seq = 0
    /\ job[c].at \in {"send", "await"} => AtImage(c)
    /\ job[c].at = "send" /\ job[c].seq > 0 => HasChunks(c, job[c].file, job[c].seq)
    /\ job[c].at = "await" /\ ack[c] = "ok" => HasChunks(c, job[c].file, job[c].seq + 1)
    /\ job[c].kind = "flash" /\ (job[c].at = "request" \/ srv[c] = "run") => Whole(c)

\* What holds of a product: its token, its handler and the sweep exclude
\* each other.
Early(c) == job[c].at \in {"none", "send", "await", "request"}
Product(c) ==
    /\ Early(c) => srv[c] = "idle" /\ c \notin dlAuth /\ c \notin sweeping
    /\ srv[c] \in {"run", "over"} => c \notin sweeping
    /\ c \in dlAuth => srv[c] = "idle" /\ dir[c] = "file" /\ c \notin sweeping
    /\ srv[c] = "reading" => dir[c] = "file" /\ c \notin sweeping
    /\ share = "down" => srv[c] = "idle" /\ c \notin dlAuth /\ c \notin sweeping

ShareInv == ShareTypes /\ \A c \in Client : Upload(c) /\ Product(c)

\* Moving a client to another step leaves the rest of its job alone.
LEMMA JobMoved ==
  ASSUME ShareTypes, NEW c \in Client, NEW step \in JobSteps
  PROVE  /\ JobAt(c, step) \in [Client -> JobRec]
         /\ JobAt(c, step)[c].at = step
         /\ JobAt(c, step)[c].kind = job[c].kind /\ JobAt(c, step)[c].size = job[c].size
         /\ JobAt(c, step)[c].file = job[c].file /\ JobAt(c, step)[c].seq = job[c].seq
         /\ \A d \in Client \ {c} : JobAt(c, step)[d] = job[d]
<1> DEFINE r == [job[c] EXCEPT !.at = step]
<1>1. job[c] \in JobRec
  BY DEF ShareTypes
<1>2. /\ r \in JobRec /\ r.at = step /\ r.kind = job[c].kind /\ r.size = job[c].size
      /\ r.file = job[c].file /\ r.seq = job[c].seq
  BY <1>1 DEF JobRec
<1>3. JobAt(c, step) = [job EXCEPT ![c] = r]
  BY DEF JobAt
<1> HIDE DEF r
<1>4. QED
  BY <1>2, <1>3 DEF ShareTypes

\* A step of another client, or of the sweep for it, is none of c's business.
Untouched(c) ==
    /\ job'[c] = job[c] /\ ack'[c] = ack[c] /\ srv'[c] = srv[c]
    /\ stored'[c] = stored[c] /\ dir'[c] = dir[c]
    /\ c \in dlAuth' <=> c \in dlAuth
    /\ c \in sweeping' <=> c \in sweeping
\* So what holds of c still does.
LEMMA UntouchedStays ==
  ASSUME NEW c \in Client, Upload(c), Product(c), Untouched(c), share' = share
  PROVE  Upload(c)' /\ Product(c)'
<1>1. Upload(c)'
  BY DEF Untouched, Upload, AtImage, Before, HasChunks, Whole
<1>2. Product(c)'
  BY DEF Untouched, Product, Early
<1>3. QED
  BY <1>1, <1>2

\* A step that changes one client only.
LEMMA OneClientStep ==
  ASSUME ShareInv, NEW c \in Client, ShareTypes', share' = share,
         \A d \in Client \ {c} : Untouched(d), Upload(c)', Product(c)'
  PROVE  ShareInv'
  BY UntouchedStays DEF ShareInv

\* What the images hold is changed by uploads and by the end of a flash only.
LEMMA UploadStays ==
  ASSUME NEW c \in Client, Upload(c), stored'[c] = stored[c],
         job'[c] = job[c] \/ job'[c].at \notin {"none", "send", "await", "request"},
         ack'[c] = ack[c] \/ job'[c].at # "await",
         job'[c].kind = job[c].kind, job'[c].size = job[c].size,
         srv'[c] = "run" => srv[c] = "run"
  PROVE  Upload(c)'
<1>1. Whole(c) => Whole(c)'
  BY DEF Whole
<1>2. CASE job'[c] = job[c]
  BY <1>1, <1>2 DEF Upload, AtImage, Before, HasChunks
<1>3. CASE job'[c].at \notin {"none", "send", "await", "request"}
  BY <1>1, <1>3 DEF Upload
<1>4. QED
  BY <1>2, <1>3

\* What a step of one client leaves to the others: nothing of theirs changes.
Alone(c) == \A d \in Client \ {c} : Untouched(d)

\* The client's own steps: it begins, hears of its chunk, gives up.
LEMMA ClientKeeps ==
  ASSUME ShareInv, NEW c \in Client, Begin(c) \/ Await(c) \/ GiveUp(c)
  PROVE  ShareInv'
<1> USE DEF ShareInv
<1>0. /\ ShareTypes /\ Upload(c) /\ Product(c) /\ share' = share
      /\ job[c] \in JobRec
  BY DEF Begin, Await, GiveUp, nodeVars, ShareTypes
<1>1. CASE Begin(c)
  <2> DEFINE step == IF job[c].kind = "flash" THEN "send" ELSE "request"
  <2>1. step \in JobSteps /\ job' = JobAt(c, step) /\ job[c].at = "none"
    BY <1>1 DEF Begin, JobSteps
  <2>2. /\ job' \in [Client -> JobRec] /\ job'[c].at = step
        /\ job'[c].kind = job[c].kind /\ job'[c].size = job[c].size
        /\ job'[c].file = job[c].file /\ job'[c].seq = job[c].seq
        /\ \A d \in Client \ {c} : job'[d] = job[d]
    BY <2>1, JobMoved
  <2>3. job[c].kind = "flash" => step = "send"
    OBVIOUS
  <2>3a. job[c].kind # "flash" => step = "request"
    OBVIOUS
  <2> HIDE DEF step
  <2>4. ShareTypes' /\ Alone(c)
    BY <1>0, <1>1, <2>2 DEF ShareTypes, Alone, Untouched, Begin, serverVars, nodeVars
  <2>5. job[c].file = 1 /\ job[c].seq = 0 /\ srv[c] = "idle"
    BY <1>0, <2>1 DEF Upload, Product, Early
  <2>6. job[c].size[1] \in 1 .. MaxChunk
    BY <1>0 DEF JobRec, File
  <2>7. Upload(c)'
    <3>1. CASE job[c].kind = "flash"
      <4>1. AtImage(c)'
        BY <1>0, <2>2, <2>5, <2>6, <3>1 DEF AtImage, Before, File
      <4>2. QED
        BY <1>1, <2>2, <2>3, <2>5, <3>1, <4>1 DEF Upload, Begin, serverVars
    <3>2. CASE job[c].kind # "flash"
      BY <2>2, <2>3a, <3>2 DEF Upload
    <3>3. QED
      BY <3>1, <3>2
  <2>8. Product(c)'
    BY <1>0, <1>1, <2>1, <2>2 DEF Product, Early, Begin, serverVars, nodeVars
  <2>9. QED
    BY <1>0, <2>4, <2>7, <2>8, OneClientStep DEF Alone
<1>2. CASE GiveUp(c)
  <2>1. "failed" \in JobSteps /\ job' = JobAt(c, "failed")
    BY <1>2 DEF GiveUp, JobSteps
  <2>2. /\ job' \in [Client -> JobRec] /\ job'[c].at = "failed"
        /\ job'[c].kind = job[c].kind /\ job'[c].size = job[c].size
        /\ \A d \in Client \ {c} : job'[d] = job[d]
    BY <1>0, <2>1, JobMoved
  <2>3. ShareTypes' /\ Alone(c)
    BY <1>0, <1>2, <2>2 DEF ShareTypes, Alone, Untouched, GiveUp, serverVars, nodeVars
  <2>4. Upload(c)'
    BY <1>0, <1>2, <2>2, UploadStays DEF GiveUp, serverVars
  <2>5. Product(c)'
    BY <1>0, <1>2, <2>2 DEF Product, Early, GiveUp, serverVars, nodeVars
  <2>6. QED
    BY <1>0, <2>3, <2>4, <2>5, OneClientStep DEF Alone
<1>3. CASE Await(c) /\ ~Acked(c)
  <2>1. "failed" \in JobSteps /\ job' = JobAt(c, "failed")
    BY <1>3 DEF Await, JobSteps
  <2>2. /\ job' \in [Client -> JobRec] /\ job'[c].at = "failed"
        /\ job'[c].kind = job[c].kind /\ job'[c].size = job[c].size
        /\ \A d \in Client \ {c} : job'[d] = job[d]
    BY <1>0, <2>1, JobMoved
  <2>3. ShareTypes' /\ Alone(c)
    BY <1>0, <1>3, <2>2 DEF ShareTypes, Alone, Untouched, Await, serverVars, nodeVars
  <2>4. Upload(c)'
    BY <1>0, <1>3, <2>2, UploadStays DEF Await, serverVars
  <2>5. Product(c)'
    BY <1>0, <1>3, <2>2 DEF Product, Early, Await, serverVars, nodeVars
  <2>6. QED
    BY <1>0, <2>3, <2>4, <2>5, OneClientStep DEF Alone
<1>4. CASE Await(c) /\ Acked(c)
  <2> DEFINE j == job[c]
             r == NextChunk(j)
  <2>1. job' = [job EXCEPT ![c] = r]
    BY <1>4 DEF Await
  <2>2. /\ j.at = "await" /\ ack[c] = "ok" /\ AtImage(c)
        /\ HasChunks(c, j.file, j.seq + 1)
    BY <1>0, <1>4 DEF Await, Acked, Upload
  <2>3. /\ j.kind = "flash" /\ j.file \in 1 .. Files /\ j.seq \in Nat
        /\ j.size \in [File -> 1 .. MaxChunk] /\ j.seq < j.size[j.file]
    BY <1>0, <2>2 DEF JobRec, AtImage, Chunk
  <2>4. CASE j.seq + 1 < j.size[j.file]
    <3>1. r = [j EXCEPT !.at = "send", !.seq = j.seq + 1]
      BY <2>4 DEF NextChunk
    <3>2. j.size[j.file] \in 1 .. MaxChunk
      BY <2>3 DEF File
    <3>3. r \in JobRec
      <4>1. j.seq + 1 \in Chunk
        BY <2>3, <2>4, <3>2 DEF Chunk
      <4>2. QED
        BY <1>0, <3>1, <4>1 DEF JobRec, JobSteps
    <3>4. /\ r.at = "send" /\ r.kind = j.kind /\ r.size = j.size
          /\ r.file = j.file /\ r.seq = j.seq + 1
      BY <1>0, <3>1 DEF JobRec
    <3> HIDE DEF r
    <3>5. job' \in [Client -> JobRec] /\ job'[c] = r /\ \A d \in Client \ {c} : job'[d] = job[d]
      BY <1>0, <2>1, <3>3 DEF ShareTypes
    <3>6. ShareTypes' /\ Alone(c)
      BY <1>0, <1>4, <3>5 DEF ShareTypes, Alone, Untouched, Await, serverVars, nodeVars
    <3>7. Upload(c)'
      <4>1. Before(c)' /\ HasChunks(c, job[c].file, job[c].seq)'
        BY <1>4, <2>2, <3>4, <3>5 DEF AtImage, Before, HasChunks, Await, serverVars
      <4>2. AtImage(c)'
        BY <2>3, <2>4, <3>4, <3>5, <4>1 DEF AtImage
      <4>3. srv'[c] = "run" => FALSE
        BY <1>0, <1>4, <2>2 DEF Product, Early, Await, serverVars
      <4>4. QED
        BY <3>4, <3>5, <4>1, <4>2, <4>3 DEF Upload
    <3>8. Product(c)'
      BY <1>0, <1>4, <2>2, <3>4, <3>5 DEF Product, Early, Await, serverVars, nodeVars
    <3>9. QED
      BY <1>0, <3>6, <3>7, <3>8, OneClientStep DEF Alone
  <2>5. CASE ~(j.seq + 1 < j.size[j.file])
    <3> DEFINE step == IF j.file = Files THEN "request" ELSE "send"
    <3>1. r = [j EXCEPT !.at = step, !.file = j.file + 1, !.seq = 0]
      BY <2>5 DEF NextChunk
    <3>2. step \in JobSteps /\ (step = "request" <=> j.file = Files)
          /\ (step = "send" <=> j.file # Files)
      BY DEF JobSteps
    <3> HIDE DEF step
    <3>3. j.file + 1 \in 1 .. Files + 1 /\ 0 \in Chunk
      BY <2>3 DEF Chunk
    <3>4. r \in JobRec
      BY <1>0, <2>3, <3>1, <3>2, <3>3 DEF JobRec
    <3>5. /\ r.at = step /\ r.kind = j.kind /\ r.size = j.size
          /\ r.file = j.file + 1 /\ r.seq = 0
      BY <1>0, <3>1 DEF JobRec
    <3> HIDE DEF r
    <3>6. job' \in [Client -> JobRec] /\ job'[c] = r /\ \A d \in Client \ {c} : job'[d] = job[d]
      BY <1>0, <2>1, <3>4 DEF ShareTypes
    <3>7. ShareTypes' /\ Alone(c)
      BY <1>0, <1>4, <3>6 DEF ShareTypes, Alone, Untouched, Await, serverVars, nodeVars
    <3>8. j.size[j.file] \in Nat
      BY <2>3 DEF File
    <3>9. HasChunks(c, j.file, j.size[j.file])
      BY <2>2, <2>3, <2>5, <3>8
    <3>10. Before(c)'
      <4>1. \A x \in File : x < j.file + 1 => HasChunks(c, x, j.size[x])
        BY <2>2, <2>3, <3>9 DEF AtImage, Before, File
      <4>2. QED
        BY <1>4, <3>5, <3>6, <4>1 DEF Before, HasChunks, Await, serverVars
    <3>11. step = "request" => Whole(c)'
      BY <1>0, <2>3, <3>2, <3>5, <3>6, <3>10 DEF Whole, Before, HasChunks, File
    <3>12. step = "send" => AtImage(c)'
      <4> SUFFICES ASSUME step = "send" PROVE AtImage(c)'
        OBVIOUS
      <4>1. j.file + 1 \in File
        <5> HIDE DEF j
        <5>1. j.file # Files
          BY <3>2
        <5>2. j.file \in 1 .. Files
          BY <2>3
        <5>3. QED
          BY <5>1, <5>2 DEF File
      <4>2. j.size[j.file + 1] \in 1 .. MaxChunk
        BY <2>3, <4>1
      <4>3. QED
        BY <2>3, <3>5, <3>6, <3>10, <4>1, <4>2, SMTT(30) DEF AtImage, File
    <3>13. srv'[c] = "run" => FALSE
      BY <1>0, <1>4, <2>2 DEF Product, Early, Await, serverVars
    <3>14. Upload(c)'
      BY <3>2, <3>5, <3>6, <3>11, <3>12, <3>13 DEF Upload, JobSteps
    <3>15. Product(c)'
      BY <1>0, <1>4, <2>2, <3>2, <3>5, <3>6 DEF Product, Early, Await, serverVars, nodeVars
    <3>16. QED
      BY <1>0, <3>7, <3>14, <3>15, OneClientStep DEF Alone
  <2>6. QED
    BY <2>4, <2>5
<1>5. QED
  BY <1>1, <1>2, <1>3, <1>4

\* A written chunk joins the ones acknowledged before it.
LEMMA ChunkWritten ==
  ASSUME NEW now \in [File -> Seq(Chunk)], NEW x \in File, NEW k \in Chunk,
         k > 0 => Len(now[x]) = k /\ \A n \in 1 .. k : now[x][n] = n - 1
  PROVE  /\ Write(x, k, now) \in [File -> Seq(Chunk)]
         /\ Len(Write(x, k, now)[x]) = k + 1
         /\ \A n \in 1 .. k + 1 : Write(x, k, now)[x][n] = n - 1
         /\ \A y \in File \ {x} : Write(x, k, now)[y] = now[y]
<1> DEFINE s == IF k = 0 THEN <<0>> ELSE Append(now[x], k)
<1>1. Write(x, k, now) = [now EXCEPT ![x] = s]
  BY DEF Write
<1>2. /\ s \in Seq(Chunk) /\ Len(s) = k + 1
      /\ \A n \in 1 .. k + 1 : s[n] = n - 1
  <2>1. CASE k = 0
    <3>1. s = <<0>> /\ 0 \in Chunk
      BY <2>1 DEF Chunk
    <3>2. QED
      BY <2>1, <3>1
  <2>2. CASE k # 0
    <3>1. now[x] \in Seq(Chunk) /\ k \in Nat /\ k > 0 /\ s = Append(now[x], k)
      BY <2>2 DEF Chunk
    <3>2. s \in Seq(Chunk) /\ Len(s) = k + 1 /\ s[k + 1] = k
      BY <3>1
    <3>3. \A n \in 1 .. k : s[n] = now[x][n]
      BY <3>1
    <3>4. QED
      BY <3>1, <3>2, <3>3
  <2>3. QED
    BY <2>1, <2>2
<1> HIDE DEF s
<1>3. QED
  BY <1>1, <1>2

\* A chunk is refused, lost on the way to the disk, or written and acknowledged.
LEMMA HandleUploadKeeps ==
  ASSUME ShareInv, NEW c \in Client, HandleUpload(c)
  PROVE  ShareInv'
<1> USE DEF ShareInv
<1>0. /\ ShareTypes /\ Upload(c) /\ Product(c) /\ share' = share
      /\ job[c] \in JobRec /\ job[c].at = "send"
      /\ srv' = srv /\ dir' = dir /\ dlAuth' = dlAuth /\ sweeping' = sweeping
  BY DEF HandleUpload, nodeVars, ShareTypes
<1>1. /\ srv[c] = "idle" /\ c \notin dlAuth /\ c \notin sweeping
  BY <1>0 DEF Product, Early
<1>2. PICK step \in {"await", "failed"} : job' = JobAt(c, step)
  BY DEF HandleUpload
<1>3. /\ job' \in [Client -> JobRec] /\ job'[c].at = step
      /\ job'[c].kind = job[c].kind /\ job'[c].size = job[c].size
      /\ job'[c].file = job[c].file /\ job'[c].seq = job[c].seq
      /\ \A d \in Client \ {c} : job'[d] = job[d]
  BY <1>0, <1>2, JobMoved DEF JobSteps
<1>4. Product(c)'
  BY <1>0, <1>1 DEF Product
<1>5. CASE stored' = stored /\ ack' = [ack EXCEPT ![c] = "refused"]
  <2>1. ShareTypes' /\ Alone(c)
    BY <1>0, <1>3, <1>5 DEF ShareTypes, Alone, Untouched
  <2>2. AtImage(c)'
    BY <1>0, <1>3, <1>5 DEF Upload, AtImage, Before, HasChunks
  <2>3. ack'[c] # "ok"
    BY <1>0, <1>5 DEF ShareTypes
  <2>4. Upload(c)'
    BY <1>0, <1>1, <1>3, <2>2, <2>3 DEF Upload
  <2>5. QED
    BY <1>0, <1>4, <2>1, <2>4, OneClientStep DEF Alone
<1>6. CASE stored' = stored /\ ack' = ack /\ job' = JobAt(c, "failed")
  <2>1. job'[c].at = "failed"
    BY <1>0, <1>6, JobMoved DEF JobSteps
  <2>2. ShareTypes' /\ Alone(c)
    BY <1>0, <1>3, <1>6 DEF ShareTypes, Alone, Untouched
  <2>3. Upload(c)'
    BY <1>0, <1>3, <1>6, <2>1, UploadStays
  <2>4. QED
    BY <1>0, <1>4, <2>2, <2>3, OneClientStep DEF Alone
<1>7. CASE /\ stored' = [stored EXCEPT ![c] = Write(job[c].file, job[c].seq, @)]
           /\ ack' = [ack EXCEPT ![c] = "ok"]
  <2> DEFINE x == job[c].file
             k == job[c].seq
             w == Write(x, k, stored[c])
  <2>1. AtImage(c) /\ (k > 0 => HasChunks(c, x, k))
    BY <1>0 DEF Upload
  <2>2. x \in File /\ k \in Chunk /\ stored[c] \in [File -> Seq(Chunk)]
    BY <1>0, <2>1 DEF AtImage, JobRec, File, ShareTypes
  <2>3. /\ w \in [File -> Seq(Chunk)] /\ Len(w[x]) = k + 1
        /\ \A n \in 1 .. k + 1 : w[x][n] = n - 1
        /\ \A y \in File \ {x} : w[y] = stored[c][y]
    <3>1. k > 0 => Len(stored[c][x]) = k /\ \A n \in 1 .. k : stored[c][x][n] = n - 1
      BY <2>1 DEF HasChunks
    <3> HIDE DEF x, k
    <3>2. QED
      BY <2>2, <3>1, ChunkWritten
  <2>4. stored' = [stored EXCEPT ![c] = w]
    BY <1>7
  <2> HIDE DEF w
  <2>5. /\ stored' \in [Client -> [File -> Seq(Chunk)]]
        /\ stored'[c] = w /\ \A d \in Client \ {c} : stored'[d] = stored[d]
    BY <1>0, <2>3, <2>4 DEF ShareTypes
  <2>6. ShareTypes' /\ Alone(c)
    BY <1>0, <1>3, <1>7, <2>5 DEF ShareTypes, Alone, Untouched
  <2>7. Before(c)'
    <3>1. ASSUME NEW y \in File, y < x
          PROVE  HasChunks(c, y, job[c].size[y])'
      <4>1. y # x
        BY <2>2, <3>1 DEF File
      <4>2. HasChunks(c, y, job[c].size[y])
        BY <2>1, <3>1 DEF AtImage, Before
      <4>3. stored'[c][y] = stored[c][y]
        BY <2>3, <2>5, <4>1
      <4>4. QED
        BY <1>3, <4>2, <4>3 DEF HasChunks
    <3>2. QED
      BY <1>3, <3>1 DEF Before
  <2>8. AtImage(c)'
    BY <1>3, <2>1, <2>7 DEF AtImage
  <2>9. HasChunks(c, job[c].file, job[c].seq + 1)'
    BY <1>3, <2>3, <2>5 DEF HasChunks
  <2>10. Upload(c)'
    BY <1>0, <1>1, <1>3, <2>8, <2>9 DEF Upload
  <2>11. QED
    BY <1>0, <1>4, <2>6, <2>10, OneClientStep DEF Alone
<1>8. QED
  BY <1>5, <1>6, <1>7 DEF HandleUpload

\* The end of a flash clears its images; the client has long asked for it.
LEMMA RequestKeeps ==
  ASSUME ShareInv, NEW c \in Client, Request(c) \/ Forwarded(c) \/ FlashOver(c)
  PROVE  ShareInv'
<1> USE DEF ShareInv
<1>0. /\ ShareTypes /\ Upload(c) /\ Product(c) /\ share' = share
      /\ job[c] \in JobRec /\ ack' = ack
      /\ dlAuth' = dlAuth /\ sweeping' = sweeping
  BY DEF Request, Forwarded, FlashOver, nodeVars, ShareTypes
<1>1. CASE Request(c)
  <2>1. PICK step \in {"failed", "asked"} : job' = JobAt(c, step)
    BY <1>1 DEF Request
  <2>2. /\ job' \in [Client -> JobRec] /\ job'[c].at = step
        /\ job'[c].kind = job[c].kind /\ job'[c].size = job[c].size
        /\ \A d \in Client \ {c} : job'[d] = job[d]
    BY <1>0, <2>1, JobMoved DEF JobSteps
  <2>3. srv[c] = "idle" /\ c \notin dlAuth /\ c \notin sweeping
    BY <1>0, <1>1 DEF Request, Product, Early
  <2>4. PICK h \in {"over", "idle", "run"} : srv' = SrvAt(c, h)
    BY <1>1 DEF Request
  <2>5. ShareTypes' /\ Alone(c) /\ srv'[c] = h
    BY <1>0, <1>1, <2>2, <2>4 DEF ShareTypes, Alone, Untouched, Request, SrvAt, SrvSteps
  <2>6. Whole(c)' <=> Whole(c)
    BY <1>1, <2>2 DEF Whole, Request
  <2>7. Upload(c)'
    BY <1>0, <1>1, <2>2, <2>6 DEF Upload, Request
  <2>8. Product(c)'
    BY <1>0, <1>1, <2>2, <2>3, <2>5 DEF Product, Early, Request
  <2>9. QED
    BY <1>0, <2>5, <2>7, <2>8, OneClientStep DEF Alone
<1>2. CASE Forwarded(c)
  <2>1. ShareTypes' /\ Alone(c) /\ srv'[c] = "over" /\ job' = job /\ stored' = stored
    BY <1>0, <1>2 DEF ShareTypes, Alone, Untouched, Forwarded, SrvAt, SrvSteps
  <2>2. Upload(c)'
    BY <1>0, <2>1, UploadStays
  <2>3. Product(c)'
    BY <1>0, <1>2, <2>1 DEF Product, Early, Forwarded
  <2>4. QED
    BY <1>0, <2>1, <2>2, <2>3, OneClientStep DEF Alone
<1>3. CASE FlashOver(c)
  <2>1. job' = job \/ (job[c].at = "asked" /\ job' = JobAt(c, "got"))
    BY <1>3 DEF FlashOver, Answer
  <2>2. /\ job' \in [Client -> JobRec] /\ job'[c].at \in {job[c].at, "got"}
        /\ \A d \in Client \ {c} : job'[d] = job[d]
    BY <1>0, <2>1, JobMoved DEF JobSteps, ShareTypes
  <2>3. ~Early(c) /\ c \notin dlAuth /\ c \notin sweeping
    BY <1>0, <1>3 DEF FlashOver, Product
  <2>4. NoFiles \in [File -> Seq(Chunk)]
    BY DEF NoFiles
  <2>5. ShareTypes' /\ Alone(c) /\ srv'[c] = "idle"
    BY <1>0, <1>3, <2>2, <2>4 DEF ShareTypes, Alone, Untouched, FlashOver, SrvAt, SrvSteps
  <2>6. Upload(c)'
    BY <2>2, <2>3, <2>5 DEF Upload, Early
  <2>7. Product(c)'
    BY <1>0, <2>2, <2>3, <2>5 DEF Product, Early
  <2>8. QED
    BY <1>0, <2>5, <2>6, <2>7, OneClientStep DEF Alone
<1>4. QED
  BY <1>1, <1>2, <1>3

\* The client's job has moved on to fetching its product, or stayed.
MovedOn(c) ==
    /\ job' \in [Client -> JobRec]
    /\ job'[c].kind = job[c].kind /\ job'[c].size = job[c].size
    /\ job'[c] = job[c] \/ job'[c].at \in {"fetch", "failed", "fetching", "got"}
    /\ \A d \in Client \ {c} : job'[d] = job[d]

\* A product: offered, fetched, read, removed.
LEMMA ProductKeeps ==
  ASSUME ShareInv, NEW c \in Client,
         DumpOver(c) \/ Download(c) \/ ReadOver(c) \/ RemoveAfter(c) \/ RemoveSwept(c)
  PROVE  ShareInv'
<1> USE DEF ShareInv
<1>0. /\ ShareTypes /\ Upload(c) /\ Product(c) /\ share' = share
      /\ job[c] \in JobRec /\ ack' = ack /\ stored' = stored
  BY DEF DumpOver, Download, ReadOver, RemoveAfter, RemoveSwept, nodeVars, ShareTypes
<1>1. \/ job' = job
      \/ \E step \in {"fetch", "failed", "fetching", "got"} : job' = JobAt(c, step)
  BY DEF DumpOver, Download, ReadOver, RemoveAfter, RemoveSwept, Answer
<1>2. MovedOn(c)
  <2>1. CASE job' = job
    BY <1>0, <2>1 DEF ShareTypes, MovedOn
  <2>2. ASSUME NEW step \in {"fetch", "failed", "fetching", "got"}, job' = JobAt(c, step)
        PROVE  MovedOn(c)
    BY <1>0, <2>2, JobMoved DEF JobSteps, MovedOn
  <2>3. QED
    BY <1>1, <2>1, <2>2
<1>3. ShareTypes' /\ Alone(c)
  BY <1>0, <1>2, ZenonT(60)
  DEF MovedOn, ShareTypes, Alone, Untouched, DumpOver, Download, ReadOver, RemoveAfter,
      RemoveSwept, TakeToken, SrvAt, SrvSteps
<1>4. Early(c)' => Early(c) /\ job'[c] = job[c]
  BY <1>2 DEF Early, MovedOn
<1>5. srv'[c] = "run" => srv[c] = "run"
  BY <1>0
  DEF ShareTypes, DumpOver, Download, ReadOver, RemoveAfter, RemoveSwept, SrvAt
<1>6. Upload(c)'
  BY <1>0, <1>2, <1>5, UploadStays DEF MovedOn
<1>7. Product(c)'
  <2>1. CASE DumpOver(c)
    BY <1>0, <1>4, <2>1 DEF Product, DumpOver, SrvAt, ShareTypes, Early
  <2>2. CASE Download(c)
    BY <1>0, <1>4, <2>2 DEF Product, Download, SrvAt, ShareTypes, TakeToken, Early
  <2>3. CASE ReadOver(c)
    BY <1>0, <1>4, <2>3 DEF Product, ReadOver, SrvAt, ShareTypes, Early
  <2>4. CASE RemoveAfter(c)
    BY <1>0, <1>4, <2>4 DEF Product, RemoveAfter, SrvAt, ShareTypes, Early
  <2>5. CASE RemoveSwept(c)
    BY <1>0, <1>4, <2>5 DEF Product, RemoveSwept, ShareTypes, Early
  <2>6. QED
    BY <2>1, <2>2, <2>3, <2>4, <2>5
<1>8. QED
  BY <1>0, <1>3, <1>6, <1>7, OneClientStep DEF Alone

\* The sweep and Close take tokens; the node ends, and starts again.
LEMMA NodeKeeps ==
  ASSUME ShareInv, Prune \/ CloseNode \/ NodeEnds \/ NodeStarts
  PROVE  ShareInv'
<1> USE DEF ShareInv
<1>1. ASSUME NEW taken \in SUBSET dlAuth, TakeTokens(taken), share' \in {"up", "closed"}
      PROVE  ShareInv'
  <2>1. ShareTypes'
    BY <1>1 DEF ShareTypes, TakeTokens
  <2>2. ASSUME NEW c \in Client
        PROVE  Upload(c)' /\ Product(c)'
    <3>1. Upload(c) /\ Product(c)
      OBVIOUS
    <3>2. Upload(c)'
      BY <1>1, <3>1, UploadStays DEF TakeTokens
    <3>3. Product(c)'
      BY <1>1, <3>1 DEF TakeTokens, Product, Early
    <3>4. QED
      BY <3>2, <3>3
  <2>3. QED
    BY <2>1, <2>2
<1>2. CASE Prune
  BY <1>1, <1>2 DEF Prune
<1>3. CASE CloseNode
  BY <1>1, <1>3 DEF CloseNode
<1>4. CASE NodeEnds
  <2>1. ASSUME NEW c \in Client
        PROVE  /\ job'[c] \in JobRec
               /\ job'[c].kind = job[c].kind /\ job'[c].size = job[c].size
               /\ job'[c] = job[c] \/ job'[c].at = "failed"
               /\ job'[c].at \notin {"send", "await"}
    <3> DEFINE r == [job[c] EXCEPT !.at = "failed"]
    <3>1. job[c] \in JobRec
      BY DEF ShareTypes
    <3>2. r \in JobRec /\ r.kind = job[c].kind /\ r.size = job[c].size /\ r.at = "failed"
      BY <3>1 DEF JobRec, JobSteps
    <3> HIDE DEF r
    <3>3. job'[c] = IF job[c].at \in {"send", "await", "asked", "fetching"} THEN r ELSE job[c]
      BY <1>4 DEF NodeEnds, r
    <3>4. QED
      BY <3>1, <3>2, <3>3
  <2>2. job' \in [Client -> JobRec]
    <3>1. \E f : job' = [c \in Client |-> f[c]]
      <4> DEFINE f == [c \in Client |-> IF job[c].at \in {"send", "await", "asked", "fetching"}
                                        THEN [job[c] EXCEPT !.at = "failed"] ELSE job[c]]
      <4>1. job' = f
        BY <1>4 DEF NodeEnds
      <4>2. f = [c \in Client |-> f[c]]
        OBVIOUS
      <4>3. QED
        BY <4>1, <4>2
    <3>2. QED
      BY <2>1, <3>1
  <2>3. ShareTypes'
    BY <1>4, <2>2 DEF ShareTypes, NodeEnds, SrvSteps
  <2>4. ASSUME NEW c \in Client
        PROVE  Upload(c)' /\ Product(c)'
    <3>1. Upload(c) /\ Product(c) /\ srv'[c] = "idle" /\ ack'[c] = "none"
      BY <1>4 DEF NodeEnds
    <3>2. Upload(c)'
      BY <1>4, <2>1, <3>1, UploadStays DEF NodeEnds
    <3>3. Product(c)'
      BY <1>4, <3>1 DEF NodeEnds, Product
    <3>4. QED
      BY <3>2, <3>3
  <2>5. QED
    BY <2>3, <2>4
<1>5. CASE NodeStarts
  <2>1. PICK old \in SUBSET {c \in Client : job[c].at \in {"got", "failed"}} :
          /\ stored' = [c \in Client |-> IF c \in old THEN NoFiles ELSE stored[c]]
          /\ dir' = [c \in Client |-> IF c \in old THEN "none" ELSE dir[c]]
    BY <1>5 DEF NodeStarts
  <2>2. NoFiles \in [File -> Seq(Chunk)]
    BY DEF NoFiles
  <2>3. ShareTypes'
    BY <1>5, <2>1, <2>2 DEF ShareTypes, NodeStarts
  <2>4. ASSUME NEW c \in Client
        PROVE  Upload(c)' /\ Product(c)'
    <3>1. /\ Upload(c) /\ Product(c) /\ job' = job /\ ack' = ack /\ srv' = srv
          /\ srv[c] = "idle" /\ c \notin dlAuth' /\ c \notin sweeping'
          /\ share' = "up"
      BY <1>5 DEF NodeStarts, Product
    <3>2. c \in old => job[c].at \in {"got", "failed"}
      OBVIOUS
    <3>3. c \in old => Upload(c)'
      BY <3>1, <3>2 DEF Upload
    <3>4. c \notin old => stored'[c] = stored[c] /\ dir'[c] = dir[c]
      BY <2>1
    <3>5. c \notin old => Upload(c)'
      BY <3>1, <3>4, UploadStays
    <3>6. Product(c)'
      BY <3>1, <3>2, <3>4 DEF Product, Early
    <3>7. QED
      BY <3>3, <3>5, <3>6
  <2>5. QED
    BY <2>3, <2>4
<1>6. QED
  BY <1>2, <1>3, <1>4, <1>5

\* Every step keeps what holds of uploads and products.
LEMMA SharesKeep == ShareSpec => []ShareInv
<1>1. ShareInit => ShareInv
  <2> SUFFICES ASSUME ShareInit PROVE ShareInv
    OBVIOUS
  <2>1. NoFiles \in [File -> Seq(Chunk)]
    BY DEF NoFiles
  <2>2. job \in [Client -> JobRec] /\ \A c \in Client : job[c].at = "none"
                                       /\ job[c].file = 1 /\ job[c].seq = 0
    BY DEF ShareInit, JobRec, JobSteps, Chunk
  <2>3. ShareTypes
    BY <2>1, <2>2 DEF ShareInit, ShareTypes, SrvSteps
  <2>4. ASSUME NEW c \in Client
        PROVE  Upload(c) /\ Product(c)
    BY <2>2 DEF ShareInit, Upload, Product, Early
  <2>5. QED
    BY <2>3, <2>4 DEF ShareInv
<1>2. ShareInv /\ [ShareNext]_shareVars => ShareInv'
  <2> SUFFICES ASSUME ShareInv, [ShareNext]_shareVars PROVE ShareInv'
    OBVIOUS
  <2>1. CASE UNCHANGED shareVars
    BY <2>1
    DEF ShareInv, shareVars, serverVars, nodeVars, ShareTypes, Upload, Product, Early,
        AtImage, Before, HasChunks, Whole
  <2> HIDE DEF ShareInv
  <2>2. ASSUME NEW c \in Client, Begin(c) \/ Await(c) \/ GiveUp(c)
        PROVE  ShareInv'
    BY <2>2, ClientKeeps
  <2>3. ASSUME NEW c \in Client, HandleUpload(c)
        PROVE  ShareInv'
    BY <2>3, HandleUploadKeeps
  <2>4. ASSUME NEW c \in Client, Request(c) \/ Forwarded(c) \/ FlashOver(c)
        PROVE  ShareInv'
    BY <2>4, RequestKeeps
  <2>5. ASSUME NEW c \in Client,
               DumpOver(c) \/ Download(c) \/ ReadOver(c) \/ RemoveAfter(c) \/ RemoveSwept(c)
        PROVE  ShareInv'
    BY <2>5, ProductKeeps
  <2>6. QED
    BY <2>1, <2>2, <2>3, <2>4, <2>5, NodeKeeps DEF ShareNext
<1>3. QED
  BY <1>1, <1>2, PTL DEF ShareSpec

(* FlashesWhole (upload.go:207-208): a flash that runs for a remote client *)
(* finds every image whole and in order, for any number of clients, images *)
(* and chunks, whatever breaks on the way.                                 *)
THEOREM FlashesAreWhole == ShareSpec => []FlashesWhole
<1>1. ShareInv => FlashesWhole
  BY DEF ShareInv, Upload, FlashesWhole
<1>2. QED
  BY <1>1, SharesKeep, PTL

(* ServedAlone (upload.go:132-134): nothing removes a product that is read *)
(* for its download, neither the sweep nor Close nor a second download.    *)
THEOREM ProductsAreServedAlone == ShareSpec => []ServedAlone
<1>1. ShareInv => ServedAlone
  BY DEF ShareInv, Product, ServedAlone
<1>2. QED
  BY <1>1, SharesKeep, PTL
=============================================================================
