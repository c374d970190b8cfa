---------------------------- MODULE MeshTunnels ----------------------------
(***************************************************************************)
(* Tunnels to a device of another node (internal/mesh/tunnel.go), both     *)
(* sides of them: OpenTunnel, CloseTunnel and the goroutine that serves    *)
(* one local user; and on the peer handleDial, which starts the device's   *)
(* proxy endpoint, joins it to the channel and stops it again.             *)
(*                                                                         *)
(* A channel is open until either side closes it.  The endpoint is what    *)
(* ProxyBridge models in full; here it is the tunnel it was started for,   *)
(* with its one client slot.                                               *)
(***************************************************************************)
EXTENDS Naturals

CONSTANTS Tunnel,    \* calls of OpenTunnel
          Pattern,   \* the patterns users give, each matching one device
          Device,
          DeviceOf,  \* Pattern -> Device
          NoTunnel

ASSUME TunnelAssumption == NoTunnel \notin Tunnel /\ DeviceOf \in [Pattern -> Device]

VARIABLES tun,    \* per tunnel: the initiator's step, its pattern, t.closed
                  \* and the local user
          wire,   \* channels that are open
          table,  \* Node.tunnels
          dial,   \* per tunnel: the peer's handleDial, the endpoint it was
                  \* given and whether its connection to it is open
          ep,     \* per device: the endpoint, named by the tunnel it was
                  \* started for
          slot    \* per device: the endpoint's client

tunnelVars == <<tun, wire, table, dial, ep, slot>>

TunSteps  == {"none", "asked", "accept", "bridge", "drop", "done"}
DialSteps == {"none", "start", "connect", "ack", "pump", "stop", "over"}
Tunnels   == Tunnel \cup {NoTunnel}

TunnelTypeOK ==
    /\ tun \in [Tunnel -> [at : TunSteps, pattern : Pattern,
                           closed : BOOLEAN, user : {"none", "on", "gone"}]]
    /\ wire \subseteq Tunnel
    /\ table \in [Pattern -> Tunnels]
    /\ dial \in [Tunnel -> [at : DialSteps, ep : Tunnels,
                            open : BOOLEAN, acked : BOOLEAN]]
    /\ ep \in [Device -> Tunnels] /\ slot \in [Device -> Tunnels]

TunnelInit ==
    /\ tun \in [Tunnel -> [at : {"none"}, pattern : Pattern,
                           closed : {FALSE}, user : {"none"}]]
    /\ wire = {}
    /\ table = [p \in Pattern |-> NoTunnel]
    /\ dial = [t \in Tunnel |-> [at |-> "none", ep |-> NoTunnel,
                              open |-> FALSE, acked |-> FALSE]]
    /\ ep = [d \in Device |-> NoTunnel] /\ slot = [d \in Device |-> NoTunnel]

Dev(t) == DeviceOf[tun[t].pattern]
TunAt(t, step)  == [tun EXCEPT ![t].at = step]
DialAt(t, step) == [dial EXCEPT ![t].at = step]

(***************************************************************************)
(* The peer: handleDial.                                                   *)
(***************************************************************************)
\* ProxyStart hands out the device's endpoint, started already or now.  It
\* fails when no device matches, the node is read-only or has no proxy.
DialStart(t) ==
    /\ dial[t].at = "start"
    /\ \/ /\ ep' = IF ep[Dev(t)] = NoTunnel THEN [ep EXCEPT ![Dev(t)] = t] ELSE ep
          /\ dial' = [dial EXCEPT ![t].at = "connect", ![t].ep = ep'[Dev(t)]]
       \/ dial' = DialAt(t, "over") /\ UNCHANGED ep
    /\ UNCHANGED <<tun, wire, table, slot>>

\* ProxyStop closes the device's endpoint, whoever started it, and hangs up
\* on its client.
ProxyStopped(d) == ep' = [ep EXCEPT ![d] = NoTunnel] /\ slot' = [slot EXCEPT ![d] = NoTunnel]
HungUp(d, now) == IF slot[d] = NoTunnel THEN now ELSE [now EXCEPT ![slot[d]].open = FALSE]

DialFails_Bug(t) ==
    /\ dial[t].at = "connect"
    /\ dial' = DialAt(t, "over")
    /\ UNCHANGED <<tun, wire, table, ep, slot>>
DialFails(t) ==
    /\ dial[t].at = "connect"
    /\ ProxyStopped(Dev(t))
    /\ dial' = HungUp(Dev(t), DialAt(t, "over"))
    /\ UNCHANGED <<tun, wire, table>>

\* The endpoint takes one client and closes the connection of any other.
DialConnect(t) ==
    LET d == Dev(t) IN
    /\ dial[t].at = "connect" /\ ep[d] = dial[t].ep
    /\ slot' = IF slot[d] = NoTunnel THEN [slot EXCEPT ![d] = t] ELSE slot
    /\ dial' = [dial EXCEPT ![t].at = "ack", ![t].open = slot[d] = NoTunnel]
    /\ UNCHANGED <<tun, wire, table, ep>>

DialAck(t) ==
    /\ dial[t].at = "ack"
    /\ dial' = IF t \in wire THEN [dial EXCEPT ![t].at = "pump", ![t].acked = TRUE]
                ELSE DialAt(t, "stop")
    /\ UNCHANGED <<tun, wire, table, ep, slot>>

\* One of the two pumps ends, closes the other's source and waits for it.
PumpsEnd(t) ==
    /\ dial[t].at = "pump"
    /\ ~dial[t].open \/ t \notin wire
    /\ dial' = DialAt(t, "stop")
    /\ wire' = wire \ {t}
    /\ UNCHANGED <<tun, table, ep, slot>>

\* The deferred end of handleDial, and serveConn's of the channel.
DialStop(t) ==
    /\ dial[t].at = "stop"
    /\ ProxyStopped(Dev(t))
    /\ dial' = [HungUp(Dev(t), DialAt(t, "over")) EXCEPT ![t].open = FALSE]
    /\ wire' = wire \ {t}
    /\ UNCHANGED <<tun, table>>

\* The board is unplugged, or its own user stops the endpoint.
EndpointGone(d) ==
    /\ ep[d] # NoTunnel
    /\ ProxyStopped(d)
    /\ dial' = HungUp(d, dial)
    /\ UNCHANGED <<tun, wire, table>>

(***************************************************************************)
(* The initiator: OpenTunnel, serve and bridge, CloseTunnel.               *)
(***************************************************************************)
OpenAsks(t) ==
    /\ tun[t].at = "none"
    /\ tun' = TunAt(t, "asked")
    /\ wire' = wire \cup {t}
    /\ dial' = DialAt(t, "start")
    /\ UNCHANGED <<table, ep, slot>>

\* The answer: an error or a refusal, or an endpoint for the user that
\* replaces whatever the pattern's entry was.
OpenFails(t) ==
    /\ tun[t].at = "asked" /\ dial[t].at = "over" /\ ~dial[t].acked
    /\ tun' = TunAt(t, "done")
    /\ wire' = wire \ {t}
    /\ UNCHANGED <<table, dial, ep, slot>>
OpenDone(t) ==
    /\ tun[t].at = "asked" /\ dial[t].acked
    /\ tun' = TunAt(t, "accept")
    /\ table' = [table EXCEPT ![tun[t].pattern] = t]
    /\ UNCHANGED <<wire, dial, ep, slot>>

UserDials(t) ==
    /\ tun[t].at = "accept" /\ ~tun[t].closed
    /\ tun' = [tun EXCEPT ![t].at = "bridge", ![t].user = "on"]
    /\ UNCHANGED <<wire, table, dial, ep, slot>>
UserHangsUp(t) ==
    /\ tun[t].user = "on"
    /\ tun' = [tun EXCEPT ![t].user = "gone"]
    /\ UNCHANGED <<wire, table, dial, ep, slot>>

AcceptFails(t) ==
    /\ tun[t].at = "accept" /\ tun[t].closed
    /\ tun' = TunAt(t, "drop")
    /\ UNCHANGED <<wire, table, dial, ep, slot>>

\* bridge reads the user: his end closes the channel, which ends the other
\* direction; what he still sends on a closed channel ends the bridge too.
UserGone_Bug(t) ==
    /\ tun[t].at = "bridge" /\ tun[t].user = "gone"
    /\ t \notin wire
    /\ tun' = TunAt(t, "drop")
    /\ UNCHANGED <<wire, table, dial, ep, slot>>
UserGone(t) ==
    /\ tun[t].at = "bridge" /\ tun[t].user = "gone"
    /\ tun' = TunAt(t, "drop")
    /\ wire' = wire \ {t}
    /\ UNCHANGED <<table, dial, ep, slot>>
UserSends(t) ==
    /\ tun[t].at = "bridge" /\ tun[t].user = "on" /\ t \notin wire
    /\ tun' = [tun EXCEPT ![t].at = "drop", ![t].user = "gone"]
    /\ UNCHANGED <<wire, table, dial, ep, slot>>

\* close, and dropTunnel, which leaves a successor's entry alone.
Drop(t) ==
    /\ tun[t].at = "drop"
    /\ tun' = [tun EXCEPT ![t].at = "done", ![t].closed = TRUE]
    /\ wire' = wire \ {t}
    /\ table' = [p \in Pattern |-> IF table[p] = t THEN NoTunnel ELSE table[p]]
    /\ UNCHANGED <<dial, ep, slot>>

\* CloseTunnel; Close does the same for every pattern.
CloseTunnel(p) ==
    LET t == table[p] IN
    /\ t # NoTunnel
    /\ table' = [table EXCEPT ![p] = NoTunnel]
    /\ tun' = [tun EXCEPT ![t].closed = TRUE]
    /\ wire' = wire \ {t}
    /\ UNCHANGED <<dial, ep, slot>>

DialStep(t) == \/ DialStart(t) \/ DialFails(t) \/ DialConnect(t) \/ DialAck(t)
               \/ PumpsEnd(t) \/ DialStop(t)
ServeStep(t) == \/ OpenFails(t) \/ OpenDone(t) \/ AcceptFails(t) \/ UserGone(t)
                \/ Drop(t)
TunnelNext ==
    \/ \E t \in Tunnel : \/ DialStep(t) \/ ServeStep(t) \/ OpenAsks(t)
                         \/ UserDials(t) \/ UserHangsUp(t) \/ UserSends(t)
    \/ \E d \in Device : EndpointGone(d)
    \/ \E p \in Pattern : CloseTunnel(p)

TunnelSpec == TunnelInit /\ [][TunnelNext]_tunnelVars

-----------------------------------------------------------------------------
(* An endpoint that is up has a dial at work that will stop it: no tunnel  *)
(* that fails, ends or is overtaken by another leaves the board with the   *)
(* endpoint after the last of them (tunnel.go:39-40).                      *)
EndpointGivenBack ==
    \A d \in Device : ep[d] # NoTunnel =>
        \E t \in Tunnel : Dev(t) = d /\ dial[t].at \in {"connect", "ack", "pump", "stop"}

(* A tunnel its user has hung up on, or that was closed before he came,    *)
(* ends on both sides: no goroutine waits for the other (tunnel.go:195).   *)
HangUpEnds ==
    \A t \in Tunnel :
        (tun[t].user = "gone" \/ (tun[t].closed /\ tun[t].user = "none"))
            ~> tun[t].at = "done" /\ dial[t].at = "over"
=============================================================================
