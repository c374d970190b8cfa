----------------------------- MODULE MeshLinks -----------------------------
(***************************************************************************)
(* How a node finds its peers and stays linked to them (internal/mesh      *)
(* registry.go, beacon.go, link.go): beacons, incoming handshakes and      *)
(* calls write the registry, a sweep removes the peers that fell silent,   *)
(* and one goroutine per key dials, knocks, keeps the link alive and waits *)
(* before it tries again.  A loop that finds no address takes itself out   *)
(* of the map while a beacon may be asking for it.                         *)
(*                                                                         *)
(* The peers are the environment: a peer is at one of its addresses or     *)
(* down, and its user approves this node or does not.                      *)
(***************************************************************************)
EXTENDS Naturals, FiniteSets

CONSTANTS Id,        \* ids of peers
          Addr,      \* addresses, host and port
          Home,      \* per id: the addresses it may be started at
          Static,    \* Options.StaticPeers
          None,      \* no id, no address, no loop
          MaxLoop,   \* bound: link loops that have not ended
          MaxMoves,  \* bound: starts, stops and changes of mind of the peers
          MaxExpiry  \* bound: peers expired

ASSUME LinksAssumption ==
    /\ None \notin Id \cup Addr \cup (1 .. MaxLoop) /\ Id \cap Addr = {}
    /\ Home \in [Id -> SUBSET Addr]
    /\ Static \subseteq Addr /\ IsFiniteSet(Static)
    /\ MaxLoop \in Nat /\ Cardinality(Static) <= MaxLoop
    /\ MaxMoves \in Nat /\ MaxExpiry \in Nat

Key  == Id \cup Static     \* a seed's address stands for "static:" + address
Loop == 1 .. MaxLoop

VARIABLES reg,      \* Registry.peers: key -> entry, or NoEntry
          links,    \* Node.links: key -> loop, or None
          loop,     \* the loops
          linkSt,   \* Node.linkSt: id -> "yes", "no" or "unknown"
          beacon,   \* the listener: the beacon it is working on
          heard,    \* history: ids whose beacon asked for a link since they
                    \* last expired
          where, approves,          \* the peers
          closing, moves, expiries

peerVars == <<where, approves, moves>>
loopVars == <<links, loop>>
linksVars == <<reg, loopVars, linkSt, beacon, heard, peerVars, closing, expiries>>

Entry == [id : Id \cup {None}, addr : Addr, static : BOOLEAN]
NoEntry == [id |-> None, addr |-> None, static |-> FALSE]
LoopSteps == {"done", "top", "gone", "recheck", "dial", "knock", "alive", "wait"}

LinksTypeOK ==
    /\ reg \in [Key -> Entry \cup {NoEntry}]
    /\ links \in [Key -> Loop \cup {None}]
    /\ loop \in [Loop -> [at : LoopSteps, key : Key \cup {None},
                          addr : Addr \cup {None}, target : Addr \cup {None},
                          peer : Id \cup {None}, live : BOOLEAN]]
    /\ linkSt \in [Id -> {"yes", "no", "unknown"}]
    /\ beacon \in [id : Id \cup {None}, addr : Addr \cup {None}]
    /\ heard \subseteq Id
    /\ where \in [Id -> Addr \cup {None}] /\ approves \in [Id -> BOOLEAN]
    /\ closing \in BOOLEAN
    /\ moves \in 0 .. MaxMoves /\ expiries \in 0 .. MaxExpiry

(***************************************************************************)
(* The registry (each operation is one critical section).                  *)
(***************************************************************************)
Known(k) == reg[k] # NoEntry

UpsertBeacon(i, a) ==
    [reg EXCEPT ![i] = IF Known(i) THEN [@ EXCEPT !.addr = a]
                       ELSE [id |-> i, addr |-> a, static |-> FALSE]]

LearnedIdent(a, i) ==
    IF a \in Static /\ Known(a)
    THEN [reg EXCEPT ![a] = NoEntry, ![i] = [reg[a] EXCEPT !.id = i]]
    ELSE [reg EXCEPT ![i] = IF Known(i) THEN [@ EXCEPT !.addr = a]
                            ELSE [id |-> i, addr |-> a, static |-> TRUE]]

\* ByAddr returns some entry with the address.
ByAddr(a) == {reg[k] : k \in {x \in Key : Known(x) /\ reg[x].addr = a}}

ResolvedAddr(l) ==
    CASE Known(loop[l].key)          -> reg[loop[l].key].addr
      [] ~Known(loop[l].key) /\ ByAddr(loop[l].addr) # {} -> loop[l].addr
      [] ~Known(loop[l].key) /\ ByAddr(loop[l].addr) = {} ->
             IF loop[l].key \in Static THEN loop[l].addr ELSE None

(***************************************************************************)
(* Link loops.                                                             *)
(***************************************************************************)
NoLoop == [at |-> "done", key |-> None, addr |-> None, target |-> None,
           peer |-> None, live |-> FALSE]

\* ensureLink, with `now` what the caller has made of the loops.
EnsureLink(k, a, now) ==
    IF links[k] # None
    THEN /\ loop' = IF a = None THEN now ELSE [now EXCEPT ![links[k]].addr = a]
         /\ UNCHANGED links
    ELSE \E l \in Loop :
            /\ now[l].at = "done" /\ \A m \in 1 .. l - 1 : now[m].at # "done"
            /\ loop' = [now EXCEPT ![l] = [NoLoop EXCEPT !.at = "top",
                                              !.key = k, !.addr = a]]
            /\ links' = [links EXCEPT ![k] = l]

\* start: the seeds are registered and each gets its loop.
LinksInit ==
    /\ reg = [k \in Key |-> IF k \in Static
                            THEN [id |-> None, addr |-> k, static |-> TRUE]
                            ELSE NoEntry]
    /\ links = CHOOSE f \in [Key -> Loop \cup {None}] :
                  /\ \A k \in Key : f[k] = None <=> k \in Id
                  /\ \A j, k \in Static : f[j] = f[k] => j = k
    /\ loop = [l \in Loop |->
                IF \E k \in Static : links[k] = l
                THEN LET k == CHOOSE x \in Static : links[x] = l
                     IN [NoLoop EXCEPT !.at = "top", !.key = k, !.addr = k]
                ELSE NoLoop]
    /\ linkSt = [i \in Id |-> "unknown"]
    /\ beacon = [id |-> None, addr |-> None]
    /\ heard = {}
    /\ where = [i \in Id |-> None] /\ approves = [i \in Id |-> FALSE]
    /\ closing = FALSE /\ moves = 0 /\ expiries = 0

LoopAt(l, step) == [loop EXCEPT ![l].at = step]
LoopUnchanged == UNCHANGED <<beacon, heard, peerVars, closing, expiries>>

LoopTop(l) ==
    /\ loop[l].at = "top"
    /\ loop' = CASE closing -> LoopAt(l, "done")
                 [] ~closing /\ ResolvedAddr(l) = None -> LoopAt(l, "gone")
                 [] ~closing /\ ResolvedAddr(l) # None ->
                        [loop EXCEPT ![l].at = "dial", ![l].target = ResolvedAddr(l)]
    /\ UNCHANGED <<reg, links, linkSt>> /\ LoopUnchanged

\* No address: out of the map, with what is known of the peer's approval ...
RemoveSelf_Bug(l) ==
    /\ loop[l].at = "gone"
    /\ loop' = LoopAt(l, "done")
    /\ UNCHANGED <<reg, links, linkSt>> /\ LoopUnchanged
RemoveSelf(l) ==
    LET k == loop[l].key IN
    /\ loop[l].at = "gone"
    /\ IF links[k] = l
       THEN /\ links' = [links EXCEPT ![k] = None]
            /\ linkSt' = [i \in Id |-> IF i = k THEN "unknown" ELSE linkSt[i]]
       ELSE UNCHANGED <<links, linkSt>>
    /\ loop' = LoopAt(l, "recheck")
    /\ UNCHANGED reg /\ LoopUnchanged

\* ... and a second look, for a beacon that came in between.
Recheck_Bug(l) ==
    /\ loop[l].at = "recheck"
    /\ loop' = LoopAt(l, "done")
    /\ UNCHANGED <<reg, links, linkSt>> /\ LoopUnchanged
Recheck(l) ==
    /\ loop[l].at = "recheck"
    /\ IF ResolvedAddr(l) # None THEN EnsureLink(loop[l].key, None, LoopAt(l, "done"))
       ELSE loop' = LoopAt(l, "done") /\ UNCHANGED links
    /\ UNCHANGED <<reg, linkSt>> /\ LoopUnchanged

\* linkOnce: dial and handshake.  A seed's identity is learnt here.
Dial(l) ==
    LET a == loop[l].target IN
    /\ loop[l].at = "dial"
    /\ \/ \E i \in Id :
            /\ where[i] = a
            /\ loop' = [loop EXCEPT ![l].at = "knock", ![l].peer = i, ![l].live = TRUE]
            /\ \/ /\ \E e \in ByAddr(a) : e.static \/ e.id = None
                  /\ reg' = LearnedIdent(a, i)
               \/ /\ ByAddr(a) = {} \/ \E e \in ByAddr(a) : ~e.static /\ e.id # None
                  /\ UNCHANGED reg
       \/ /\ \A i \in Id : where[i] # a
          /\ loop' = LoopAt(l, "wait")
          /\ UNCHANGED reg
    /\ UNCHANGED <<links, linkSt>> /\ LoopUnchanged

KnockAnswer(l) ==
    LET i == loop[l].peer IN
    /\ loop[l].at = "knock"
    /\ IF loop[l].live
       THEN /\ loop' = LoopAt(l, IF approves[i] THEN "alive" ELSE "wait")
            /\ linkSt' = [linkSt EXCEPT ![i] = IF approves[i] THEN "yes" ELSE "no"]
       ELSE loop' = LoopAt(l, "wait") /\ UNCHANGED linkSt
    /\ UNCHANGED <<reg, links>> /\ LoopUnchanged

\* The read side, a ping or the end of the node ends the keeping alive.
LinkLost(l) ==
    /\ loop[l].at = "alive"
    /\ ~loop[l].live \/ closing
    /\ loop' = [loop EXCEPT ![l].at = "wait", ![l].live = FALSE]
    /\ UNCHANGED <<reg, links, linkSt>> /\ LoopUnchanged

WaitOver(l) ==
    /\ loop[l].at = "wait"
    /\ loop' = [loop EXCEPT ![l] = [@ EXCEPT !.at = IF closing THEN "done" ELSE "top",
                                       !.target = None, !.peer = None, !.live = FALSE]]
    /\ UNCHANGED <<reg, links, linkSt>> /\ LoopUnchanged

LoopStep(l) == \/ LoopTop(l) \/ RemoveSelf(l) \/ Recheck(l) \/ Dial(l)
               \/ KnockAnswer(l) \/ LinkLost(l) \/ WaitOver(l)

(***************************************************************************)
(* Beacons, incoming connections, calls, the sweep, and Close.             *)
(***************************************************************************)
BeaconIn(i) ==
    /\ where[i] # None /\ ~closing
    /\ beacon.id = None
    /\ reg' = UpsertBeacon(i, where[i])
    /\ beacon' = [id |-> i, addr |-> where[i]]
    /\ UNCHANGED <<loopVars, linkSt, heard, peerVars, closing, expiries>>

BeaconLink ==
    /\ beacon.id # None
    /\ EnsureLink(beacon.id, beacon.addr, loop)
    /\ heard' = IF Known(beacon.id) THEN heard \cup {beacon.id} ELSE heard
    /\ beacon' = [id |-> None, addr |-> None]
    /\ UNCHANGED <<reg, linkSt, peerVars, closing, expiries>>

\* registerIncoming: its critical sections all write this one entry.
Incoming(i) ==
    /\ where[i] # None /\ ~closing
    /\ reg' = LearnedIdent(where[i], i)
    /\ UNCHANGED <<loopVars, linkSt, beacon, heard, peerVars, closing, expiries>>

\* A call (or an upload) to a registered peer: not when it is known to
\* refuse; a seed's identity is learnt from whoever answers.
CallPeer(k) ==
    /\ Known(k) /\ reg[k].id # None => linkSt[reg[k].id] # "no"
    /\ Known(k) /\ (reg[k].static \/ reg[k].id = None)
    /\ \E i \in Id : where[i] = reg[k].addr /\ reg' = LearnedIdent(reg[k].addr, i)
    /\ UNCHANGED <<loopVars, linkSt, beacon, heard, peerVars, closing, expiries>>

\* peerAuthedFresh: an answer more than two retries old counts for nothing.
Outdated(i) ==
    /\ linkSt[i] # "unknown"
    /\ linkSt' = [linkSt EXCEPT ![i] = "unknown"]
    /\ UNCHANGED <<reg, loopVars, beacon, heard, peerVars, closing, expiries>>

\* One round of Expire: some peers have been silent for three intervals.
Expire ==
    /\ expiries < MaxExpiry /\ ~closing
    /\ \E silent \in (SUBSET {i \in Id : Known(i) /\ ~reg[i].static}) \ {{}} :
        /\ reg' = [k \in Key |-> IF k \in silent THEN NoEntry ELSE reg[k]]
        /\ heard' = heard \ silent
    /\ expiries' = expiries + 1
    /\ UNCHANGED <<loopVars, linkSt, beacon, peerVars, closing>>

\* Close: the context first, then stopLink for every loop in the map.
CloseLinks ==
    /\ ~closing
    /\ closing' = TRUE
    /\ links' = [k \in Key |-> None]
    /\ UNCHANGED <<reg, loop, linkSt, beacon, heard, peerVars, expiries>>

\* A peer starts, stops, moves, or its user changes his mind: connections
\* to it break, except that an approval leaves them alone.
Broken(i) == [l \in Loop |-> IF loop[l].peer = i THEN [loop[l] EXCEPT !.live = FALSE]
                          ELSE loop[l]]
PeerMoves(i) ==
    /\ moves < MaxMoves
    /\ moves' = moves + 1
    /\ \/ /\ \E a \in (Home[i] \cup {None}) \ {where[i]} : where' = [where EXCEPT ![i] = a]
          /\ loop' = Broken(i)
          /\ UNCHANGED approves
       \/ /\ approves' = [approves EXCEPT ![i] = ~@]
          /\ loop' = IF approves[i] THEN Broken(i) ELSE loop
          /\ UNCHANGED where
    /\ UNCHANGED <<reg, links, linkSt, beacon, heard, closing, expiries>>

LinksNext ==
    \/ \E l \in Loop : LoopStep(l)
    \/ \E i \in Id : BeaconIn(i) \/ Incoming(i) \/ Outdated(i) \/ PeerMoves(i)
    \/ BeaconLink \/ Expire \/ CloseLinks
    \/ \E k \in Key : CallPeer(k)

LinksSpec == LinksInit /\ [][LinksNext]_linksVars

-----------------------------------------------------------------------------
(* A registered peer whose beacon asked for a link has one: a loop that    *)
(* goes on, or one that has left the map and is about to look again        *)
(* (link.go:66-78, the dead entry of #57).                                 *)
NotForgotten ==
    closing \/ \A i \in heard :
        \/ links[i] # None /\ loop[links[i]].at # "done"
        \/ \E l \in Loop : loop[l].key = i /\ loop[l].at = "recheck"

(* A peer that is up and approves this node is linked, sooner or later,    *)
(* unless it goes away or changes its mind: no expiry, move or restart     *)
(* loses it for good (link.go:11-13).                                      *)
Linked(i) == \E l \in Loop : loop[l].at = "alive" /\ loop[l].peer = i /\ loop[l].live
Willing(i) == where[i] # None /\ approves[i] /\ ~closing
LinkedAgain == \A i \in Id : Willing(i) ~> (Linked(i) \/ ~Willing(i))
=============================================================================
