----------------------------- MODULE MeshAccess -----------------------------
(***************************************************************************)
(* Who may use this node over the mesh (internal/mesh pairing.go, and the  *)
(* serving side of node.go): every connection has a goroutine that shakes  *)
(* hands, knocks, joins the peer's connections and then serves frames, the *)
(* operations among them only for an approved peer; users approve and      *)
(* revoke meanwhile, the table is saved at each decision, and the node is  *)
(* closed, or dies, at any moment and is started again from the file.      *)
(* Of its links to others and of its sweeper only the goroutines are here, *)
(* for Close waits for them; what they do is in MeshLinks and MeshShare.   *)
(*                                                                         *)
(* A peer is its id: names and the matching of a selector are left out,    *)
(* and what a pair frame calls itself is the peer that sends it.           *)
(***************************************************************************)
EXTENDS Naturals

CONSTANTS Peer,         \* ids of the peers that hold the key
          Conn,         \* connections, each used once
          Admin,        \* goroutines that approve and revoke for users
          Loop,         \* loops that go on until the node closes: one per
                        \* link to a peer, and the sweeper
          NoPeer,       \* the peer of a connection that has not said who it is
          AutoApprove,  \* Options.AutoApprove
          SaveMayFail,  \* writing the file may fail
          MaxStart      \* bound: starts of the node after the first

ASSUME AccessAssumption ==
    /\ NoPeer \notin Peer
    /\ AutoApprove \in BOOLEAN /\ SaveMayFail \in BOOLEAN
    /\ MaxStart \in Nat

VARIABLES f, disk,   \* the table in memory (PairStore.f) and in the file
          told,      \* per peer: the last decision a user was told of
          admin,     \* per Admin: its step, its peer, the connections to cut
          node,      \* how far Close has come
          conn,      \* per connection: its goroutine's step, peer, socket, tail
          listed,    \* Node.conns
          tracked,   \* Node.pairConns (a connection's key is its peer)
          starts,    \* starts of the node so far
          loop       \* per Loop: not there, where it looks at the context of
                     \* the node, or between its dialling and the answer to
                     \* its knock

storeVars == <<f, disk, told>>
connVars  == <<conn, listed, tracked>>
vars == <<storeVars, admin, node, connVars, starts, loop>>

Table == [approved : SUBSET Peer, pending : SUBSET Peer, revoked : SUBSET Peer]

Serving == {"serve", "dial"}
ConnSteps == {"none", "accepted", "shaking", "knock", "track", "recv",
              "leaving", "gone"} \cup Serving

TypeOK ==
    /\ f \in Table /\ disk \in Table
    /\ told \in [Peer -> {"none", "approved", "revoked", "unsure"}]
    /\ admin \in [Admin -> [at   : {"idle", "approving", "revoking",
                                    "dropping", "closing"},
                            peer : Peer \cup {NoPeer}, snap : SUBSET Conn]]
    /\ node \in {"up", "closing", "swept", "down"}
    /\ conn \in [Conn -> [at : ConnSteps, peer : Peer \cup {NoPeer},
                          open : BOOLEAN, tail : BOOLEAN]]
    /\ listed \subseteq Conn /\ tracked \subseteq Conn
    /\ starts \in 0 .. MaxStart
    /\ loop \in [Loop -> {"off", "run", "knock"}]

NoTable   == [approved |-> {}, pending |-> {}, revoked |-> {}]
IdleAdmin == [at |-> "idle", peer |-> NoPeer, snap |-> {}]
NewConn   == [at |-> "none", peer |-> NoPeer, open |-> FALSE, tail |-> FALSE]

Init ==
    /\ f = NoTable /\ disk = NoTable
    /\ told = [p \in Peer |-> "none"]
    /\ admin = [a \in Admin |-> IdleAdmin]
    /\ node = "up"
    /\ conn = [c \in Conn |-> NewConn]
    /\ listed = {} /\ tracked = {}
    /\ starts = 0
    /\ loop = [l \in Loop |-> "off"]

(***************************************************************************)
(* The table.  Saving drops knocks that are older than a day, `old`, from  *)
(* memory and file; a write that fails leaves the file as it was.          *)
(***************************************************************************)
SaveOutcomes == IF SaveMayFail THEN BOOLEAN ELSE {TRUE}

Save(g, fresh, ok) ==
    \E old \in SUBSET (g.pending \ fresh) :
        LET kept == [g EXCEPT !.pending = @ \ old] IN
        /\ f' = kept
        /\ disk' = IF ok THEN kept ELSE disk

KnockAs(p) ==
    /\ IF p \in f.approved \cup f.revoked
       THEN UNCHANGED <<f, disk>>
       ELSE \E ok \in SaveOutcomes :
                Save(IF AutoApprove THEN [f EXCEPT !.approved = @ \cup {p}]
                                    ELSE [f EXCEPT !.pending  = @ \cup {p}],
                     {p}, ok)
    /\ UNCHANGED told

Decide(p, g, decision) ==
    \E ok \in SaveOutcomes :
        /\ Save(g, {}, ok)
        /\ told' = [told EXCEPT ![p] = IF ok THEN decision ELSE "unsure"]

Approving_Bug(p) == [f EXCEPT !.approved = @ \cup {p}, !.pending = @ \ {p}]
Approving(p) == [approved |-> f.approved \cup {p}, pending |-> f.pending \ {p},
                 revoked  |-> f.revoked \ {p}]
Revoking(p) == [approved |-> f.approved \ {p}, pending |-> f.pending \ {p},
                revoked  |-> f.revoked \cup {p}]

(***************************************************************************)
(* ApprovePeer and RevokePeer.  The selector is resolved under the lock,   *)
(* which is then dropped: what the id is when the decision is written may  *)
(* be something else.  Only Revoke looks again.                            *)
(***************************************************************************)
Resolve(a) ==
    /\ node # "down"
    /\ admin[a].at = "idle"
    /\ \E p \in f.approved \cup f.pending \cup f.revoked,
          step \in {"approving", "revoking"} :
          admin' = [admin EXCEPT ![a].at = step, ![a].peer = p]
    /\ UNCHANGED <<storeVars, node, connVars, starts, loop>>

ApproveDecide(a) ==
    /\ admin[a].at = "approving"
    /\ Decide(admin[a].peer, Approving(admin[a].peer), "approved")
    /\ admin' = [admin EXCEPT ![a] = IdleAdmin]
    /\ UNCHANGED <<node, connVars, starts, loop>>

RevokeUnknown(a) ==
    /\ admin[a].at = "revoking"
    /\ admin[a].peer \notin f.pending \cup f.approved
    /\ admin' = [admin EXCEPT ![a] = IdleAdmin]
    /\ UNCHANGED <<storeVars, node, connVars, starts, loop>>

RevokeDecide(a) ==
    LET p == admin[a].peer IN
    /\ admin[a].at = "revoking"
    /\ p \in f.pending \cup f.approved
    /\ Decide(p, Revoking(p), "revoked")
    /\ admin' = IF told'[p] = "revoked" THEN [admin EXCEPT ![a].at = "dropping"]
                                        ELSE [admin EXCEPT ![a] = IdleAdmin]
    /\ UNCHANGED <<node, connVars, starts, loop>>

DropSnap(a) ==
    /\ admin[a].at = "dropping"
    /\ admin' = [admin EXCEPT ![a].at = "closing",
                    ![a].snap = {c \in tracked : conn[c].peer = admin[a].peer}]
    /\ UNCHANGED <<storeVars, node, connVars, starts, loop>>

DropClose(a) ==
    /\ admin[a].at = "closing"
    /\ conn' = [c \in Conn |-> IF c \in admin[a].snap
                               THEN [conn[c] EXCEPT !.open = FALSE] ELSE conn[c]]
    /\ admin' = [admin EXCEPT ![a] = IdleAdmin]
    /\ UNCHANGED <<storeVars, node, listed, tracked, starts, loop>>

(***************************************************************************)
(* One connection: acceptLoop, then serveConn in a goroutine of its own.   *)
(***************************************************************************)
Goto(c, step) == conn' = [conn EXCEPT ![c].at = step]

\* The listener is open; the loop takes one connection at a time.
Accept(c) ==
    /\ node = "up" /\ conn[c].at = "none"
    /\ \A d \in Conn : conn[d].at # "accepted"
    /\ conn' = [conn EXCEPT ![c].at = "accepted", ![c].open = TRUE]
    /\ UNCHANGED <<storeVars, admin, node, listed, tracked, starts, loop>>

Register_Bug(c) ==
    /\ conn[c].at = "accepted"
    /\ Goto(c, "shaking")
    /\ listed' = listed \cup {c}
    /\ UNCHANGED <<storeVars, admin, node, tracked, starts, loop>>
Register(c) ==
    /\ conn[c].at = "accepted"
    /\ IF node = "swept"
       THEN /\ conn' = [conn EXCEPT ![c].at = "gone", ![c].open = FALSE]
            /\ UNCHANGED listed
       ELSE Goto(c, "shaking") /\ listed' = listed \cup {c}
    /\ UNCHANGED <<storeVars, admin, node, tracked, starts, loop>>

\* AcceptChannel ends within its ten seconds, with an identity or an error.
Handshake(c) ==
    /\ conn[c].at = "shaking"
    /\ \/ /\ conn[c].open
          /\ \E p \in Peer : conn' = [conn EXCEPT ![c].at = "knock", ![c].peer = p]
       \/ Goto(c, "leaving")
    /\ UNCHANGED <<storeVars, admin, node, listed, tracked, starts, loop>>

Knock(c) ==
    /\ conn[c].at = "knock"
    /\ KnockAs(conn[c].peer)
    /\ Goto(c, "track")
    /\ UNCHANGED <<admin, node, listed, tracked, starts, loop>>

Track_Bug(c) ==
    /\ conn[c].at = "track"
    /\ Goto(c, "recv")
    /\ UNCHANGED <<storeVars, admin, node, listed, tracked, starts, loop>>
Track(c) ==
    /\ conn[c].at = "track"
    /\ tracked' = tracked \cup {c}
    /\ Goto(c, "recv")
    /\ UNCHANGED <<storeVars, admin, node, listed, starts, loop>>

PairFrame(c) ==
    /\ conn[c].at = "recv" /\ conn[c].open
    /\ KnockAs(conn[c].peer)
    /\ UNCHANGED <<admin, node, connVars, starts, loop>>

\* The cases of an operation frame, after the gate: a request, an upload or
\* a download; a dial; a tail, whose goroutine is the connection's only one.
Gate(c) ==
    /\ conn[c].at = "recv" /\ conn[c].open
    /\ conn[c].peer \in f.approved
    /\ \/ \E step \in Serving : Goto(c, step)
       \/ ~conn[c].tail /\ conn' = [conn EXCEPT ![c].tail = TRUE]
    /\ UNCHANGED <<storeVars, admin, node, listed, tracked, starts, loop>>

\* The loop ends: a read that fails, a frame refused at the gate.
Return(c) ==
    /\ conn[c].at = "recv"
    /\ tracked' = tracked \ {c}
    /\ Goto(c, "leaving")
    /\ UNCHANGED <<storeVars, admin, node, listed, starts, loop>>

\* handleReq, handleUpload and handleDownload go back to the loop unless
\* their last send failed; a dial keeps the connection to its end.
ServeEnd(c) ==
    /\ conn[c].at \in Serving
    /\ \/ /\ conn[c].at = "serve"
          /\ Goto(c, "recv")
          /\ UNCHANGED tracked
       \/ Goto(c, "leaving") /\ tracked' = tracked \ {c}
    /\ UNCHANGED <<storeVars, admin, node, listed, starts, loop>>

TailEnd(c) ==
    /\ conn[c].tail
    /\ conn' = [conn EXCEPT ![c].tail = FALSE]
    /\ UNCHANGED <<storeVars, admin, node, listed, tracked, starts, loop>>

Leave(c) ==
    /\ conn[c].at = "leaving"
    /\ conn' = [conn EXCEPT ![c].at = "gone", ![c].open = FALSE]
    /\ listed' = listed \ {c}
    /\ UNCHANGED <<storeVars, admin, node, tracked, starts, loop>>

(***************************************************************************)
(* The other goroutines of the node: the sweeper, and the link loops that  *)
(* a static peer or a beacon starts.  They end when they see that Close    *)
(* has cancelled the context, but a link looks between two knocks only:    *)
(* dialling and shaking hands have their deadlines, the read of the answer *)
(* has none, and Close has no hold on that connection.  The sweeper is a   *)
(* loop that never knocks.  A beacon still at hand when Close shuts the    *)
(* UDP socket, after its sweep of the connections, is left out: the loop   *)
(* it starts ends at its first look.                                       *)
(***************************************************************************)
LoopStarts(l) ==
    /\ node \in {"up", "closing"} /\ loop[l] = "off"
    /\ loop' = [loop EXCEPT ![l] = "run"]
    /\ UNCHANGED <<storeVars, admin, node, connVars, starts>>

LoopKnocks(l) ==
    /\ node = "up" /\ loop[l] = "run"
    /\ loop' = [loop EXCEPT ![l] = "knock"]
    /\ UNCHANGED <<storeVars, admin, node, connVars, starts>>

\* An error on the way, an answer of any kind, or the end of the connection.
LoopKnocked(l) ==
    /\ loop[l] = "knock"
    /\ loop' = [loop EXCEPT ![l] = "run"]
    /\ UNCHANGED <<storeVars, admin, node, connVars, starts>>

\* The context is cancelled, or the address of the peer is gone.
LoopEnds(l) ==
    /\ loop[l] = "run"
    /\ loop' = [loop EXCEPT ![l] = "off"]
    /\ UNCHANGED <<storeVars, admin, node, connVars, starts>>

(***************************************************************************)
(* Close, the end of the process, and the next start.                      *)
(***************************************************************************)
BeginClose ==
    /\ node = "up"
    /\ node' = "closing"
    /\ UNCHANGED <<storeVars, admin, connVars, starts, loop>>

Sweep ==
    /\ node = "closing"
    /\ node' = "swept"
    /\ conn' = [c \in Conn |-> IF c \in listed
                               THEN [conn[c] EXCEPT !.open = FALSE] ELSE conn[c]]
    /\ UNCHANGED <<storeVars, admin, listed, tracked, starts, loop>>

\* What n.wg counts: the accept loop, the connections and their tails, the
\* link loops and the sweeper.
Drained ==
    /\ \A c \in Conn : conn[c].at \in {"none", "gone"} /\ ~conn[c].tail
    /\ \A l \in Loop : loop[l] = "off"

Exit ==
    /\ node' = "down"
    /\ admin' = [a \in Admin |-> IdleAdmin]
    /\ conn' = [c \in Conn |-> IF conn[c].at = "none" THEN conn[c]
                               ELSE [NewConn EXCEPT !.at = "gone"]]
    /\ listed' = {} /\ tracked' = {}
    /\ loop' = [l \in Loop |-> "off"]
    /\ UNCHANGED <<storeVars, starts>>

Closed == node = "swept" /\ Drained /\ Exit
Crash  == node # "down" /\ Exit

Start ==
    /\ node = "down" /\ starts < MaxStart
    /\ starts' = starts + 1
    /\ node' = "up"
    /\ \E old \in SUBSET disk.pending : f' = [disk EXCEPT !.pending = @ \ old]
    /\ UNCHANGED <<disk, told, admin, connVars, loop>>

AdminStep(a) ==
    \/ Resolve(a) \/ ApproveDecide(a) \/ RevokeUnknown(a) \/ RevokeDecide(a)
    \/ DropSnap(a) \/ DropClose(a)
ConnStep(c) ==
    \/ Accept(c) \/ Register(c) \/ Handshake(c) \/ Knock(c) \/ Track(c)
    \/ PairFrame(c) \/ Gate(c) \/ Return(c) \/ ServeEnd(c) \/ TailEnd(c)
    \/ Leave(c)
LoopStep(l) == LoopStarts(l) \/ LoopKnocks(l) \/ LoopKnocked(l) \/ LoopEnds(l)
Next ==
    \/ \E a \in Admin : AdminStep(a)
    \/ \E c \in Conn : ConnStep(c)
    \/ \E l \in Loop : LoopStep(l)
    \/ BeginClose \/ Sweep \/ Closed \/ Crash \/ Start

\* A goroutine goes on by itself, except that it waits for its peer as long
\* as the socket is open: in the receive loop, in an operation whose answers
\* the peer must read, and in a tail.  A loop ends once it sees that
\* the node closes; nothing is assumed of the answer to a knock.
Hurry(c) ==
    \/ Register(c) \/ Handshake(c) \/ Knock(c) \/ Track(c) \/ Leave(c)
    \/ ~conn[c].open /\ (Return(c) \/ ServeEnd(c))
Fairness ==
    /\ WF_vars(Sweep) /\ WF_vars(Closed)
    /\ \A l \in Loop : WF_vars(node # "up" /\ LoopEnds(l))
    /\ \A c \in Conn : /\ WF_vars(Hurry(c))
                        /\ WF_vars(~conn[c].open /\ TailEnd(c))

Spec == Init /\ [][Next]_vars /\ Fairness

-----------------------------------------------------------------------------
(* Once a user has been told that a peer is revoked, the peer is cut off:  *)
(* no connection of it that is still open runs one of its operations or    *)
(* tails a log for it, whatever its handshake, its frames and the decision *)
(* were doing at the time (link.go:226, pairing.go:299).                   *)
Dropping(p) == \E a \in Admin : /\ admin[a].at \in {"dropping", "closing"}
                                /\ admin[a].peer = p
RevokedIsCut ==
    \A c \in Conn : LET p == conn[c].peer IN
        conn[c].open /\ p \in Peer =>
            \/ told[p] # "revoked"
            \/ Dropping(p)
            \/ conn[c].at \notin Serving /\ (conn[c].tail => conn[c].at = "leaving")

(* A decision a user was told of is kept: in memory and in the file, over  *)
(* knocks, other users' decisions, failed saves, and any restart           *)
(* (pairing.go:17).                                                        *)
Keeps(t, p) ==
    /\ told[p] = "approved" => p \in t.approved \ (t.revoked \cup t.pending)
    /\ told[p] = "revoked"  => p \in t.revoked \ (t.approved \cup t.pending)
DecisionSurvives == \A p \in Peer : Keeps(disk, p) /\ (node # "down" => Keeps(f, p))

(* Close comes to an end, whatever connections arrive and idle meanwhile,  *)
(* and whatever links start (node.go:63, 251), unless a link has knocked   *)
(* at a peer that neither answers nor hangs up: the code waits for it too, *)
(* for ever (link.go:140).                                                 *)
KnocksAreAnswered == \A l \in Loop : []<>(loop[l] # "knock")
CloseEnds == KnocksAreAnswered => (node = "closing" ~> node = "down")
=============================================================================
