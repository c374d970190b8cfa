-------------------------- MODULE MeshAccessProofs --------------------------
(***************************************************************************)
(* Proofs about who may use a node over the mesh, for any peers, any       *)
(* number of connections, of users who decide, and of restarts.            *)
(***************************************************************************)
EXTENDS MeshAccess, TLAPS

USE AccessAssumption
-----------------------------------------------------------------------------
(* Types.                                                                  *)

ConnRecord  == [at : ConnSteps, peer : Peer \cup {NoPeer}, open : BOOLEAN, tail : BOOLEAN]
AdminRecord == [at : {"idle", "approving", "revoking", "dropping", "closing"},
                peer : Peer \cup {NoPeer}, snap : SUBSET Conn]

\* Who decides, decides about a peer; who has shaken hands, is one.
Named ==
    /\ \A a \in Admin : admin[a].at # "idle" => admin[a].peer \in Peer
    /\ \A c \in Conn : conn[c].at \in {"knock", "track", "recv"} \cup Serving
                          => conn[c].peer \in Peer

\* Saving a table leaves its approvals and revocations, and tables on disk.
LEMMA SaveKeeps ==
  ASSUME NEW g \in Table, NEW fresh, NEW ok \in BOOLEAN, disk \in Table, Save(g, fresh, ok)
  PROVE  /\ f' \in Table /\ disk' \in Table
         /\ f'.approved = g.approved /\ f'.revoked = g.revoked
         /\ f'.pending \subseteq g.pending
         /\ disk' = disk \/ (ok /\ disk' = f')
         /\ ok => disk' = f'
<1>1. PICK old \in SUBSET (g.pending \ fresh) :
         /\ f' = [g EXCEPT !.pending = @ \ old]
         /\ disk' = IF ok THEN f' ELSE disk
  BY DEF Save
<1>2. /\ f'.approved = g.approved /\ f'.revoked = g.revoked
      /\ f'.pending = g.pending \ old /\ f' \in Table
  BY <1>1 DEF Table
<1>3. QED
  BY <1>1, <1>2

\* A save of the store succeeds or fails.
LEMMA OutcomesAreBoolean == SaveOutcomes \subseteq BOOLEAN
  BY DEF SaveOutcomes

\* A knock adds the peer to the pending, or lets it in, or finds it decided.
LEMMA KnockTypes ==
  ASSUME f \in Table, disk \in Table, NEW p \in Peer, KnockAs(p)
  PROVE  f' \in Table /\ disk' \in Table /\ told' = told
<1>1. CASE p \in f.approved \cup f.revoked
  BY <1>1 DEF KnockAs
<1>2. CASE p \notin f.approved \cup f.revoked
  <2> DEFINE g == IF AutoApprove THEN [f EXCEPT !.approved = @ \cup {p}]
                                 ELSE [f EXCEPT !.pending  = @ \cup {p}]
  <2>1. g \in Table
    BY DEF Table
  <2>2. PICK ok \in BOOLEAN : Save(g, {p}, ok)
    BY <1>2, OutcomesAreBoolean DEF KnockAs
  <2> HIDE DEF g
  <2>3. QED
    BY <2>1, <2>2, SaveKeeps DEF KnockAs
<1>3. QED
  BY <1>1, <1>2

\* A decision is written to the table, and told unless the file was not.
LEMMA DecideTypes ==
  ASSUME f \in Table, disk \in Table, NEW p \in Peer, NEW g \in Table,
         NEW decision, Decide(p, g, decision)
  PROVE  /\ f' \in Table /\ disk' \in Table
         /\ f'.approved = g.approved /\ f'.revoked = g.revoked
         /\ f'.pending \subseteq g.pending
         /\ \/ told' = [told EXCEPT ![p] = decision] /\ disk' = f'
            \/ told' = [told EXCEPT ![p] = "unsure"] /\ disk' = disk
<1>1. PICK ok \in BOOLEAN :
         /\ Save(g, {}, ok)
         /\ told' = [told EXCEPT ![p] = IF ok THEN decision ELSE "unsure"]
  BY OutcomesAreBoolean DEF Decide
<1>2. ~ok => disk' = disk
  BY <1>1 DEF Save
<1>3. QED
  BY <1>1, <1>2, SaveKeeps

\* Approve and Revoke make tables of the peers.
LEMMA TablesOfDecisions ==
  ASSUME f \in Table, NEW p \in Peer
  PROVE  Approving(p) \in Table /\ Revoking(p) \in Table
  BY DEF Table, Approving, Revoking

-----------------------------------------------------------------------------
\* The types hold of a node with no store.
LEMMA InitTypes == Init => TypeOK /\ Named
  BY DEF Init, TypeOK, Named, Table, NoTable, IdleAdmin, NewConn, ConnSteps, Serving

\* Connections that are closed by this side are left alone but for that.
Hung(S) == [c \in Conn |-> IF c \in S THEN [conn[c] EXCEPT !.open = FALSE] ELSE conn[c]]
\* Such a sweep keeps the connections and where they stand.
LEMMA HungTypes ==
  ASSUME TypeOK, NEW S \in SUBSET Conn, conn' = Hung(S)
  PROVE  /\ conn' \in [Conn -> ConnRecord]
         /\ \A c \in Conn :
              /\ conn'[c].at = conn[c].at
              /\ conn'[c].peer = conn[c].peer
              /\ conn'[c].tail = conn[c].tail
              /\ conn'[c].open => conn[c].open /\ c \notin S
<1>1. ASSUME NEW c \in Conn
      PROVE  conn[c] \in ConnRecord /\ [conn[c] EXCEPT !.open = FALSE] \in ConnRecord
  BY ZenonT(60) DEF TypeOK, ConnRecord
<1>2. QED
  BY <1>1 DEF Hung, ConnRecord

\* The steps of those who decide.
LEMMA AdminTypes ==
  ASSUME TypeOK, Named, NEW a \in Admin, AdminStep(a)
  PROVE  TypeOK' /\ Named'
<1> USE DEF TypeOK, Named
<1>1. CASE Resolve(a)
  <2>1. PICK p \in Peer, step \in {"approving", "revoking"} :
           admin' = [admin EXCEPT ![a].at = step, ![a].peer = p]
    BY <1>1 DEF Resolve, Table
  <2>2. UNCHANGED <<storeVars, node, connVars, starts, loop>>
    BY <1>1 DEF Resolve
  <2> DEFINE r == [admin[a] EXCEPT !.at = step, !.peer = p]
  <2>3. r \in AdminRecord /\ r.at # "idle" /\ r.peer \in Peer
    <3>1. admin[a] \in AdminRecord
      BY DEF AdminRecord
    <3>2. QED
      BY <3>1, ZenonT(60) DEF AdminRecord
  <2>4. admin' = [admin EXCEPT ![a] = r]
    BY <2>1
  <2> HIDE DEF r
  <2>5. /\ admin' \in [Admin -> AdminRecord]
        /\ \A b \in Admin : admin'[b].at # "idle" => admin'[b].peer \in Peer
    BY <2>3, <2>4 DEF AdminRecord
  <2>6. QED
    BY <2>2, <2>5 DEF storeVars, connVars, AdminRecord
<1>2. ASSUME NEW g, NEW decision \in {"approved", "revoked"},
             admin[a].at # "idle",
             g = Approving(admin[a].peer) \/ g = Revoking(admin[a].peer),
             Decide(admin[a].peer, g, decision)
      PROVE  /\ f' \in Table /\ disk' \in Table
             /\ told' \in [Peer -> {"none", "approved", "revoked", "unsure"}]
  <2>1. admin[a].peer \in Peer /\ g \in Table
    BY <1>2, TablesOfDecisions
  <2>2. QED
    BY <1>2, <2>1, DecideTypes
<1>3. CASE ApproveDecide(a)
  <2>1. f' \in Table /\ disk' \in Table
        /\ told' \in [Peer -> {"none", "approved", "revoked", "unsure"}]
    BY <1>2, <1>3 DEF ApproveDecide
  <2>2. QED
    BY <1>3, <2>1 DEF ApproveDecide, IdleAdmin, connVars
<1>4. CASE RevokeDecide(a)
  <2>1. f' \in Table /\ disk' \in Table
        /\ told' \in [Peer -> {"none", "approved", "revoked", "unsure"}]
    BY <1>2, <1>4 DEF RevokeDecide
  <2>2. \/ admin' = [admin EXCEPT ![a].at = "dropping"]
        \/ admin' = [admin EXCEPT ![a] = IdleAdmin]
    BY <1>4 DEF RevokeDecide
  <2>3. UNCHANGED <<node, connVars, starts, loop>>
    BY <1>4 DEF RevokeDecide
  <2>4. admin[a].at = "revoking"
    BY <1>4 DEF RevokeDecide
  <2>5. /\ admin' \in [Admin -> AdminRecord]
        /\ \A b \in Admin : admin'[b].at # "idle" => admin'[b].peer \in Peer
    <3>1. admin[a] \in AdminRecord /\ admin \in [Admin -> AdminRecord]
      BY DEF AdminRecord
    <3>2. [admin[a] EXCEPT !.at = "dropping"] \in AdminRecord /\ IdleAdmin \in AdminRecord
      BY <3>1 DEF AdminRecord, IdleAdmin
    <3>3. QED
      BY <2>2, <2>4, <3>1, <3>2, SMTT(30) DEF AdminRecord, IdleAdmin
  <2>6. QED
    BY <2>1, <2>3, <2>5 DEF connVars, AdminRecord
<1>5. CASE RevokeUnknown(a)
  BY <1>5 DEF RevokeUnknown, IdleAdmin, storeVars, connVars
<1>6. CASE DropSnap(a)
  <2> DEFINE S == {c \in tracked : conn[c].peer = admin[a].peer}
  <2>1. /\ admin' = [admin EXCEPT ![a].at = "closing", ![a].snap = S]
        /\ admin[a].at = "dropping" /\ S \in SUBSET Conn
        /\ UNCHANGED <<storeVars, node, connVars, starts, loop>>
    BY <1>6 DEF DropSnap
  <2> HIDE DEF S
  <2>2. admin[a] \in AdminRecord /\ admin \in [Admin -> AdminRecord]
    BY DEF AdminRecord
  <2>3. [admin[a] EXCEPT !.at = "closing", !.snap = S] \in AdminRecord
    BY <2>1, <2>2 DEF AdminRecord
  <2>4. /\ admin' \in [Admin -> AdminRecord]
        /\ \A b \in Admin : admin'[b].at # "idle" => admin'[b].peer \in Peer
    BY <2>1, <2>2, <2>3
  <2>5. QED
    BY <2>1, <2>4 DEF storeVars, connVars, AdminRecord
<1>7. CASE DropClose(a)
  <2>1. conn' = Hung(admin[a].snap)
    BY <1>7 DEF DropClose, Hung
  <2>2. admin[a].snap \in SUBSET Conn
    OBVIOUS
  <2> HIDE DEF TypeOK, Named
  <2>3. /\ conn' \in [Conn -> ConnRecord]
        /\ \A c \in Conn : conn'[c].at = conn[c].at /\ conn'[c].peer = conn[c].peer
    BY <2>1, <2>2, HungTypes
  <2>4. QED
    BY <1>7, <2>3 DEF TypeOK, Named, DropClose, storeVars, IdleAdmin, ConnRecord
<1>8. QED
  BY <1>1, <1>3, <1>4, <1>5, <1>6, <1>7 DEF AdminStep

\* The steps of a connection.
LEMMA ConnTypes ==
  ASSUME TypeOK, Named, NEW c \in Conn, ConnStep(c)
  PROVE  TypeOK' /\ Named'
<1> USE DEF TypeOK, Named
<1>1. CASE Accept(c)
  BY <1>1, ZenonT(60) DEF Accept, storeVars, ConnSteps, Serving
<1>2. CASE Register(c)
  BY <1>2 DEF Register, Goto, storeVars, ConnSteps, Serving
<1>3. CASE Handshake(c)
  BY <1>3, SMTT(30) DEF Handshake, Goto, storeVars, ConnSteps, Serving
<1>4. CASE Knock(c)
  <2>1. f' \in Table /\ disk' \in Table /\ told' = told
    BY <1>4, KnockTypes DEF Knock
  <2>2. QED
    BY <1>4, <2>1 DEF Knock, Goto, ConnSteps, Serving
<1>5. CASE Track(c)
  BY <1>5 DEF Track, Goto, storeVars, ConnSteps, Serving
<1>6. CASE PairFrame(c)
  <2>1. f' \in Table /\ disk' \in Table /\ told' = told
    BY <1>6, KnockTypes DEF PairFrame
  <2>2. QED
    BY <1>6, <2>1 DEF PairFrame, connVars
<1>7. CASE Gate(c)
  <2>1. UNCHANGED <<storeVars, admin, node, listed, tracked, starts, loop>>
    BY <1>7 DEF Gate
  <2>2. conn[c].at = "recv"
    BY <1>7 DEF Gate
  <2>3. CASE \E step \in Serving : Goto(c, step)
    BY <2>1, <2>2, <2>3 DEF Goto, storeVars, ConnSteps, Serving
  <2>4. CASE conn' = [conn EXCEPT ![c].tail = TRUE]
    <3>1. [conn[c] EXCEPT !.tail = TRUE] \in ConnRecord
      BY ZenonT(60) DEF ConnRecord
    <3>2. QED
      BY <2>1, <2>2, <2>4, <3>1 DEF storeVars, ConnRecord, Serving
  <2>5. (\E step \in Serving : Goto(c, step)) \/ conn' = [conn EXCEPT ![c].tail = TRUE]
    BY <1>7 DEF Gate
  <2>6. QED
    BY <2>3, <2>4, <2>5
<1>8. CASE Return(c)
  BY <1>8 DEF Return, Goto, storeVars, ConnSteps, Serving
<1>9. CASE ServeEnd(c)
  BY <1>9, SMTT(30) DEF ServeEnd, Goto, storeVars, ConnSteps, Serving
<1>10. CASE TailEnd(c)
  BY <1>10, ZenonT(60) DEF TailEnd, storeVars
<1>11. CASE Leave(c)
  BY <1>11, ZenonT(60) DEF Leave, storeVars, ConnSteps, Serving
<1>12. QED
  BY <1>1, <1>2, <1>3, <1>4, <1>5, <1>6, <1>7, <1>8, <1>9, <1>10, <1>11 DEF ConnStep

\* Close, the end of the process and the next start.
NodeStep == BeginClose \/ Sweep \/ Closed \/ Crash \/ Start
\* Those steps keep the types.
LEMMA NodeTypes ==
  ASSUME TypeOK, Named, NodeStep
  PROVE  TypeOK' /\ Named'
<1> USE DEF TypeOK, Named
<1>1. CASE BeginClose
  BY <1>1 DEF BeginClose, storeVars, connVars
<1>2. CASE Sweep
  <2>1. conn' = Hung(listed) /\ listed \in SUBSET Conn
    BY <1>2 DEF Sweep, Hung
  <2> HIDE DEF TypeOK, Named
  <2>2. /\ conn' \in [Conn -> ConnRecord]
        /\ \A c \in Conn : conn'[c].at = conn[c].at /\ conn'[c].peer = conn[c].peer
    BY <2>1, HungTypes
  <2>3. QED
    BY <1>2, <2>2 DEF TypeOK, Named, Sweep, storeVars, ConnRecord
<1>3. CASE Closed \/ Crash
  <2>1. Exit
    BY <1>3 DEF Closed, Crash
  <2>2. QED
    BY <2>1 DEF Exit, storeVars, IdleAdmin, NewConn, ConnSteps, Serving
<1>4. CASE Start
  <2>1. PICK old \in SUBSET disk.pending : f' = [disk EXCEPT !.pending = @ \ old]
    BY <1>4 DEF Start
  <2>2. f' \in Table
    BY <2>1 DEF Table
  <2>3. QED
    BY <1>4, <2>2 DEF Start, connVars
<1>5. QED
  BY <1>1, <1>2, <1>3, <1>4 DEF NodeStep

\* The loops of the node change nothing but themselves.
LEMMA LoopTypes ==
  ASSUME TypeOK, Named, NEW l \in Loop, LoopStep(l)
  PROVE  TypeOK' /\ Named' /\ UNCHANGED <<f, disk, told, admin, node, conn, tracked>>
<1>1. UNCHANGED <<storeVars, admin, node, connVars, starts>>
  BY DEF LoopStep, LoopStarts, LoopKnocks, LoopKnocked, LoopEnds
<1>2. loop' \in [Loop -> {"off", "run", "knock"}]
  BY DEF TypeOK, LoopStep, LoopStarts, LoopKnocks, LoopKnocked, LoopEnds
<1>3. QED
  BY <1>1, <1>2 DEF TypeOK, Named, storeVars, connVars

\* So does a step that changes nothing.
LEMMA StutterTypes == TypeOK /\ Named /\ UNCHANGED vars => TypeOK' /\ Named'
  BY DEF TypeOK, Named, vars, storeVars, connVars

\* Every step is a user's, a connection's, a loop's or the node's.
LEMMA NextSteps ==
  ASSUME [Next]_vars
  PROVE  \/ \E a \in Admin : AdminStep(a)
         \/ \E c \in Conn : ConnStep(c)
         \/ \E l \in Loop : LoopStep(l)
         \/ NodeStep
         \/ UNCHANGED vars
  BY DEF Next, NodeStep

\* The table, its file, the decisions, the connections and the node have the
\* values they should have (pairing.go, node.go).
THEOREM TypeCorrect == Spec => []TypeOK
<1>1. TypeOK /\ Named /\ [Next]_vars => TypeOK' /\ Named'
  BY NextSteps, AdminTypes, ConnTypes, LoopTypes, NodeTypes, StutterTypes
<1>2. QED
  BY <1>1, InitTypes, PTL DEF Spec

-----------------------------------------------------------------------------
(* Decisions survive.                                                      *)

\* A process that has ended decides nothing and serves nobody.
DownIsQuiet == node = "down" =>
    /\ \A a \in Admin : admin[a].at = "idle"
    /\ \A c \in Conn : conn[c].at \in {"none", "gone"}

DecisionInv == TypeOK /\ Named /\ DownIsQuiet /\ DecisionSurvives

\* Every step keeps the types.
LEMMA StepsTypes ==
  ASSUME DecisionInv, [Next]_vars
  PROVE  TypeOK' /\ Named'
  BY NextSteps, AdminTypes, ConnTypes, LoopTypes, NodeTypes, StutterTypes DEF DecisionInv

\* Whoever decides or serves is in a process that runs.
LEMMA QuietStays ==
  ASSUME DecisionInv, [Next]_vars
  PROVE  DownIsQuiet'
<1> USE DEF DecisionInv, DownIsQuiet, TypeOK
<1>1. ASSUME NEW a \in Admin, AdminStep(a)
      PROVE  node' = node /\ node # "down"
  BY <1>1 DEF AdminStep, Resolve, ApproveDecide, RevokeUnknown, RevokeDecide, DropSnap, DropClose
<1>2. ASSUME NEW c \in Conn, ConnStep(c)
      PROVE  DownIsQuiet'
  <2>1. CASE conn[c].tail /\ TailEnd(c)
    BY <2>1 DEF TailEnd
  <2>2. CASE node' = node /\ node # "down"
    BY <2>2
  <2>3. (node' = node /\ node # "down") \/ TailEnd(c)
    BY <1>2 DEF ConnStep, Accept, Register, Handshake, Knock, Track, PairFrame, Gate, Return,
       ServeEnd, Leave, Serving
  <2>4. QED
    BY <2>1, <2>2, <2>3 DEF TailEnd
<1>3. CASE BeginClose \/ Sweep \/ Start
  BY <1>3 DEF BeginClose, Sweep, Start
<1>4. CASE Closed \/ Crash
  <2>1. Exit
    BY <1>4 DEF Closed, Crash
  <2>2. \A c \in Conn : conn'[c].at \in {"none", "gone"}
    BY <2>1 DEF Exit, NewConn
  <2>3. QED
    BY <2>1, <2>2 DEF Exit, IdleAdmin
<1>5. CASE UNCHANGED vars
  BY <1>5 DEF vars, connVars
<1>6. ASSUME NEW l \in Loop, LoopStep(l)
      PROVE  DownIsQuiet'
  <2>1. UNCHANGED <<admin, node, conn>>
    BY <1>6, LoopTypes
  <2>2. QED
    BY <2>1
<1>7. QED
  BY <1>1, <1>2, <1>3, <1>4, <1>5, <1>6, NextSteps DEF NodeStep

\* A knock changes nothing that was decided about any peer.
LEMMA KnockSurvives ==
  ASSUME DecisionInv, node # "down", NEW p \in Peer, KnockAs(p),
         NEW q \in Peer
  PROVE  Keeps(disk, q)' /\ Keeps(f, q)'
<1> USE DEF DecisionInv, DecisionSurvives, Keeps, TypeOK
<1>1. CASE p \in f.approved \cup f.revoked
  BY <1>1 DEF KnockAs
<1>2. CASE p \notin f.approved \cup f.revoked
  <2> DEFINE g == IF AutoApprove THEN [f EXCEPT !.approved = @ \cup {p}]
                                 ELSE [f EXCEPT !.pending  = @ \cup {p}]
  <2>1. g \in Table /\ g.revoked = f.revoked
        /\ g.approved \in {f.approved, f.approved \cup {p}}
        /\ g.pending \in {f.pending, f.pending \cup {p}}
    BY DEF Table
  <2>2. PICK ok \in BOOLEAN : Save(g, {p}, ok)
    BY <1>2, OutcomesAreBoolean DEF KnockAs
  <2>3. told' = told
    BY DEF KnockAs
  <2> HIDE DEF g
  <2>4. /\ f'.approved = g.approved /\ f'.revoked = g.revoked
        /\ f'.pending \subseteq g.pending
        /\ disk' = disk \/ disk' = f'
    BY <2>1, <2>2, SaveKeeps
  <2>5. Keeps(f, q)'
    BY <1>2, <2>1, <2>3, <2>4
  <2>6. QED
    BY <2>3, <2>4, <2>5
<1>3. QED
  BY <1>1, <1>2

\* A decision about one peer is kept with those about the others.
LEMMA DecideSurvives ==
  ASSUME DecisionInv, node # "down", NEW p \in Peer, NEW q \in Peer,
         \/ Decide(p, Approving(p), "approved")
         \/ Decide(p, Revoking(p), "revoked")
  PROVE  Keeps(disk, q)' /\ Keeps(f, q)'
<1> USE DEF DecisionInv, DecisionSurvives, Keeps, TypeOK
<1>1. CASE Decide(p, Approving(p), "approved")
  <2> DEFINE g == Approving(p)
  <2>1. /\ g \in Table /\ g.pending = f.pending \ {p}
        /\ g.approved = f.approved \cup {p} /\ g.revoked = f.revoked \ {p}
    BY TablesOfDecisions DEF Approving
  <2>2. Decide(p, g, "approved")
    BY <1>1
  <2> HIDE DEF g
  <2>3. /\ f'.approved = g.approved /\ f'.revoked = g.revoked
        /\ f'.pending \subseteq g.pending
        /\ \/ told' = [told EXCEPT ![p] = "approved"] /\ disk' = f'
           \/ told' = [told EXCEPT ![p] = "unsure"] /\ disk' = disk
    BY <2>1, <2>2, DecideTypes
  <2>4. Keeps(f, q)'
    BY <2>1, <2>3
  <2>5. QED
    BY <2>3, <2>4
<1>2. CASE Decide(p, Revoking(p), "revoked")
  <2> DEFINE g == Revoking(p)
  <2>1. /\ g \in Table /\ g.pending = f.pending \ {p}
        /\ g.approved = f.approved \ {p} /\ g.revoked = f.revoked \cup {p}
    BY TablesOfDecisions DEF Revoking
  <2>2. Decide(p, g, "revoked")
    BY <1>2
  <2> HIDE DEF g
  <2>3. /\ f'.approved = g.approved /\ f'.revoked = g.revoked
        /\ f'.pending \subseteq g.pending
        /\ \/ told' = [told EXCEPT ![p] = "revoked"] /\ disk' = f'
           \/ told' = [told EXCEPT ![p] = "unsure"] /\ disk' = disk
    BY <2>1, <2>2, DecideTypes
  <2>4. Keeps(f, q)'
    BY <2>1, <2>3
  <2>5. QED
    BY <2>3, <2>4
<1>3. QED
  BY <1>1, <1>2

\* Every step keeps what a user was told in memory and file.
LEMMA StepSurvives ==
  ASSUME DecisionInv, [Next]_vars
  PROVE  DecisionSurvives'
<1> USE DEF DecisionInv
<1>1. CASE UNCHANGED <<f, disk, told>> /\ (node' = "down" \/ node' = node \/ node # "down")
  BY <1>1 DEF DecisionSurvives, Keeps
<1>2. ASSUME NEW p \in Peer, node # "down",
             \/ KnockAs(p)
             \/ Decide(p, Approving(p), "approved")
             \/ Decide(p, Revoking(p), "revoked")
      PROVE  DecisionSurvives'
  BY <1>2, KnockSurvives, DecideSurvives DEF DecisionSurvives
<1>3. ASSUME NEW a \in Admin, AdminStep(a)
      PROVE  DecisionSurvives'
  <2>1. CASE Resolve(a) \/ RevokeUnknown(a) \/ DropSnap(a) \/ DropClose(a)
    BY <1>1, <2>1 DEF Resolve, RevokeUnknown, DropSnap, DropClose, storeVars
  <2>2. CASE ApproveDecide(a) \/ RevokeDecide(a)
    <3>1. admin[a].at # "idle"
      BY <2>2 DEF ApproveDecide, RevokeDecide
    <3>2. admin[a].peer \in Peer /\ node # "down"
      BY <3>1 DEF Named, DownIsQuiet
    <3>3. QED
      BY <1>2, <2>2, <3>2 DEF ApproveDecide, RevokeDecide
  <2>3. QED
    BY <1>3, <2>1, <2>2 DEF AdminStep
<1>4. ASSUME NEW c \in Conn, ConnStep(c)
      PROVE  DecisionSurvives'
  <2>1. CASE Knock(c) \/ PairFrame(c)
    <3>1. conn[c].at \in {"knock", "recv"}
      BY <2>1 DEF Knock, PairFrame
    <3>2. conn[c].peer \in Peer /\ node # "down"
      BY <3>1 DEF Named, DownIsQuiet
    <3>3. QED
      BY <1>2, <2>1, <3>2 DEF Knock, PairFrame
  <2>2. CASE ~(Knock(c) \/ PairFrame(c))
    <3>1. UNCHANGED <<storeVars, node>>
      BY <1>4, <2>2 DEF ConnStep, Accept, Register, Handshake, Track, Gate, Return,
         ServeEnd, TailEnd, Leave
    <3>2. QED
      BY <1>1, <3>1 DEF storeVars
  <2>3. QED
    BY <2>1, <2>2
<1>5. CASE BeginClose \/ Sweep
  BY <1>1, <1>5 DEF BeginClose, Sweep, storeVars
<1>6. CASE Closed \/ Crash
  BY <1>1, <1>6 DEF Closed, Crash, Exit, storeVars
<1>7. CASE Start
  <2>1. PICK old \in SUBSET disk.pending : f' = [disk EXCEPT !.pending = @ \ old]
    BY <1>7 DEF Start
  <2>2. /\ f'.approved = disk.approved /\ f'.revoked = disk.revoked
        /\ f'.pending \subseteq disk.pending
    BY <2>1 DEF TypeOK, Table
  <2>3. disk' = disk /\ told' = told
    BY <1>7 DEF Start
  <2>4. QED
    BY <2>2, <2>3 DEF DecisionSurvives, Keeps
<1>8. CASE UNCHANGED vars
  BY <1>1, <1>8 DEF vars, storeVars
<1>9. ASSUME NEW l \in Loop, LoopStep(l)
      PROVE  DecisionSurvives'
  <2>1. UNCHANGED <<f, disk, told, node>>
    BY <1>9, LoopTypes
  <2>2. QED
    BY <1>1, <2>1
<1>10. QED
  BY <1>3, <1>4, <1>5, <1>6, <1>7, <1>8, <1>9, NextSteps DEF NodeStep

\* At first nobody was told anything ...
LEMMA InitDecision == Init => DecisionInv
  BY InitTypes DEF Init, DecisionInv, DownIsQuiet, DecisionSurvives, Keeps, NoTable

\* ... and every step keeps the decisions.
LEMMA NextDecision == DecisionInv /\ [Next]_vars => DecisionInv'
  BY StepsTypes, QuietStays, StepSurvives DEF DecisionInv

\* What a user was told is what memory and file say of the peer, over knocks,
\* other decisions, saves that fail, crashes and restarts (pairing.go).
THEOREM DecisionsAreKept == Spec => []DecisionSurvives
<1>1. DecisionInv => DecisionSurvives
  BY DEF DecisionInv
<1>2. QED
  BY <1>1, InitDecision, NextDecision, PTL DEF Spec

-----------------------------------------------------------------------------
(* A revoked peer is cut off.                                              *)

\* What a connection may be: one that serves or may serve is among the peer's
\* connections, so that a decision finds it; one that is over is closed.
ServesTracked(c) ==
    /\ conn[c].at \in {"recv"} \cup Serving => c \in tracked
    /\ conn[c].tail => conn[c].at \in {"recv", "leaving", "gone"} \cup Serving
    /\ conn[c].at \in {"none", "gone"} => ~conn[c].open

\* A connection at work for a peer that is revoked is about to be cut: by one
\* who has not looked yet, or who has it in what he saw.
Busy(c) == conn[c].at \in Serving \/ (conn[c].tail /\ conn[c].at # "leaving")
CutBy(a, c) ==
    /\ admin[a].peer = conn[c].peer
    /\ \/ admin[a].at = "dropping"
       \/ admin[a].at = "closing" /\ c \in admin[a].snap
CutOrIdle(c) ==
    conn[c].open /\ Busy(c) /\ conn[c].peer \in Peer /\ told[conn[c].peer] = "revoked"
        => \E a \in Admin : CutBy(a, c)

CutInv == /\ DecisionInv
          /\ \A c \in Conn : ServesTracked(c) /\ CutOrIdle(c)

\* The step of another connection, or none of a connection.
LEMMA OthersServe ==
  ASSUME NEW c \in Conn, ServesTracked(c), conn'[c] = conn[c],
         c \in tracked => c \in tracked'
  PROVE  ServesTracked(c)'
  BY DEF ServesTracked

\* A step of a connection leaves the others alone, and who serves is tracked.
LEMMA ConnServes ==
  ASSUME CutInv, NEW c \in Conn, ConnStep(c)
  PROVE  /\ ServesTracked(c)'
         /\ \A d \in Conn \ {c} : conn'[d] = conn[d] /\ (d \in tracked => d \in tracked')
         /\ UNCHANGED <<admin, node>> /\ told' = told
<1> USE DEF CutInv, DecisionInv, TypeOK, ServesTracked
<1>1. CASE Accept(c)
  BY <1>1 DEF Accept, storeVars, Serving
<1>2. CASE Register(c)
  BY <1>2 DEF Register, Goto, storeVars, Serving
<1>3. CASE Handshake(c)
  BY <1>3 DEF Handshake, Goto, storeVars, Serving
<1>4. CASE Knock(c)
  BY <1>4 DEF Knock, KnockAs, Goto, Serving
<1>5. CASE Track(c)
  BY <1>5 DEF Track, Goto, storeVars, Serving
<1>6. CASE PairFrame(c)
  BY <1>6 DEF PairFrame, KnockAs, connVars
<1>7. CASE Gate(c)
  <2>1. UNCHANGED <<storeVars, admin, node, listed, tracked, starts, loop>> /\ conn[c].at = "recv"
    BY <1>7 DEF Gate
  <2>2. CASE \E step \in Serving : Goto(c, step)
    BY <2>1, <2>2 DEF Goto, storeVars, Serving
  <2>3. CASE conn' = [conn EXCEPT ![c].tail = TRUE]
    BY <2>1, <2>3 DEF storeVars, Serving
  <2>4. (\E step \in Serving : Goto(c, step)) \/ conn' = [conn EXCEPT ![c].tail = TRUE]
    BY <1>7 DEF Gate
  <2>5. QED
    BY <2>2, <2>3, <2>4
<1>8. CASE Return(c)
  BY <1>8 DEF Return, Goto, storeVars, Serving
<1>9. CASE ServeEnd(c)
  BY <1>9, SMTT(30) DEF ServeEnd, Goto, storeVars, Serving
<1>10. CASE TailEnd(c)
  BY <1>10 DEF TailEnd, storeVars, Serving
<1>11. CASE Leave(c)
  BY <1>11 DEF Leave, storeVars, Serving
<1>12. QED
  BY <1>1, <1>2, <1>3, <1>4, <1>5, <1>6, <1>7, <1>8, <1>9, <1>10, <1>11 DEF ConnStep

\* A connection becomes busy only at the gate, which a revoked peer does not
\* pass; and it keeps its peer until it is over.
LEMMA ConnBusy ==
  ASSUME CutInv, NEW c \in Conn, ConnStep(c), conn'[c].open, Busy(c)',
         conn'[c].peer \in Peer, told'[conn'[c].peer] = "revoked"
  PROVE  conn[c].open /\ Busy(c) /\ conn'[c].peer = conn[c].peer
<1> USE DEF CutInv, DecisionInv, TypeOK, Busy, ServesTracked
<1>1. CASE Gate(c)
  <2>1. conn[c].at = "recv" /\ conn[c].open /\ conn[c].peer \in f.approved
    BY <1>1 DEF Gate
  <2>2. node # "down" /\ conn[c].peer \in Peer
    BY <2>1 DEF DownIsQuiet, Named
  <2>3. told[conn[c].peer] # "revoked"
    BY <2>1, <2>2 DEF DecisionSurvives, Keeps
  <2>4. conn'[c].peer = conn[c].peer /\ told' = told
    BY <1>1 DEF Gate, Goto, storeVars
  <2>5. QED
    BY <2>3, <2>4
<1>2. CASE Accept(c) \/ Register(c) \/ Handshake(c) \/ Knock(c) \/ Track(c)
  <2>1. conn[c].at \in {"none", "accepted", "shaking", "knock", "track"}
    BY <1>2 DEF Accept, Register, Handshake, Knock, Track
  <2>2. ~conn[c].tail
    BY <2>1 DEF Serving
  <2>3. ~conn'[c].tail /\ conn'[c].at \notin Serving
    BY <1>2, <2>2 DEF Accept, Register, Handshake, Knock, Track, Goto, Serving
  <2>4. QED
    BY <2>3
<1>3. CASE PairFrame(c)
  BY <1>3 DEF PairFrame, connVars
<1>4. CASE Return(c) \/ Leave(c)
  BY <1>4 DEF Return, Leave, Goto, Serving
<1>5. CASE ServeEnd(c)
  BY <1>5 DEF ServeEnd, Goto, Serving
<1>6. CASE TailEnd(c)
  BY <1>6 DEF TailEnd, Serving
<1>7. QED
  BY <1>1, <1>2, <1>3, <1>4, <1>5, <1>6 DEF ConnStep

\* A step of a connection: it cannot begin to serve a revoked peer unseen.
LEMMA ConnCut ==
  ASSUME CutInv, NEW c \in Conn, ConnStep(c), NEW d \in Conn
  PROVE  CutOrIdle(d)'
<1>1. told' = told /\ UNCHANGED admin
  BY ConnServes
<1>2. CASE d = c
  <2>1. SUFFICES ASSUME conn'[c].open, Busy(c)', conn'[c].peer \in Peer,
                        told'[conn'[c].peer] = "revoked"
                 PROVE  \E a \in Admin : CutBy(a, c)'
    BY <1>2 DEF CutOrIdle
  <2>2. conn[c].open /\ Busy(c) /\ conn'[c].peer = conn[c].peer
    BY <2>1, ConnBusy
  <2>3. PICK a \in Admin : CutBy(a, c)
    BY <1>1, <2>1, <2>2 DEF CutInv, CutOrIdle
  <2>4. CutBy(a, c)'
    BY <1>1, <2>2, <2>3 DEF CutBy
  <2>5. QED
    BY <2>4
<1>3. CASE d # c
  <2>1. conn'[d] = conn[d]
    BY <1>3, ConnServes
  <2>2. QED
    BY <1>1, <2>1 DEF CutInv, CutOrIdle, CutBy, Busy
<1>4. QED
  BY <1>2, <1>3

\* Who decides leaves the connections to himself, or to one who cuts them.
LEMMA AdminCut ==
  ASSUME CutInv, NEW a \in Admin, AdminStep(a), NEW c \in Conn
  PROVE  ServesTracked(c)' /\ CutOrIdle(c)'
<1> USE DEF CutInv, DecisionInv, TypeOK
<1>1. CASE Resolve(a) \/ RevokeUnknown(a)
  <2>1. /\ UNCHANGED <<conn, tracked, told>>
        /\ admin[a].at \notin {"dropping", "closing"}
        /\ \A b \in Admin \ {a} : admin'[b] = admin[b]
    BY <1>1 DEF Resolve, RevokeUnknown, storeVars, connVars
  <2>2. QED
    BY <2>1 DEF ServesTracked, CutOrIdle, CutBy, Busy
<1>2. CASE ApproveDecide(a) \/ RevokeDecide(a)
  <2>1. /\ UNCHANGED <<conn, tracked>>
        /\ admin[a].at \in {"approving", "revoking"}
        /\ \A b \in Admin \ {a} : admin'[b] = admin[b]
    BY <1>2 DEF ApproveDecide, RevokeDecide, connVars
  <2>2. admin[a].peer \in Peer
    BY <2>1 DEF Named
  <2>3. \A q \in Peer \ {admin[a].peer} : told'[q] = told[q]
    BY <1>2, <2>2 DEF ApproveDecide, RevokeDecide, Decide
  <2>4. told'[admin[a].peer] = "revoked" =>
            admin'[a].at = "dropping" /\ admin'[a].peer = admin[a].peer
    <3>1. CASE ApproveDecide(a)
      BY <2>2, <3>1 DEF ApproveDecide, Decide
    <3>2. CASE RevokeDecide(a)
      BY <3>2 DEF RevokeDecide
    <3>3. QED
      BY <1>2, <3>1, <3>2
  <2>5. CASE conn[c].peer = admin[a].peer
    BY <2>1, <2>4, <2>5 DEF ServesTracked, CutOrIdle, CutBy
  <2>6. CASE conn[c].peer # admin[a].peer
    BY <2>1, <2>3, <2>6 DEF ServesTracked, CutOrIdle, CutBy, Busy
  <2>7. QED
    BY <2>5, <2>6
<1>3. CASE DropSnap(a)
  <2>1. /\ UNCHANGED <<conn, tracked, told>>
        /\ admin[a].at = "dropping" /\ admin'[a].at = "closing"
        /\ admin'[a].peer = admin[a].peer
        /\ admin'[a].snap = {x \in tracked : conn[x].peer = admin[a].peer}
        /\ \A b \in Admin \ {a} : admin'[b] = admin[b]
    BY <1>3 DEF DropSnap, storeVars, connVars
  <2>2. Busy(c) /\ conn[c].open => c \in tracked
    BY DEF Busy, ServesTracked, Serving
  <2>3. ASSUME NEW b \in Admin, CutBy(b, c), c \in tracked
        PROVE  CutBy(b, c)'
    <3>1. CASE b = a
      BY <2>1, <2>3, <3>1 DEF CutBy
    <3>2. CASE b # a
      BY <2>1, <2>3, <3>2 DEF CutBy
    <3>3. QED
      BY <3>1, <3>2
  <2>4. CutOrIdle(c)'
    BY <2>1, <2>2, <2>3 DEF CutOrIdle, Busy
  <2>5. QED
    BY <2>1, <2>4 DEF ServesTracked
<1>4. CASE DropClose(a)
  <2>1. conn' = Hung(admin[a].snap) /\ admin[a].snap \in SUBSET Conn
    BY <1>4 DEF DropClose, Hung
  <2>2. /\ conn'[c].at = conn[c].at /\ conn'[c].peer = conn[c].peer
        /\ conn'[c].tail = conn[c].tail
        /\ conn'[c].open => conn[c].open /\ c \notin admin[a].snap
    BY <2>1, HungTypes
  <2>3. /\ UNCHANGED <<tracked, told>> /\ admin[a].at = "closing"
        /\ \A b \in Admin \ {a} : admin'[b] = admin[b]
    BY <1>4 DEF DropClose, storeVars
  <2>4. QED
    BY <2>2, <2>3 DEF ServesTracked, CutOrIdle, CutBy, Busy
<1>5. QED
  BY <1>1, <1>2, <1>3, <1>4 DEF AdminStep

\* Close cuts more connections, a crash all of them.
LEMMA NodeCut ==
  ASSUME CutInv, NodeStep, NEW c \in Conn
  PROVE  ServesTracked(c)' /\ CutOrIdle(c)'
<1> USE DEF CutInv, DecisionInv, TypeOK
<1>1. CASE BeginClose \/ Start
  BY <1>1 DEF BeginClose, Start, storeVars, connVars, ServesTracked, CutOrIdle, CutBy, Busy
<1>2. CASE Sweep
  <2>1. conn' = Hung(listed) /\ listed \in SUBSET Conn
    BY <1>2 DEF Sweep, Hung
  <2>2. /\ conn'[c].at = conn[c].at /\ conn'[c].peer = conn[c].peer
        /\ conn'[c].tail = conn[c].tail /\ (conn'[c].open => conn[c].open)
    BY <2>1, HungTypes
  <2>3. UNCHANGED <<tracked, told, admin>>
    BY <1>2 DEF Sweep, storeVars
  <2>4. QED
    BY <2>2, <2>3 DEF ServesTracked, CutOrIdle, CutBy, Busy
<1>3. CASE Closed \/ Crash
  <2>1. Exit
    BY <1>3 DEF Closed, Crash
  <2>2. ~conn'[c].open /\ conn'[c].at \in {"none", "gone"} /\ ~conn'[c].tail
    BY <2>1 DEF Exit, NewConn, ServesTracked, Serving
  <2>3. QED
    BY <2>2 DEF ServesTracked, CutOrIdle, Serving
<1>4. QED
  BY <1>1, <1>2, <1>3 DEF NodeStep

\* Once a user was told that a peer is revoked, no open connection of it runs
\* an operation or tails a log, unless it is just being cut (link.go, pairing.go).
THEOREM RevokedIsCutOff == Spec => []RevokedIsCut
<1>1. Init => CutInv
  BY InitDecision DEF Init, CutInv, ServesTracked, CutOrIdle, NewConn, Serving
<1>2. CutInv /\ [Next]_vars => CutInv'
  <2> SUFFICES ASSUME CutInv, [Next]_vars, NEW c \in Conn
               PROVE  ServesTracked(c)' /\ CutOrIdle(c)'
    BY NextDecision DEF CutInv
  <2>1. ASSUME NEW d \in Conn, ConnStep(d)
        PROVE  ServesTracked(c)' /\ CutOrIdle(c)'
    <3>1. CASE c = d
      BY <2>1, <3>1, ConnServes, ConnCut
    <3>2. CASE c # d
      <4>1. conn'[c] = conn[c] /\ (c \in tracked => c \in tracked')
        BY <2>1, <3>2, ConnServes
      <4>2. QED
        BY <2>1, <4>1, OthersServe, ConnCut DEF CutInv
    <3>3. QED
      BY <3>1, <3>2
  <2>2. CASE UNCHANGED vars
    BY <2>2 DEF vars, storeVars, connVars, CutInv, ServesTracked, CutOrIdle, CutBy, Busy
  <2>3. CASE \E a \in Admin : AdminStep(a)
    BY <2>3, AdminCut
  <2>4. CASE NodeStep
    BY <2>4, NodeCut
  <2>5. ASSUME NEW l \in Loop, LoopStep(l)
        PROVE  ServesTracked(c)' /\ CutOrIdle(c)'
    <3>1. UNCHANGED <<told, admin, conn, tracked>>
      BY <2>5, LoopTypes DEF CutInv, DecisionInv
    <3>2. QED
      BY <3>1 DEF CutInv, ServesTracked, CutOrIdle, CutBy, Busy
  <2>6. QED
    BY <2>1, <2>2, <2>3, <2>4, <2>5, NextSteps
<1>3. CutInv => RevokedIsCut
  <2> SUFFICES ASSUME CutInv, NEW c \in Conn, conn[c].open, conn[c].peer \in Peer,
                      told[conn[c].peer] = "revoked", Busy(c)
               PROVE  Dropping(conn[c].peer)
    BY DEF RevokedIsCut, Busy
  <2>1. PICK a \in Admin : CutBy(a, c)
    BY DEF CutInv, CutOrIdle
  <2>2. QED
    BY <2>1 DEF CutBy, Dropping
<1>4. QED
  BY <1>1, <1>2, <1>3, PTL DEF Spec
=============================================================================
