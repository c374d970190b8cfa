------------------------------ MODULE MeshCall ------------------------------
(***************************************************************************)
(* A command forwarded to another node, and the status of all nodes put    *)
(* together from such calls (internal/mesh node.go: call, handleReq,       *)
(* AggregateStatus).  For each peer one goroutine waits for the answer or  *)
(* the timeout, and another makes the call: it dials, asks, and reads      *)
(* frames until the one that ends the answer.  The peer may refuse, die in *)
(* the middle of its answer, or take the request and say nothing more.     *)
(***************************************************************************)
EXTENDS Naturals, Sequences

CONSTANT Asked   \* the peers of the registry

VARIABLES ask,     \* per peer, the call: its step, sawOK, the last response and
                   \* the devices read from it, and what it returns
          conn,    \* the connection
          line,    \* the frames on their way to the caller
          serves,  \* the peer: its step and how it takes the request
          told     \* AggregateStatus: the state and the devices of the peer

callVars == <<ask, conn, line, serves, told>>

\* A frame: a response that is ok, refuses or is not there; the last one or not.
Frame   == [resp : {"ok", "refusal", "none"}, end : BOOLEAN]
Unknown == [state |-> "asked", devices |-> FALSE]
Offline == [state |-> "offline", devices |-> FALSE]

CallTypeOK ==
    /\ ask \in [Asked -> [at : {"idle", "resolve", "known", "dial", "send",
                                "recv", "done"},
                          sawOK : BOOLEAN, devices : BOOLEAN,
                          err : {"", "unreachable", "refused", "broken"}]]
    /\ conn \in [Asked -> {"none", "up", "down"}]
    /\ line \in [Asked -> Seq(Frame)]
    /\ serves \in [Asked -> {"idle", "request", "forward", "end", "done", "wedged"}]
    /\ told \in [Asked -> [state : {"asked", "online", "offline"}, devices : BOOLEAN]]

CallInit ==
    /\ ask = [p \in Asked |-> [at |-> "idle", sawOK |-> FALSE,
                               devices |-> FALSE, err |-> ""]]
    /\ conn = [p \in Asked |-> "none"] /\ line = [p \in Asked |-> <<>>]
    /\ serves = [p \in Asked |-> "idle"] /\ told = [p \in Asked |-> Unknown]

(***************************************************************************)
(* The call.  It returns with the connection closed.                       *)
(***************************************************************************)
Returns(p, err) ==
    /\ ask' = [ask EXCEPT ![p].at = "done", ![p].err = err]
    /\ conn' = [conn EXCEPT ![p] = IF @ = "none" THEN @ ELSE "down"]

\* AggregateStatus starts its goroutines for all peers.
AggregateStatus ==
    /\ \A p \in Asked : ask[p].at = "idle"
    /\ ask' = [p \in Asked |-> [ask[p] EXCEPT !.at = "resolve"]]
    /\ UNCHANGED <<conn, line, serves, told>>

\* No peer of that name any more, or several.
Match(p) ==
    /\ ask[p].at = "resolve"
    /\ \/ ask' = [ask EXCEPT ![p].at = "known"] /\ UNCHANGED conn
       \/ Returns(p, "unreachable")
    /\ UNCHANGED <<line, serves, told>>

\* The link loop may know that the peer refuses.
FastFail(p) ==
    /\ ask[p].at = "known"
    /\ \/ ask' = [ask EXCEPT ![p].at = "dial"] /\ UNCHANGED conn
       \/ Returns(p, "refused")
    /\ UNCHANGED <<line, serves, told>>

\* Dialling and the handshake have limits of their own.
DialPeer(p) ==
    /\ ask[p].at = "dial"
    /\ \/ ask' = [ask EXCEPT ![p].at = "send"] /\ conn' = [conn EXCEPT ![p] = "up"]
       \/ Returns(p, "unreachable")
    /\ UNCHANGED <<line, serves, told>>

SendReq(p) ==
    /\ ask[p].at = "send"
    /\ IF conn[p] = "up"
       THEN /\ ask' = [ask EXCEPT ![p].at = "recv"]
            /\ serves' = [serves EXCEPT ![p] = "request"]
            /\ UNCHANGED conn
       ELSE Returns(p, "broken") /\ UNCHANGED serves
    /\ UNCHANGED <<line, told>>

\* The last frame: an answer without a response that is ok was a refusal.
Verdict_Bug(sawOK) == ""
Verdict(sawOK) == IF sawOK THEN "" ELSE "refused"

RecvFrame(p) ==
    /\ ask[p].at = "recv" /\ line[p] # <<>>
    /\ LET frame == Head(line[p])
           sawOK == ask[p].sawOK \/ frame.resp = "ok"
       IN
       /\ ask' = [ask EXCEPT ![p].sawOK = sawOK,
                     ![p].devices = @ \/ frame.resp = "ok",
                     ![p].at  = IF frame.end THEN "done" ELSE @,
                     ![p].err = IF frame.end THEN Verdict(sawOK) ELSE @]
       /\ conn' = [conn EXCEPT ![p] = IF frame.end THEN "down" ELSE @]
    /\ line' = [line EXCEPT ![p] = Tail(@)]
    /\ UNCHANGED <<serves, told>>

RecvFails(p) ==
    /\ ask[p].at = "recv" /\ line[p] = <<>> /\ conn[p] = "down"
    /\ Returns(p, "broken")
    /\ UNCHANGED <<line, serves, told>>

\* The limit put on the whole connection (#71), not only on what is sent.
Deadline_Bug(p) ==
    /\ ask[p].at = "send" /\ Returns(p, "broken")
    /\ UNCHANGED <<line, serves, told>>
Deadline(p) ==
    /\ ask[p].at \in {"send", "recv"} /\ Returns(p, "broken")
    /\ UNCHANGED <<line, serves, told>>

CallStep(p) == \/ Match(p) \/ FastFail(p) \/ DialPeer(p) \/ SendReq(p)
               \/ RecvFrame(p) \/ RecvFails(p) \/ Deadline(p)

(***************************************************************************)
(* The goroutine that waits for the call.  After the timeout it writes an  *)
(* entry of its own: the call may go on writing to the one they share.     *)
(***************************************************************************)
Report(p) ==
    /\ told[p] = Unknown /\ ask[p].at = "done"
    /\ told' = [told EXCEPT ![p] =
                  IF ask[p].err # "" THEN Offline
                  ELSE [state |-> "online", devices |-> ask[p].devices]]
    /\ UNCHANGED <<ask, conn, line, serves>>

TimeOut(p) ==
    /\ told[p] = Unknown /\ ask[p].at # "idle"
    /\ told' = [told EXCEPT ![p] = Offline]
    /\ UNCHANGED <<ask, conn, line, serves>>

(***************************************************************************)
(* The peer.  What it sends into a connection that is down is lost.        *)
(***************************************************************************)
Put(p, frame) ==
    line' = IF conn[p] = "up" THEN [line EXCEPT ![p] = Append(@, frame)] ELSE line

\* serveConn's gate: a node that is not approved is refused and cut off.
ServeGate(p) ==
    /\ serves[p] = "request"
    /\ \/ serves' = [serves EXCEPT ![p] = "forward"] /\ UNCHANGED line
       \/ /\ serves' = [serves EXCEPT ![p] = "done"]
          /\ Put(p, [resp |-> "refusal", end |-> TRUE])
       \/ serves' = [serves EXCEPT ![p] = "wedged"] /\ UNCHANGED line
    /\ UNCHANGED <<ask, conn, told>>

\* handleReq: what the local handler responds, then the end.
ServeResp(p) ==
    /\ serves[p] = "forward"
    /\ Put(p, [resp |-> "ok", end |-> FALSE])
    /\ \E next \in {"end", "wedged"} : serves' = [serves EXCEPT ![p] = next]
    /\ UNCHANGED <<ask, conn, told>>
ServeReqEnd(p) ==
    /\ serves[p] = "end"
    /\ Put(p, [resp |-> "none", end |-> TRUE])
    /\ serves' = [serves EXCEPT ![p] = "done"]
    /\ UNCHANGED <<ask, conn, told>>

\* The connection breaks, or the peer dies: frames not yet read may be lost.
Break(p) ==
    /\ conn[p] = "up"
    /\ conn' = [conn EXCEPT ![p] = "down"]
    /\ \E n \in 0 .. Len(line[p]) : line' = [line EXCEPT ![p] = SubSeq(@, 1, n)]
    /\ UNCHANGED <<ask, serves, told>>

CallNext ==
    \/ AggregateStatus
    \/ \E p \in Asked : \/ CallStep(p) \/ Report(p) \/ TimeOut(p)
                        \/ ServeGate(p) \/ ServeResp(p) \/ ServeReqEnd(p) \/ Break(p)

CallSpec == CallInit /\ [][CallNext]_callVars

-----------------------------------------------------------------------------
(* Properties. *)

\* A peer that is reported online let this node in, and its devices are those
\* it sent, from an answer that came to its end: a refusal, an answer that
\* breaks off and one that comes too late are no empty list (node.go:549-551).
AnswerTrue ==
    \A p \in Asked : told[p].state = "online" =>
        told[p].devices /\ serves[p] = "done"

\* Whatever the peers do, the status is put together, and no goroutine and no
\* connection of it stays behind (#71).
AsksEnd ==
    <>[]\A p \in Asked :
        \/ ask[p].at = "idle"
        \/ told[p] # Unknown /\ ask[p].at = "done" /\ conn[p] # "up"
=============================================================================
