----------------------------- MODULE FrontEnds -----------------------------
(***************************************************************************)
(* The two ways into a running daemon: the control socket (internal/ctl,   *)
(* with the command handler of internal/cli) and the panel's flash and     *)
(* board tasks with their progress streams (internal/web flash.go).  Both  *)
(* run tools under the daemon's opMu, whose lines go back to the client    *)
(* that asked as the tool prints them (internal/flash RunExec): a client   *)
(* that stops reading must not keep the port operations of everyone else.  *)
(*                                                                         *)
(* The clients of the socket are flash commands, which dial, send their    *)
(* request, print what comes back and try again when the flash has failed  *)
(* (internal/cli cmdFlash), on this node or, --peer, on another one, to    *)
(* which the handler passes them on.  How a command gets there and back is *)
(* MeshShare and MeshCall; here it is a call that may break at any moment, *)
(* or never end.  What Flash and Board do to the ports is PortHandover in  *)
(* full; here they are the time between TryLock and Unlock.                *)
(***************************************************************************)
EXTENDS Naturals, Sequences

CONSTANTS Client,   \* flash commands, and the connection each has
          Attempts, \* how often a command tries
          Task,     \* POSTs of a flash or a board info
          Viewer,   \* progress streams
          Free,     \* the holder of an opMu that is free
          SockCap,  \* responses a connection holds unread
          ChanCap,  \* events a subscriber's channel holds (64)
          HistCap   \* flashHistoryCap (4000)

ASSUME FrontAssumption ==
    /\ Free \notin Client \cup Task /\ Client \cap Task = {}
    /\ Attempts \in Nat \ {0}
    /\ SockCap \in Nat \ {0} /\ ChanCap \in Nat \ {0} /\ HistCap \in Nat

VARIABLES op,    \* the holder of daemon.opMu
          try,   \* per command: how it stands, and the attempts it has made
          flashed, \* the commands whose tool has succeeded
          elsewhere, \* the commands that are for another node
          far,   \* per command: its last call's flash on that node
          lost,  \* the commands that had a call break when the other node had
                 \* been asked
          cmd,   \* per connection: the step of its goroutine, or what it sends
          sock,  \* per connection: open, unread responses, and whether the
                 \* client reads; what is not open is what respond calls dead
          conns, \* ctl.Server.conns
          task,  \* per task: its step
          job,   \* flashJob: events, active
          view,  \* per stream: its step, its channel, whether it is in
                 \* flashJob.subs, and whether an end was dropped
          exit   \* how far the daemon's way out has come

farVars   == <<elsewhere, far, lost>>
cliVars   == <<try, flashed, farVars>>
ctlVars   == <<cliVars, cmd, sock, conns>>
panelVars == <<task, job, view>>
frontVars == <<op, ctlVars, panelVars, exit>>

Event == {"line", "done"}
Reply == {"line", "ok", "fail"}
UpTo(n, S) == UNION {[1 .. k -> S] : k \in 0 .. n}

FrontTypeOK ==
    /\ op \in Client \cup Task \cup {Free}
    /\ try \in [Client -> [at : {"idle", "open", "wait", "ok", "failed"},
                           made : 0 .. Attempts]]
    /\ flashed \subseteq Client /\ elsewhere \subseteq Client /\ lost \subseteq Client
    /\ far \in [Client -> {"none", "asked", "tool", "ok", "fail"}]
    /\ cmd \in [Client -> {"none", "accepted", "scan", "tool", "call", "far", "gone"}
                              \cup Reply]
    /\ \A c \in Client : /\ sock[c].open \in BOOLEAN /\ sock[c].reads \in BOOLEAN
                         /\ sock[c].unread \in UpTo(SockCap, Reply)
    /\ conns \subseteq Client
    /\ task \in [Task -> {"none", "upload", "tool", "far", "end", "over"}]
    /\ job.events \in UpTo(HistCap, Event) /\ job.active \in BOOLEAN
    /\ \A v \in Viewer : /\ view[v].at \in {"none", "live", "closed"}
                         /\ view[v].chan \in UpTo(ChanCap, Event)
                         /\ view[v].sub \in BOOLEAN /\ view[v].lost \in BOOLEAN
    /\ exit \in {"up", "web", "closing", "closed"}

NewSock == [open |-> FALSE, unread |-> <<>>, reads |-> TRUE]
NewView == [at |-> "none", chan |-> <<>>, sub |-> FALSE, lost |-> FALSE]

FrontInit ==
    /\ op = Free
    /\ try = [c \in Client |-> [at |-> "idle", made |-> 0]] /\ flashed = {}
    /\ elsewhere \in SUBSET Client
    /\ far = [c \in Client |-> "none"] /\ lost = {}
    /\ cmd = [c \in Client |-> "none"] /\ sock = [c \in Client |-> NewSock]
    /\ conns = {}
    /\ task = [t \in Task |-> "none"]
    /\ job = [events |-> <<>>, active |-> FALSE]
    /\ view = [v \in Viewer |-> NewView]
    /\ exit = "up"

FarAt(c, step)  == [far EXCEPT ![c] = step]
CmdAt(c, step)  == [cmd EXCEPT ![c] = step]
TaskAt(t, step) == [task EXCEPT ![t] = step]
Shut(S) == [c \in Client |-> [sock[c] EXCEPT !.open = @ /\ c \notin S]]
Unlocked(r) == IF op = r THEN Free ELSE op

(***************************************************************************)
(* The command: flashRetry around Send.  An attempt has a connection of    *)
(* its own; it is made when the goroutine of the last one has ended.       *)
(***************************************************************************)
DialSocket(c) ==
    /\ try[c].at \in {"idle", "wait"} /\ cmd[c] \in {"none", "gone"}
    /\ IF exit \in {"up", "web"}
       THEN /\ try' = [try EXCEPT ![c] = [at |-> "open", made |-> @.made + 1]]
            /\ cmd' = CmdAt(c, "accepted")
            /\ sock' = [sock EXCEPT ![c] = [NewSock EXCEPT !.open = TRUE]]
       ELSE try' = [try EXCEPT ![c].at = "failed"] /\ UNCHANGED <<cmd, sock>>
    /\ UNCHANGED <<op, flashed, farVars, conns, panelVars, exit>>

\* Lines are printed; the final answer ends the attempt, or the command.
Answered(c, reply) ==
    CASE reply = "line" -> [try EXCEPT ![c].at = "open"]
      [] reply = "ok"   -> [try EXCEPT ![c].at = "ok"]
      [] reply = "fail" -> [try EXCEPT ![c].at = IF try[c].made < Attempts THEN "wait"
                                                                           ELSE "failed"]
ClientReads(c) ==
    /\ try[c].at = "open" /\ sock[c].reads /\ sock[c].unread # <<>>
    /\ try' = Answered(c, Head(sock[c].unread))
    /\ sock' = [sock EXCEPT ![c].unread = Tail(@),
                            ![c].open = @ /\ Head(sock[c].unread) = "line"]
    /\ UNCHANGED <<op, flashed, farVars, cmd, conns, panelVars, exit>>

\* The connection ends without an answer: by Send a plain end is no error, and
\* an error is none that a further attempt would cure.
ClientSeesEnd_Bug(c) ==
    /\ try[c].at = "open" /\ sock[c].reads /\ sock[c].unread = <<>> /\ ~sock[c].open
    /\ try' = Answered(c, "fail")
    /\ UNCHANGED <<op, flashed, farVars, cmd, sock, conns, panelVars, exit>>
ClientSeesEnd(c) ==
    /\ try[c].at = "open" /\ sock[c].reads /\ sock[c].unread = <<>> /\ ~sock[c].open
    /\ \E end \in {"ok", "failed"} : try' = [try EXCEPT ![c].at = end]
    /\ UNCHANGED <<op, flashed, farVars, cmd, sock, conns, panelVars, exit>>

\* It is frozen (Ctrl+Z), goes on, or is killed.
ClientActs(c) ==
    /\ try[c].at = "open"
    /\ \/ sock' = [sock EXCEPT ![c].reads = ~@] /\ UNCHANGED try
       \/ sock' = Shut({c}) /\ try' = [try EXCEPT ![c].at = "failed"]
    /\ UNCHANGED <<op, flashed, farVars, cmd, conns, panelVars, exit>>

(***************************************************************************)
(* The control socket: Serve, handleConn and respond.                      *)
(***************************************************************************)
\* A connection that comes late is not registered but closed.
Register_Bug(c) ==
    /\ cmd[c] = "accepted"
    /\ cmd' = CmdAt(c, "scan") /\ conns' = conns \cup {c} /\ UNCHANGED sock
    /\ UNCHANGED <<op, cliVars, panelVars, exit>>
Register(c) ==
    /\ cmd[c] = "accepted"
    /\ IF exit \in {"closing", "closed"}
       THEN cmd' = CmdAt(c, "gone") /\ sock' = Shut({c}) /\ UNCHANGED conns
       ELSE cmd' = CmdAt(c, "scan") /\ conns' = conns \cup {c} /\ UNCHANGED sock
    /\ UNCHANGED <<op, cliVars, panelVars, exit>>

\* The one request of a connection: for another node it is passed on, without
\* opMu; here it is a flash when opMu is free, or refused.
Command(c) ==
    /\ cmd[c] = "scan" /\ sock[c].open /\ sock[c].unread = <<>>
    /\ \/ c \in elsewhere /\ cmd' = CmdAt(c, "call") /\ UNCHANGED op
       \/ c \notin elsewhere /\ op = Free /\ op' = c /\ cmd' = CmdAt(c, "tool")
       \/ c \notin elsewhere /\ cmd' = CmdAt(c, "fail") /\ UNCHANGED op
    /\ UNCHANGED <<cliVars, sock, conns, panelVars, exit>>

ScanEnds(c) ==
    /\ cmd[c] = "scan" /\ ~sock[c].open
    /\ cmd' = CmdAt(c, "gone")
    /\ conns' = conns \ {c}
    /\ UNCHANGED <<op, cliVars, sock, panelVars, exit>>

\* respond is back: the tool goes on printing, or the request is done with.
Responded(c) ==
    cmd' = CmdAt(c, CASE cmd[c] = "line" /\ c \notin elsewhere -> "tool"
                      [] cmd[c] = "line" /\ c \in elsewhere    -> "far"
                      [] cmd[c] # "line"                     -> "scan")

Respond(c) ==
    /\ cmd[c] \in Reply
    /\ \/ /\ sock[c].open /\ Len(sock[c].unread) < SockCap
          /\ sock' = [sock EXCEPT ![c].unread = Append(@, cmd[c])]
       \/ ~sock[c].open /\ UNCHANGED sock
    /\ Responded(c)
    /\ UNCHANGED <<op, cliVars, conns, panelVars, exit>>

\* Five seconds without room: dead, and closed.
WriteTimeout_Bug(c) == FALSE /\ UNCHANGED frontVars
WriteTimeout(c) ==
    /\ cmd[c] \in Reply
    /\ sock[c].open /\ Len(sock[c].unread) = SockCap
    /\ sock' = Shut({c})
    /\ Responded(c)
    /\ UNCHANGED <<op, cliVars, conns, panelVars, exit>>

(***************************************************************************)
(* RunExec: a line is passed on before the next is read, and the tool is   *)
(* over, by itself or killed after its time, when both its outputs are.    *)
(***************************************************************************)
ClientToolPrints(c) ==
    /\ cmd[c] = "tool"
    /\ cmd' = CmdAt(c, "line")
    /\ UNCHANGED <<op, cliVars, sock, conns, panelVars, exit>>
ClientToolEnds(c) ==
    /\ cmd[c] = "tool"
    /\ op' = Unlocked(c)
    /\ \/ cmd' = CmdAt(c, "ok") /\ flashed' = flashed \cup {c}
       \/ cmd' = CmdAt(c, "fail") /\ UNCHANGED flashed
    /\ UNCHANGED <<try, farVars, sock, conns, panelVars, exit>>

(***************************************************************************)
(* A flash on another node: handlePeerCmd, Forward, remoteFlash and Call.  *)
(* The images are uploaded, the request is sent, and what comes back is    *)
(* passed on to the client.  The read of an answer has no deadline.  What  *)
(* fails on the way the handler tells the client as it tells it a flash    *)
(* that has failed; what it says after a final answer nobody reads, and is *)
(* left out.  The other node flashes whether or not it can still answer.   *)
(***************************************************************************)
\* No peer, no connection, an upload that fails.
CallFails(c) ==
    /\ cmd[c] = "call"
    /\ cmd' = CmdAt(c, "fail")
    /\ UNCHANGED <<op, cliVars, sock, conns, panelVars, exit>>

\* The request is sent.  The flash of an earlier call that is still at work
\* has the other node refuse it.
CallSent(c) ==
    /\ cmd[c] = "call"
    /\ \/ /\ far[c] # "tool"
          /\ far' = FarAt(c, "asked") /\ cmd' = CmdAt(c, "far")
       \/ /\ far[c] = "tool"
          /\ cmd' = CmdAt(c, "fail") /\ UNCHANGED far
    /\ UNCHANGED <<op, try, flashed, elsewhere, lost, sock, conns, panelVars, exit>>

\* The other node takes the request, or refuses it.
FarStarts(c) ==
    /\ far[c] = "asked"
    /\ \E step \in {"tool", "fail"} : far' = FarAt(c, step)
    /\ UNCHANGED <<op, try, flashed, elsewhere, lost, cmd, sock, conns, panelVars, exit>>
FarEnds(c) ==
    /\ far[c] = "tool"
    /\ \/ far' = FarAt(c, "ok") /\ flashed' = flashed \cup {c}
       \/ far' = FarAt(c, "fail") /\ UNCHANGED flashed
    /\ UNCHANGED <<op, try, elsewhere, lost, cmd, sock, conns, panelVars, exit>>

FarPrints(c) ==
    /\ cmd[c] = "far" /\ far[c] = "tool"
    /\ cmd' = CmdAt(c, "line")
    /\ UNCHANGED <<op, cliVars, sock, conns, panelVars, exit>>
FarAnswers(c) ==
    /\ cmd[c] = "far" /\ far[c] \in {"ok", "fail"}
    /\ cmd' = CmdAt(c, far[c]) /\ far' = FarAt(c, "none")
    /\ UNCHANGED <<op, try, flashed, elsewhere, lost, sock, conns, panelVars, exit>>

\* The channel breaks.
FarIsLost(c) ==
    /\ cmd[c] = "far"
    /\ cmd' = CmdAt(c, "fail") /\ lost' = lost \cup {c}
    /\ UNCHANGED <<op, try, flashed, elsewhere, far, sock, conns, panelVars, exit>>

(***************************************************************************)
(* The panel: handleFlash and handleBoard, with publish.  A subscriber     *)
(* whose channel is full misses the event.                                 *)
(***************************************************************************)
Sent(v, e) ==
    CASE ~view[v].sub -> view[v]
      [] view[v].sub /\ Len(view[v].chan) < ChanCap ->
             [view[v] EXCEPT !.chan = Append(@, e)]
      [] view[v].sub /\ Len(view[v].chan) = ChanCap ->
             [view[v] EXCEPT !.lost = @ \/ e = "done"]
Publish(e) ==
    /\ job' = [events |-> IF Len(job.events) < HistCap THEN Append(job.events, e)
                          ELSE job.events,
               active |-> job.active /\ e # "done"]
    /\ view' = [v \in Viewer |-> Sent(v, e)]

\* The slot is taken, with the old history out of the way, or refused.
Occupy(t) ==
    /\ task[t] = "none" /\ exit = "up"
    /\ IF job.active THEN task' = TaskAt(t, "over") /\ UNCHANGED job
       ELSE task' = TaskAt(t, "upload") /\ job' = [events |-> <<>>, active |-> TRUE]
    /\ UNCHANGED <<op, ctlVars, view, exit>>

\* bail tells the streams that are waiting for the task.
Bail_Bug(t) ==
    /\ task[t] = "upload"
    /\ job' = [job EXCEPT !.active = FALSE] /\ UNCHANGED view
    /\ task' = TaskAt(t, "over")
    /\ UNCHANGED <<op, ctlVars, exit>>
Bail(t) ==
    /\ task[t] = "upload"
    /\ Publish("done")
    /\ task' = TaskAt(t, "over")
    /\ UNCHANGED <<op, ctlVars, exit>>
\* With the images: here, under opMu or refused, or on another node.
TaskStarts(t) ==
    /\ task[t] = "upload"
    /\ \/ op = Free /\ op' = t /\ task' = TaskAt(t, "tool")
       \/ op # Free /\ task' = TaskAt(t, "end") /\ UNCHANGED op
       \/ task' = TaskAt(t, "far") /\ UNCHANGED op
    /\ UNCHANGED <<ctlVars, job, view, exit>>
TaskToolPrints(t) ==
    /\ task[t] \in {"tool", "far"}
    /\ Publish("line")
    /\ UNCHANGED <<op, ctlVars, task, exit>>
TaskToolEnds(t) ==
    /\ task[t] = "tool"
    /\ op' = Unlocked(t)
    /\ task' = TaskAt(t, "end")
    /\ UNCHANGED <<ctlVars, job, view, exit>>
\* The other node answers, or the call breaks.
TaskFarEnds(t) ==
    /\ task[t] = "far"
    /\ task' = TaskAt(t, "end")
    /\ UNCHANGED <<op, ctlVars, job, view, exit>>
TaskEnds(t) ==
    /\ task[t] = "end"
    /\ Publish("done")
    /\ task' = TaskAt(t, "over")
    /\ UNCHANGED <<op, ctlVars, exit>>

(***************************************************************************)
(* flashStream: snapshot and subscription are one critical section.        *)
(***************************************************************************)
Attach(v) ==
    /\ view[v].at = "none" /\ exit = "up"
    /\ view' = [view EXCEPT ![v].at = IF job.active THEN "live" ELSE "closed",
                            ![v].sub = job.active]
    /\ UNCHANGED <<op, ctlVars, task, job, exit>>

Show(v) ==
    /\ view[v].at = "live" /\ view[v].chan # <<>>
    /\ view' = [view EXCEPT ![v] = IF Head(view[v].chan) = "done"
                                   THEN [NewView EXCEPT !.at = "closed"]
                                   ELSE [view[v] EXCEPT !.chan = Tail(view[v].chan)]]
    /\ UNCHANGED <<op, ctlVars, task, job, exit>>

Leave(v) ==
    /\ view[v].at = "live"
    /\ view' = [view EXCEPT ![v] = [NewView EXCEPT !.at = "closed"]]
    /\ UNCHANGED <<op, ctlVars, task, job, exit>>

(***************************************************************************)
(* The way out of cmdRun: the panel's connections, then the control        *)
(* socket's, whose handlers are waited for, but not for ever.              *)
(***************************************************************************)
WebClose ==
    /\ exit = "up" /\ exit' = "web"
    /\ view' = [v \in Viewer |-> [NewView EXCEPT !.at = "closed"]]
    /\ UNCHANGED <<op, ctlVars, task, job>>
CtlClose ==
    /\ exit = "web" /\ exit' = "closing"
    /\ sock' = Shut(conns)
    /\ UNCHANGED <<op, cliVars, cmd, conns, panelVars>>
CtlClosed ==
    /\ exit = "closing" /\ exit' = "closed"
    /\ UNCHANGED <<op, ctlVars, panelVars>>

FrontStep ==
    \/ \E c \in Client :
        \/ DialSocket(c) \/ ClientReads(c) \/ ClientSeesEnd(c) \/ ClientActs(c)
        \/ Register(c) \/ Command(c) \/ ScanEnds(c) \/ Respond(c) \/ WriteTimeout(c)
        \/ ClientToolPrints(c) \/ ClientToolEnds(c)
        \/ CallFails(c) \/ CallSent(c) \/ FarStarts(c) \/ FarEnds(c)
        \/ FarPrints(c) \/ FarAnswers(c) \/ FarIsLost(c)
    \/ \E t \in Task :
        \/ Occupy(t) \/ Bail(t) \/ TaskStarts(t)
        \/ TaskToolPrints(t) \/ TaskToolEnds(t) \/ TaskFarEnds(t) \/ TaskEnds(t)
    \/ \E v \in Viewer : Attach(v) \/ Show(v) \/ Leave(v)
    \/ WebClose \/ CtlClose \/ CtlClosed

\* When Close is back the process ends.
FrontNext == exit # "closed" /\ FrontStep

FrontSpec == FrontInit /\ [][FrontNext]_frontVars

-----------------------------------------------------------------------------
(* Whoever holds opMu lets go of it: a client that is frozen, gone or cut  *)
(* off while its tool prints does not keep it (ctl.go:180-185), nor does a *)
(* browser (web/flash.go:51).                                              *)
Released == \A r \in Client \cup Task : op = r ~> op # r \/ exit = "closed"

(* A stream that follows a task ends with it, also when the task fails     *)
(* before it has begun and whenever the stream joins (web/flash.go:102-103,*)
(* 207-208), unless its channel was full at the very end, and provided     *)
(* that the tasks on other nodes end: what a task asks of a peer has no    *)
(* deadline (mesh/node.go:508-510, 555), and a peer that falls silent      *)
(* keeps the task and its streams for ever.                                *)
FarTasksEnd == \A t \in Task : []<>(task[t] # "far")
StreamEnds ==
    FarTasksEnd =>
        \A v \in Viewer :
            view[v].at = "live" ~> view[v].at = "closed" \/ view[v].lost

(* A flash that has succeeded is not done again, whatever becomes of the   *)
(* connection to the daemon: a command repeats what it knows to have       *)
(* failed, and not what it has lost sight of (cli.go:1145, 1165-1167).     *)
(* Only a flash on another node whose call broke when the other node had   *)
(* been asked is repeated all the same (cli.go:1160-1163): the handler's   *)
(* answer is that of a flash that has failed (cli.go:836-838).             *)
NotTwice == [][\A c \in Client : try'[c].made > try[c].made =>
                  c \notin flashed \/ c \in lost]_frontVars

(* Once Close has begun no connection stays open: those it knows it cuts,  *)
(* and one that was accepted just before is cut by Serve (ctl.go:98-99).   *)
CutOff == exit \in {"closing", "closed"} =>
              \A c \in Client : sock[c].open => cmd[c] = "accepted"
=============================================================================
