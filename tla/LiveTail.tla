------------------------------ MODULE LiveTail ------------------------------
(***************************************************************************)
(* A log file followed to a browser: by the panel on its own node          *)
(* (internal/web: tailLiveDir) and from another node (internal/mesh        *)
(* tail.go), over a sealed channel whose frames carry a running number     *)
(* (channel.go) that two goroutines of the peer send on, with the client's *)
(* watchdog for a channel that has gone silent and the panel's redialling  *)
(* (handleLiveMulti).                                                      *)
(*                                                                         *)
(* A file is <<day, suffix>> as in LogStore, its content a number of       *)
(* lines; a block is named by the last line in it, so that how much of a   *)
(* file is replayed when it is seen for the first time is left out.        *)
(***************************************************************************)
EXTENDS Naturals, Sequences, Functions

CONSTANTS MaxDay, MaxSfx, MaxLines, \* bounds: days, suffixes, lines in all
          MaxWire,                  \* frames the connection holds
          MaxPong,                  \* bound: pongs per connection
          MaxBreak                  \* bound: connections that break or freeze

ASSUME TailAssumption ==
    /\ MaxDay \in Nat /\ MaxSfx \in Nat /\ MaxLines \in Nat \ {0}
    /\ MaxWire \in Nat \ {0}
    /\ MaxPong \in Nat /\ MaxBreak \in Nat

Log    == (0 .. MaxDay) \X (0 .. MaxSfx)
Line   == Log \X (0 .. MaxLines)     \* a line; nothing shown yet is line 0
Nobody == "nobody"
Sender == {"tail", "loop"}

VARIABLES log, cur,      \* lines per file (0: no file), the writer's file
          local,         \* tailLiveDir: its step, file, size and what it looked at
          remote,        \* handleTail: its file and offset, or ended
          send,          \* per sender of the channel: its step, number and line
          wmu, tx, rx,   \* Channel.wmu, the two counters
          flight, net,   \* frames on the way; the connection
          viewer,        \* where the browser is: "local" or "remote"
          shown,         \* the last line it has shown
          pongs, breaks

fileVars    == <<log, cur, viewer>>
channelVars == <<send, wmu, tx, rx, flight, net>>
tailVars    == <<fileVars, local, remote, channelVars, shown, pongs, breaks>>

TailTypeOK ==
    /\ log \in [Log -> 0 .. MaxLines] /\ cur \in Log
    /\ local \in [at : {"look", "read"}, file : Log, size : 0 .. MaxLines,
                  found : Log, upto : 0 .. MaxLines]
    /\ remote \in [file : Log, off : 0 .. MaxLines]
    /\ send \in [Sender -> [at : {"idle", "want", "write"}, num : Nat, line : Line]]
    /\ wmu \in Sender \cup {Nobody} /\ tx \in Nat /\ rx \in Nat
    /\ flight \in Seq([num : Nat, line : Line])
    /\ net \in {"up", "frozen", "down"}
    /\ viewer \in {"local", "remote"} /\ shown \in Line
    /\ pongs \in 0 .. MaxPong /\ breaks \in 0 .. MaxBreak

None0  == <<<<0, 0>>, 0>>
NoSend == [at |-> "idle", num |-> 0, line |-> None0]

TailInit ==
    /\ log = [f \in Log |-> 0] /\ cur = <<0, 0>>
    /\ local = [at |-> "look", file |-> <<0, 0>>, size |-> 0,
                found |-> <<0, 0>>, upto |-> 0]
    /\ remote = [file |-> <<0, 0>>, off |-> 0]
    /\ send = [s \in Sender |-> NoSend] /\ wmu = Nobody
    /\ tx = 0 /\ rx = 0 /\ flight = <<>> /\ net = "down"
    /\ viewer \in {"local", "remote"} /\ shown = None0
    /\ pongs = 0 /\ breaks = 0

(***************************************************************************)
(* The writer (LogStore in full), and which file is the latest: by day,    *)
(* then by the number of the suffix, the file without one being 0.         *)
(***************************************************************************)
Existing   == {f \in Log : log[f] > 0}
Written == FoldFunction(+, 0, log)

WriteLine ==
    /\ Written < MaxLines
    /\ \/ cur' = cur
       \/ log[cur] > 0 /\ cur[2] < MaxSfx /\ cur' = <<cur[1], cur[2] + 1>>
       \/ cur[1] < MaxDay /\ cur' = <<cur[1] + 1, 0>>
    /\ log' = [log EXCEPT ![cur'] = @ + 1]
    /\ UNCHANGED <<local, remote, channelVars, viewer, shown, pongs, breaks>>

Newer_Bug(f, g) ==
    \/ f[1] > g[1]
    \/ f[1] = g[1] /\ g[2] # 0 /\ (f[2] = 0 \/ f[2] > g[2])
Newer(f, g) ==
    \/ f[1] > g[1]
    \/ f[1] = g[1] /\ f[2] > g[2]
Latest == CHOOSE f \in Existing : \A g \in Existing \ {f} : Newer(f, g)

(***************************************************************************)
(* tailLiveDir: what it finds is read in a second step, the end of the     *)
(* file as it is then when the file is new to it, else up to the size      *)
(* found.                                                                  *)
(***************************************************************************)
LocalLook ==
    /\ viewer = "local" /\ local.at = "look" /\ Existing # {}
    /\ local.file # Latest \/ log[Latest] # local.size
    /\ local' = [local EXCEPT !.at = "read", !.found = Latest, !.upto = log[Latest]]
    /\ UNCHANGED <<fileVars, remote, channelVars, shown, pongs, breaks>>

LocalRead ==
    LET new == local.size = 0 \/ local.file # local.found IN
    /\ local.at = "read"
    /\ shown' = <<local.found, IF new THEN log[local.found] ELSE local.upto>>
    /\ local' = [local EXCEPT !.at = "look", !.file = local.found, !.size = local.upto]
    /\ UNCHANGED <<fileVars, remote, channelVars, pongs, breaks>>

(***************************************************************************)
(* The peer: handleTail polls, and shares the channel with the goroutine   *)
(* that answers pings.  Number and frame leave under wmu together.         *)
(***************************************************************************)
TailPoll ==
    LET off == IF Latest = remote.file THEN remote.off ELSE 0 IN
    /\ net # "down" /\ send["tail"].at = "idle" /\ Existing # {}
    /\ log[Latest] > off
    /\ remote' = [file |-> Latest, off |-> log[Latest]]
    /\ send' = [send EXCEPT !["tail"] = [at |-> "want", num |-> 0,
                                         line |-> <<Latest, log[Latest]>>]]
    /\ UNCHANGED <<fileVars, local, wmu, tx, rx, flight, net, shown, pongs, breaks>>

Pong ==
    /\ net = "up" /\ send["loop"].at = "idle" /\ pongs < MaxPong
    /\ send' = [send EXCEPT !["loop"] = [NoSend EXCEPT !.at = "want"]]
    /\ pongs' = pongs + 1
    /\ UNCHANGED <<fileVars, local, remote, wmu, tx, rx, flight, net, shown, breaks>>

SendLock(s) ==
    /\ send[s].at = "want" /\ wmu = Nobody
    /\ wmu' = s
    /\ send' = [send EXCEPT ![s].at = "write", ![s].num = tx]
    /\ tx' = tx + 1
    /\ UNCHANGED <<fileVars, local, remote, rx, flight, net, shown, pongs, breaks>>

\* The write waits while the connection is full; into one that is frozen it
\* goes and is lost.
SendWrite(s) ==
    /\ send[s].at = "write"
    /\ \/ /\ net = "up" /\ Len(flight) < MaxWire
          /\ flight' = Append(flight, [num |-> send[s].num, line |-> send[s].line])
       \/ net = "frozen" /\ UNCHANGED flight
    /\ send' = [send EXCEPT ![s] = NoSend]
    /\ wmu' = Nobody
    /\ UNCHANGED <<fileVars, local, remote, tx, rx, net, shown, pongs, breaks>>

(***************************************************************************)
(* The client: TailStream and the loop around it.                          *)
(***************************************************************************)
\* A frame opens only under the number that is due; else the stream ends.
TailRecv ==
    /\ net = "up" /\ flight # <<>>
    /\ LET frame == Head(flight) IN
       IF frame.num = rx
       THEN /\ rx' = rx + 1
            /\ shown' = IF frame.line = None0 THEN shown ELSE frame.line
            /\ UNCHANGED net
       ELSE net' = "down" /\ UNCHANGED <<rx, shown>>
    /\ flight' = Tail(flight)
    /\ UNCHANGED <<fileVars, local, remote, send, wmu, tx, pongs, breaks>>

\* 45 s without a frame: the peer would have sent an empty block by then.
Watchdog ==
    /\ net = "frozen"
    /\ net' = "down"
    /\ UNCHANGED <<fileVars, local, remote, send, wmu, tx, rx, flight, shown, pongs, breaks>>

\* A new connection has a new goroutine, channel and offset at the peer.
Redial ==
    /\ viewer = "remote" /\ net = "down"
    /\ net' = "up"
    /\ remote' = [file |-> <<0, 0>>, off |-> 0]
    /\ send' = [s \in Sender |-> NoSend] /\ wmu' = Nobody
    /\ tx' = 0 /\ rx' = 0 /\ flight' = <<>> /\ pongs' = 0
    /\ UNCHANGED <<fileVars, local, shown, breaks>>

NetFails ==
    /\ net = "up" /\ breaks < MaxBreak
    /\ \E n \in {"frozen", "down"} : net' = n
    /\ breaks' = breaks + 1
    /\ UNCHANGED <<fileVars, local, remote, send, wmu, tx, rx, flight, shown, pongs>>

TailWork ==
    \/ LocalLook \/ LocalRead
    \/ TailPoll \/ TailRecv \/ Watchdog \/ Redial
    \/ \E s \in Sender : SendLock(s) \/ SendWrite(s)
TailNext == TailWork \/ WriteLine \/ Pong \/ NetFails

TailSpec == TailInit /\ [][TailNext]_tailVars

-----------------------------------------------------------------------------
(* When nothing more is written the viewer has come to the last line:      *)
(* no rotation, midnight, frozen or broken connection, and no other frame  *)
(* on the channel, leaves a stream behind for good (tail.go:60-63 and      *)
(* 197-200, channel.go:320, web.go:701-703).                               *)
LastLine == <<cur, log[cur]>>
Follows  == <>[](log[cur] > 0 => shown = LastLine)
=============================================================================
