# A specification of serialtap

serialtap is a resident daemon that collects the serial output of every board
plugged into a machine, hands a port over to tools that need it (esptool, a
passthrough client, a port reset), and shares boards between machines over an
authenticated mesh. This directory holds TLA+ models of it, the TLC
configurations that check them on small instances, and TLAPS proofs of the
properties that matter most for every size.

The models are translated from the Go code, named after it, and cover its
control: every state change, guard, early return and error path of the parts
below, one action for each critical section, blocking call or handler. Lines,
bytes, names and messages are only as detailed as a property needs.

Source paths are relative to `src/internal/` unless they name a file at the top
of the repository. `PROJECT.json` maps each definition to the lines it stands
for, and lists the runs, mutants, hazards, findings and theorems.

1. [The system](#1-the-system)
2. [The modules](#2-the-modules)
3. [What the runs check](#3-what-the-runs-check)
4. [Bounds](#4-bounds)
5. [Fairness](#5-fairness)
6. [Mutants](#6-mutants)
7. [What is proved](#7-what-is-proved)
8. [Findings](#8-findings)
9. [What the models leave out](#9-what-the-models-leave-out)
10. [What could come next](#10-what-could-come-next)

To run: `tlc -config <run>.cfg <module>.tla`, with the module of the table in
section 3, and `tlapm <module>Proofs.tla`.

## 1. The system

### Goroutines and what they share

    cmdRun (cli)  --- Tick, Sweep every poll --->  Daemon   (colMu, d.mu, proxyMu, opMu)
      |                                              |  creates, stops, resumes
      |                                              v
      |                                          Collector.Run   one per device, owns the port
      |                                              |  WriteLine, WriteEvent
      |                                              v
      |                                          DeviceWriter    one directory per device
      +-- ctl.Server ---- one goroutine per client --+
      +-- web panel ----- one goroutine per request -+--> the operations of Daemon:
      +-- mesh.Node ----- one goroutine per peer ----+    release, flash, board, reset, reopen,
                                                          resume, proxy start and stop
      proxy accept loop   one per endpoint  --> AttachProxy
      proxy pump          one per client    --> port, DetachProxy

The watcher (`Tick`) does not take `opMu`: it creates, removes and resumes
collectors while a request is at work on them. Most of what is hard here
comes from that, and from the window between asking a collector to let go of
its port and its having done so.

### Components

| component | state | operations | what is hard | what makes it correct | module |
|---|---|---|---|---|---|
| collector loop, suspend/resume (`collector/`) | `held`, `portOpen`, `state`, `reopenReq`, `curPort`, the stop channel; `Run`'s backoff | `Run`, `collectOnce`, `Suspend`, `Resume`, `SetFlashing`, `Reopen`, `Stop` | the port is opened before `portOpen` says so (#72); a `Suspend` that gives up (#55); a stop during any wait | whoever was told the port is free has it alone; no hold without an owner; collection returns | `CollectorLoop`, `SuspendResume` |
| daemon port operations (`daemon/flash.go`, `reset.go`, `board.go`) and watcher (`daemon.go`) | `opMu`, `releases`, `collectors`, `misses` | `Release`, `Flash`, `Board`, `Reset`, `Reopen`, `ResumeAll`, `Tick` | a snapshot taken before the lock; several devices, one of which fails; a release that expires, a board unplugged meanwhile | the tool alone on the port; requests and releases end; no hold left behind | `PortHandover` |
| passthrough bridge (`daemon/proxy.go`, `collector/proxy.go`) | `proxies`, the client slot | `ProxyStart`, `ProxyStop`, accept loop, `AttachProxy`, `DetachProxy`, pump, mirror | four goroutines detach the same slot; Accept against stop; a silent client | one client at a time; one listener per key; a client that leaves frees the slot | `ProxyBridge` |
| log store (`logstore/`) | day, open files, sizes, suffix counters, `closed` | `WriteLine`, `WriteEvent`, `Close`, `SweepRetention` | restart in the middle of a day (#5); late writes (#58); opens that fail | files read in order give the lines in order; files stay bounded | `LogStore` |
| device naming (`daemon/daemon.go`) | names in use, misses | `Tick`, `dedupeName`, fast swap | boards of one model, one replaced in the debounce (#72); two tickers, of which one acts on an old enumeration | one name per board, none lost; a successor inherits; the set of collectors settles | `BoardNames` |
| pause list (`pause/`, `reloadPause`) | PAUSED, its copy and modification time | `PauseCLI`, `reloadPause` | an edit inside a reload; truncate and write in two steps | what was written last comes into force | `PauseFile` |
| line assembly, event recognition (`collector/`, `signature/`) | the unfinished line | `feed`, `flush`, `matchSig` | lines across reads, the longest tail, the end of a session | every byte once and in its place | `LineFeed` |
| device facts (`facts/`) | facts with their origin, `info.json` | `Feed`, `FeedProbe`, `Open`, `SeedFromLog` | the log is fed again at each start; a board command outlives a collector | a restart forgets nothing, and brings no old value back | `FactStore` |
| mesh pairing (`mesh/pairing.go`, `node.go`) | the peer table and its file, the connections of each peer | `Knock`, `Approve`, `Revoke`, `serveConn`, `dropPeerConns`, `Close` | a decision between handshake, registration and gate; a save that fails; crash and restart | a revoked peer is cut off; decisions last; Close ends | `MeshAccess` |
| mesh links, discovery (`link.go`, `registry.go`, `beacon.go`) | registry, `links`, the loops | `ensureLink`, `run`, `linkOnce`, expiry | a loop that removes itself while a beacon revives it (#57); a peer that moves | no peer that asked is forgotten; a willing peer is linked again | `MeshLinks` |
| mesh tunnels (`tunnel.go`) | tunnels per pattern, endpoints | `OpenTunnel`, `CloseTunnel`, `handleDial`, `bridge` | the tunnel breaks between any two steps on two machines | an endpoint is given back; a hang-up ends both sides | `MeshTunnels` |
| files over the mesh (`upload.go`) | uploads, products, tokens | `handleUpload`, `handleReq`, `handleDownload`, the sweeps | a chunk lost, a restart between upload and flash; a sweep or a second download while one is served | no flash on half an image; a product is served alone | `MeshShare` |
| status and calls (`node.go`) | per call | `AggregateStatus`, `call`, `respond` | a peer that refuses, breaks off, freezes, answers late (#71) | what is reported is what was answered; every question ends | `MeshCall` |
| log tails (`tail.go`, `channel.go`, `web/`) | file and offset, the channel's counters | `handleTail`, `tailLiveDir`, `Send`, `Recv`, redialling | rotation and midnight; two senders on a channel (#54); a channel that is silent | the viewer comes to the last line | `LiveTail` |
| control socket (`ctl/`), command line (`cli/`), panel tasks (`web/flash.go`) | connections, the flash job and its subscribers, the way out | `Serve`, `handleConn`, `respond`, `Close`; `cmdFlash`; `handleFlash`, progress streams | a client that does not read (#56); Close against Accept (#14, #18); a retry after an unknown outcome | a frozen client frees `opMu`; no second flash after a success; streams end; nothing is served after Close | `FrontEnds` |
| configuration, enumeration, offline analysis, tray, vendored packages | none that lasts | parsing, system queries, presentation | | | not modelled |

### How they interact

- **Request and collector.** A request calls `Suspend` (set `held`, poll
  `portOpen`), uses the port, and calls `Resume`. The collector looks at `held`
  and PAUSED at the loop head, once more after the port is open, and on each
  turn of the read loop.
- **Watcher and collector.** `Tick` starts `Run`, calls `Stop` on removal and
  `Resume` when a release is over.
- **Request and watcher.** They share `d.collectors` (under `colMu`) and
  `d.releases` (under `d.mu`), and nothing orders them beyond that.
- **Bridge and collector.** `collectOnce` publishes the write entry of the port;
  the pump writes through it; the mirror copies what was read to the client.
- **Collector and log store.** All calls of the writer go through its mutex.
- **Collector, assembler, facts.** The read loop feeds the assembler, whose lines
  go to the facts and then to the log, in this order.
- **Control socket, web panel and mesh** translate messages to the same
  operations and add no locking of their own. The lines a tool prints go back
  to the client inside the operation, that is under `opMu`: a client that does
  not read is the concern of everyone else.
- **Nodes.** A connection carries one peer's frames: pair, ping, requests, dials,
  uploads, tails. Link loops dial out, `serveConn` answers; registry and peer
  table are what the two sides share.

## 2. The modules

| module | models | extends / instantiates |
|---|---|---|
| `PortOwnership` | the abstract promise: a port has at most one user, and users do not take it from each other | |
| `CollectorLoop` | the `Run` goroutine and the methods others call on it | |
| `SuspendResume` | one caller that keeps to the contract of `suspend.go` | extends `CollectorLoop`, implements `PortOwnership` |
| `PortHandover` | the daemon's requests and its watcher over collectors of several devices | extends `CollectorLoop`, implements `PortOwnership` |
| `LogStore` | one device's `DeviceWriter`, its directory, the clock, restarts and the sweep | |
| `ProxyBridge` | listeners, clients, the client slot, pump and mirror, hot-plug and Shutdown for one device key | |
| `BoardNames`, `PauseFile`, `LineFeed`, `FactStore` | the daemon's care of its devices | extended by `MCDevices` |
| `MeshAccess` | pairing, the serving side of a connection, and what `Close` waits for | extended by `MCAccess` |
| `MeshLinks`, `MeshTunnels`, `MeshShare`, `MeshCall` | the mesh beside the pairing | extended by `MCMesh` |
| `FrontEnds`, `LiveTail` | what a user sees of a running daemon | extended by `MCPanel` |
| `MCSuspendResume`, `MCPortHandover`, `MCProxyBridge`, `MCAccess`, `MCMesh`, `MCPanel`, `MCDevices` | instances for TLC | |
| `CollectorLoopProofs`, `SuspendResumeProofs`, `PortHandoverProofs`, `LogStoreProofs`, `MeshAccessProofs` | theorems and proofs | the module each is named after |
| `MeshProofs` | the same for tunnels, calls, links and shares | `MeshTunnels`, `MeshCall`, `MeshLinks`, `MeshShare` |
| `ClientProofs` | the same for what clients of a daemon see | `ProxyBridge`, `FrontEnds`, `LiveTail` |
| `DeviceProofs` | folds over sets and sequences; theorems about the care of devices | `BoardNames`, `FactStore`, `LineFeed` |

`MCMesh`, `MCPanel` and `MCDevices` put parts side by side that have no state in
common: a behaviour chooses one part at the start (`part`) and leaves the others
at rest. A product of them would only interleave what cannot meet. `MCPanel` has
a part for commands to another node, too, which take no `opMu` and so meet no
task. `MCAccess` has the link loops and the second user in different parts:
loops look at no decision, and what they have in common, `Close`, is in both.

### CollectorLoop

`pc` says where a collector's goroutine is; a step is one access to state that
another goroutine can see.

| `pc` | code |
|---|---|
| `top`, `hold` | the head of `Run`, `waitHeldCleared` |
| `opening`, `opened`, `recheck` | `OpenPort` / the port exists, nobody knows / published, second look at `held` and PAUSED (#72) |
| `reading` | the read loop |
| `closing`, `closed` | the deferred `Close` and the withdrawal of `portOpen` |
| `after`, `backoff` | what `Run` does with the reason, and its sleep |
| `exit`, `none` | the goroutine has ended / does not exist yet |

`handle` is the operating system's view: `open` from the successful open to the
close, `leaked` when `Close` failed twice. It is not `portOpen`, which is what
the collector tells the others; the properties are about the difference.
`reason` and `backoff` are `Run`'s locals, `nap` the sleep it is in. The silence
watchdog and the leak are switched by constants.

The methods are operators without a caller (`SuspendBegin`, `SuspendConfirm`,
`SuspendTimeout`, `Resume`, `SetFlashing`, `Stop`, `ReopenRequest`,
`ReopenClose`); the two modules that extend this one make them actions.
`Suspend` is three of them, because it polls: between the setting of `held` and
each poll anything may happen.

### SuspendResume

One caller per collector goes from `idle` through `polling` (inside `Suspend`)
to `owner` (it returned true) and perhaps `flashing`. `Stop`, `Reopen` (its two
halves are two steps) and changes of PAUSED come at any time. The abstract
`owner` of `PortOwnership` is `caller` for an owner and `collector` while the
read loop runs: a step in which one takes the port from the other refutes the
refinement.

### PortHandover

Requests are goroutines `o \in Op`; `at[o]` is the request's step. Devices are
numbers, whose order is the order of the keys in which `matches` sorts.

| step | code |
|---|---|
| `Begin` | the arrival and `matches()`, a snapshot of collectors taken before `opMu` |
| `TryLock`, `Refused` | `opMu.TryLock`, refused at once when taken |
| `Revoke` | Flash and Board forget the releases of all their devices |
| `NextDevice` | the loop over devices; Reset forgets this device's release |
| `CallSuspend`, `SuspendTrue`, `SuspendFalse` | `Suspend`, and both of its ends: Release skips the device, the others return |
| `Record` | Release writes `d.releases` |
| `StartTool`, `EndTool` | esptool or pnputil runs; it may fail |
| `GiveBack`, `GiveBackAndFail` | `Resume`, and the return after a failure |
| `GiveUp` | Board's refused plan, Reset of a device without a USB instance |
| `ReopenDevice` | `Reopen` in its two halves |
| `SnapReleases`, `ResumeDevice`, `DropRelease` | `ResumeAll` |

The watcher is `Tick` cut at its critical sections: `Enumerate` (before `colMu`),
`Diff` (under it: new collectors, misses, removals), `ReloadPause`,
`ScanReleases` (under `d.mu`), then for each release that is over `DropOver` and
`ResumeOver`, which run after `d.mu` was given up. A release is `forever`,
`timed`, or `idle`, which turns `quiet` before it ends; deadlines are
nondeterministic, since nothing relates them to the speed of a request.

A device that returns gets a new collector `<<k, i>>`; the old one's goroutine
may still be running, and a request may still have it in its snapshot.

### LogStore

The writer is a record with the fields that decide: `closed`, `day`, the number
of the file open on each channel (`Nil` for none), its size, and the suffix
counter. `files` and `len` are the directory, `log` the history of all lines
written, each by the file it went to: what the properties speak of, never
read by an action. A call is one action, because the writer's mutex covers it;
`ensureDayLocked` is `Ready` and `ReadyFiles`, used by each of them.
`HighestSuffix` is the probing loop of the code: the last suffix before the
first one missing. `Restart` is a new `DeviceWriter` on the directory as it is.

### ProxyBridge

One device key through its incarnations. Each connection carries its state on
the server side, whether its client has gone, and its pump's state; the slot is
`proxyConn`. `DetachProxy` empties the slot under the lock, `CloseDetached` is
the `Close` after the unlock. The mirror loads the slot and writes to what it
has loaded later. `ProxyStart` and `ProxyStop` begin with the snapshot of
`matches` (`Matches`) and go on under `proxyMu`, from which the snapshot may be
one of a collector removed meanwhile. `Unplug`, `UnplugCloses` and
`UnplugDetaches` are `removeCollectorLocked` under `colMu`: the endpoint leaves
the map, is closed, then the slot is emptied. A connection the kernel has
completed before `Accept` is `dialed`; closing the listener resets it.

### MeshAccess

A connection is a goroutine of `serveConn` and goes through `Accept`, `Register`
(the table of connections that `Close` sweeps, under the lock that looks at
`closed`), `Handshake`, `Knock` (which saves), `Track` (`trackPairConn`), and
then the gate for each frame: `PairFrame`, `Gate`, `Return`, a tail with a
goroutine of its own (`TailEnd`). Users are `Admin`: `Resolve` looks up the
selector and unlocks; `ApproveDecide` or `RevokeDecide` change the table and save
it; `DropSnap` copies the peer's connections and `DropClose` closes them. The
table is in memory (`f`) and in the file (`disk`); when a save fails, memory keeps
the approval or the revocation all the same, and only the user is told an error.
`told` is what a user has been told, the history the properties speak of.
`Crash` ends the process at any step, `Start` reads the file again and may drop
pending peers that are old.

`Close` waits for all that `Node.wg` counts (`Drained`): connections, their tails,
and `loop`, the link loops and the sweeper, of which here only matters whether
one runs or waits for the answer to a knock (`LoopStarts`, `LoopKnocks`,
`LoopKnocked`, `LoopEnds`); `MeshLinks` has them in full.

### MeshLinks

`LoopTop`, `RemoveSelf`, `Recheck`, `Dial`, `KnockAnswer`, `LinkLost`, `WaitOver`
are `run` and `linkOnce`, cut where another goroutine can come in between: a
loop whose registry entry is gone takes itself out of `links`, and looks again
(#57). `BeaconIn` writes the registry and `BeaconLink` is the `ensureLink` that
follows. `Incoming` and `CallPeer` are the other writers of the registry. The
peers move between addresses, stop, start, and change their mind. Seeds have
keys of their own, their address.

### MeshTunnels

Both ends of a tunnel: the initiator's `OpenAsks`/`OpenDone`, its local listener
and the goroutine of its one user; on the peer `DialStart` (`ProxyStart`),
`DialConnect`, `DialAck`, `PumpsEnd`, `DialStop` (the deferred `ProxyStop`, which
stops the endpoint of the device, whoever started it). `Drop` breaks a channel at any step. A second tunnel
may have the pattern, or the device, of the first.

### MeshShare

A client uploads its images chunk by chunk and then asks for the flash, or asks
for a dump and fetches the product with its token. `Begin`, `Await`, `GiveUp` are
the client; `HandleUpload`, `Request`, `Forwarded`, `FlashOver`, `DumpOver`,
`Download`, `ReadOver`, `RemoveAfter` the serving node; `Prune`, `RemoveSwept`,
`CloseNode`, `NodeEnds`, `NodeStarts` its sweep, its end and its next start, which
remembers the directories and nothing else.

### MeshCall

For each peer of the registry the waiting goroutine (`Report`, `TimeOut`) and the
calling one (`DialPeer`, `SendReq`, `RecvFrame`, `RecvFails`, `Deadline`); frames
are on their way in `line`, so that an answer may come after its deadline.
The peer passes the gate or refuses, sends responses, ends, breaks, or falls
silent.

### FrontEnds

Flash commands that dial, read answers, freeze, are killed and retry; the
connection's goroutine on the daemon with `respond`, its deadline and its `dead`
flag; the panel's tasks with their history, their subscribers and the streams
that show them; commands and tasks for another node, whose call (`CallSent`,
`FarPrints`, `FarAnswers`) may break (`FarIsLost`) or never end, while the other
node flashes (`FarStarts`, `FarEnds`) whether or not it can answer; and the way out of `cmdRun` (`WebClose`, `CtlClose`, `CtlClosed`).
All but those for another node meet in `op`, the holder of `opMu`. What a tool
does to ports is `PortHandover`, how a call gets there `MeshShare` and `MeshCall`.

### LiveTail

The writer goes from file to file (a suffix, a day). A viewer looks at them
locally (`LocalLook`, `LocalRead`: two looks at one file) or over a channel:
`TailPoll` on the peer, two senders that take the channel's lock for number and
write (`SendLock`, `SendWrite`), `TailRecv` with the receiver's counter, the
client's `Watchdog` and the `Redial` of the panel.

### BoardNames

A tick is `Enumerate` (outside the lock, possibly missing a board), `LockDiff`,
one step per board that is new (`StartCollector`, `StartFails` with the name given
back) or seen again, and `Sweep`. Two tickers, the watch loop and the tray, run
them side by side. Names are triples of base, token and counter; whether tokens
collide is a constant.

### PauseFile, LineFeed, FactStore

`PauseFile`: an edit reads the file and then removes it, or truncates and writes
it; a reload takes the time, compares, reads, and replaces the list, each a step.
`LineFeed`: `Turn` is a turn of the read loop with all that `feed` does to a chunk;
`Cut` (a fold over the buffer) yields
lines and a new tail, too long a tail leaves as a lump, a session's end flushes.
`FactStore`: `Collect` feeds a line, `LogLine` writes it, `LogOther` writes one that
was not fed (a proxy client's, or a half line), `FeedProbe` is a board command's,
and `Open` a new collector, which loads `info.json` and feeds itself
the last lines of the log again.

## 3. What the runs check

| run | module | states | shows |
|---|---|---|---|
| `SuspendResume` | `MCSuspendResume` | 14 430 | the contract is kept with stops, reopens, pauses, failing opens, reads and closes at any time |
| `PortHandoverHeld` | `MCPortHandover` | 733 440 | two clients, every request except Board, releases without an end, PAUSED changes |
| `PortHandoverLimited` | `MCPortHandover` | 86 374 | timed and until-idle releases: requests end, releases end, collection returns |
| `PortHandoverHotPlug` | `MCPortHandover` | 435 204 | a device that scans miss, comes back as a new collector, and is flashed meanwhile |
| `LogStore` | `LogStore` | 683 590 | rotations, a midnight, restarts, late calls, sweeps, opens and writes that fail |
| `ProxyBridge` | `MCProxyBridge` | 1 494 365 | two incarnations, two listeners, two clients, a caller, Shutdown: safety, with symmetry |
| `ProxyLive` | `MCProxyBridge` | 105 671 | one incarnation, two clients: liveness |
| `MeshAccess` | `MCAccess` | 883 296 | two connections of a peer, two users who decide on it, or one user and a link loop; saves that fail, Close, crashes, a restart |
| `MCMesh` | `MCMesh` | 232 359 | links, tunnels, shared files and calls, one part in each behaviour |
| `MCPanel` | `MCPanel` | 98 150 | a retrying flash command, two tasks, a stream, the way out; or a command for another node; or a log that is followed |
| `MCDevices` | `MCDevices` | 561 869 | names, PAUSED, the bytes of a session or facts |
| `LateResume` | `MCPortHandover` | | a violation, see section 8 |

The properties, by the question they answer:

*Who has the port?*
`OwnerSilencesCollector` (from `Suspend`'s true to `Resume` no byte is read),
`ToolHasPortAlone` (the same for the daemon's tools) and the refinement
`OwnershipSpec`, which is stronger: it also refuses a step that passes the port
from one user straight to the other.

*Who lets go of it again?* `NoOrphanHold`: a held collector is held for a request
at work on the device, a recorded release, or the watcher about to resume it.
`CollectionResumes`, `CollectionReturns`, `LimitedReleaseEnds`, `RequestsEnd` and
`RemovedCollectorEnds` are the same seen from later: nothing hangs, and
collection comes back. `Released`: no tool of a frozen, killed or cut-off client
keeps `opMu`.

*The log.* `SerialInOrder` (reading the files in order gives the lines in order,
across restarts), `SerialBounded`, `ClosedHoldsNoFile` (#58), and the action
property `WritesToDisk` (no line goes to a file the sweep has removed under the
handle). `NothingLost`: every byte of a session that gets to the assembler once
and in its place in the lines; what was read on the turn that finds a stop or a
hold does not get there (section 8). `Follows`: a viewer comes to the last line, over rotations, midnight and
broken or silent channels.

*The bridge.* `OneClient` (a client whose pump runs is the one in the slot, and
what is in the slot is open), `OneListener` (no listener that nobody would
close), and `GoneClientFreesSlot`, `DialIsAnswered`, `StopHangsUp`.

*Names, pauses, facts.* `NamesTrue` (names and the names taken agree, no two
boards share one), `SuccessorInherits`, `Settles` (once boards stop moving, they
are the ones collected from), `InForce` (the list that was written last is the one
in force, and stays), `FactsKept` (a start keeps what was known or betters it,
save for a fact of the log about which the log ends with a line that was never
fed: section 8).

*Who may use the mesh?* `RevokedIsCut`, `DecisionSurvives` (memory and file say
what a user was told), `CloseEnds` (`Close` is back, provided that each knock is
answered or its connection ends: section 8).

*Is the mesh there?* `NotForgotten` and `LinkedAgain` (links),
`EndpointGivenBack` and `HangUpEnds` (tunnels), `FlashesWhole` and `ServedAlone`
(files), `AnswerTrue` and `AsksEnd` (status of all nodes).

*Panel and socket.* `StreamEnds` (a progress stream learns the end of its task,
save for the dropped event of section 8, and provided that tasks on other nodes
end), `NotTwice` (a command whose tool has succeeded makes no further attempt,
unless its call to another node broke: section 8), `CutOff` (nothing is served after Close).

The type invariants (`TypeOK`, `LinksTypeOK`, ...) are proved where there are
proofs (section 7) and are not run beside them.

### Deadlock

Checked in the four runs of suspend and handover, in `LateResume` and in
`LogStore`. Elsewhere the system may stop: after Shutdown or once the
connections, incarnations, lines or bounds of the instance are used up the
bridge, the mesh, the panel and the device parts have nothing left to do.

## 4. Bounds

| constant | in runs | why enough |
|---|---|---|
| collectors (`SuspendResume`) | 1 | collectors share nothing with each other in that module |
| `Key` (`PortHandover`) | 1 | devices meet only in `opMu` and in the loop of one request. Two requests on one device are the worst case for the port, and `ToolIsAlone` is proved for any keys, and `NoOrphanHold` for any as long as nobody forgets a release it may not get to (section 7): with two devices Flash forgets the releases of all and may return at the first (section 8) |
| `Op` | 1 or 2 | a third request would be refused by `opMu` as the second is |
| `MaxInc` | 1, in `HotPlug` 2 | the collector that is removed and its successor; a third one differs from the second in nothing |
| `RemoveMissTicks` | 2 or 3 | 3 in the code. 2 in the run with hot-plug still has a miss that removes nothing and one that removes |
| `ReopenMin`, `ReopenMax` | 1..3, otherwise 1 | doubling, and the cap reached on the second failure by a value that is not a power of two |
| `MaxDay`, `MaxSuffix` (`LogStore`) | 2 | one midnight; two rotations, so that a suffix can be missing below another |
| `Rotate`, `MaxLines` | 2, 6 | lines for three full files; with fewer the counter that restarts from zero is not found out |
| `Retention` | 1 | yesterday's files go, today's stay |
| `Coll`, `Lsn`, `Conn`, `Caller` (bridge) | 2, 2, 2, 1 | a board and its successor, the endpoint of each, a client in the slot and one that is refused or comes late |
| `Peer`, `Conn`, `Admin` (`MeshAccess`) | 1, 2, 2 | peers share only the table, where each has a row of its own; two connections, one seen by a revocation and one not yet; two users who decide against each other. Proved for any |
| `MaxStart` | 1 | one restart from the file |
| `Loop` (`MeshAccess`) | 1 | loops do not meet; `Close` waits for each. `MCAccess` has it with one user, who is enough to let a connection serve when `Close` begins |
| `Id`, `Addr`, `Static`, `MaxLoop` | 1, 2, 1, 2 | a peer that moves to a new address, known by a seed and by beacons, with a loop for each; a loop that dies while its successor is made. `NotForgotten` is proved for any |
| `MaxMoves`, `MaxExpiry` | 3, 1 | go, come back elsewhere, change of mind; one expiry |
| `Tunnel`, `Pattern`, `Device` | 2, 2, 1 | a second tunnel by the same pattern or by another to the same device |
| `Client` (`MeshShare`) | 1 | a client has a directory, an account and a token of its own; clients meet in the node's states only. Proved for any |
| `Files`, `MaxChunk`, `SidCap` | 2, 2, 3 | a second image and a second chunk, and a cap that refuses the last one |
| `Asked` | 2 | one peer answers while another does not |
| `Client`, `Attempts`, `Task`, `Viewer` (`FrontEnds`) | 1, 2, 2, 1 | a command and its retry against two tasks for `opMu`; a stream over the end of one task and the begin of the next |
| `SockCap`, `ChanCap`, `HistCap` | 1 | every buffer full after one entry |
| `elsewhere` (`MCPanel`) | none or all | a command for another node has only the socket and the way out in common with the rest |
| `MaxDay`, `MaxSfx`, `MaxLines` (`LiveTail`) | 1, 1, 3 | a rotation, a midnight, a line after each |
| `MaxWire`, `MaxPong`, `MaxBreak` | 2, 1, 2 | two frames in the wrong order; a break, and another of the new channel |
| `Key`, `Ticker`, `MaxPlug`, `MaxGlitch`, `MaxFail` (`BoardNames`) | 3, 2, 4, 1, 1 | three boards whose bases and tokens all collide, so that the counter in the name is used; two tickers |
| `Pattern`, `Editor`, `MaxEdits` (`PauseFile`) | 2, 2, 3 | two edits that overlap a reload and each other, and one after them |
| `MaxTail`, `MaxChunk`, `MaxBytes` | 2, 3, 5 | every cut of every five bytes over two letters, return and newline, with a tail one too long |
| `Name`, `Value`, `DevKeys`, `MaxTold` | 2, 2, 1, 3 | a fact in two versions from any two sources, the limit of names passed; a line that was not fed after, before and between those that were |

`Kinds`, `Specs`, `MayMiss` and `MayPause` select what the clients and the world
do in a run. They are there to give each question the smallest instance that
answers it: with limited releases *and* flashes by two clients, `ToolHasPortAlone`
does not hold (`LateResume`), and so the runs in which it is checked say which
requests are absent. `PauseFile` has one reloader, the watch loop: with the tray's
`Tick` beside it `InForce` is false (section 8).

## 5. Fairness

Nothing is assumed about users, devices, clients or peers: requests, dials,
hot-plug, pauses, edits, read errors, answers and ends of releases' quiet periods
need not come.

- *Weak fairness of each goroutine's own steps* (`Loop`, `Request`, `Tick`,
  `OpStep`, `MirrorStep`, `ConnStep`, `LoopStep`, `DialStep`, `CallStep`, ...).
  Go's scheduler runs each runnable goroutine; every wait in these parts has a
  ticker, a deadline or a timeout: 1 s reads, the poll of `Suspend` and its
  deadline, the 200 ms write of the mirror, the 5 s write of `respond`, the
  timeout of a call. A wait that has none is not fair: a connection's goroutine
  waits for its peer as long as the socket is open (`MeshAccess.Hurry`), a silent
  user of a tunnel need not send, a peer that was asked need not answer
  (`MCMesh.CallsRun`), nor one at which a link loop has knocked (`LoopKnocked`),
  nor one that flashes for a command or a task (`FarAnswers`, `TaskFarEnds`).
  `CloseEnds` and `StreamEnds` name the premise they need of it
  (`KnocksAreAnswered`, `FarTasksEnd`); without it TLC refutes both.
- *Weak fairness of a failing read on a closed handle*: the driver returns an
  error at once.
- *Strong fairness of `OpenOk`*: a port that can be opened again and again (the
  device is there, nobody else holds it) is opened in the end. `OpenFail` stays
  possible each time, hence strong.
- *Strong fairness of the end of a release* (`PortHandover`): the deadline of a
  timed release passes whatever else happens, and a port that is quiet is seen
  to be quiet. It is not assumed that a client stops renewing a release;
  `LimitedReleaseEnds` has that exception in it.
- *`LoopFairSpec`* has only the collectors' part of it, for the run with
  hot-plug: no watcher need tick for a stopped collector to end.
- *Strong fairness of a beacon* of a peer that is up (`MCMesh.LinksRun`): beacons
  come every few seconds, but not while the listener is at work on one.
- *Strong fairness of a tool's end* (`MCPanel.FrontRuns`): a tool of this node that
  prints for ever is killed by `flash_timeout_s`, whatever the printing.
- *Strong fairness of `colMu`* (`MCDevices.BoardsRun`, `LockDiff`): Go's mutex hands
  itself to a waiter that has starved for 1 ms.
- *An editor that has begun ends*, by writing or by dying (`EditLost`), and the
  watch loop ticks with an enumeration that is complete once no more glitches
  come, which are bounded.

Safety properties of runs with a fair specification do not depend on it.

## 6. Mutants

An operator whose name ends in `_Bug` (or says what it does wrong, such as
`AttachProxy_KeepsRefused` and `Replaced_Oust`) is the definition before which it stands with a
plausible mistake: a guard dropped, a rollback forgotten, the old code of a fixed
issue. No specification uses them. Put in place of the definition, each makes
TLC refute the property `PROJECT.json` lists it for, in the run that checks the property.
Each property of a passing run has one.

## 7. What is proved

The theorems hold for all values of the constants that satisfy the assumptions
of the modules (`CollectorAssumption`, `HandoverAssumption`, `LogAssumption`,
`NoneAssumption`, `AccessAssumption`, `LinksAssumption`, `TunnelAssumption`,
`ShareAssumption`, `BoardAssumption`, `FactAssumption`, `FeedAssumption`,
`FrontAssumption`, `TailAssumption`), which TLC evaluates in the runs too: any number of
devices, requests, collectors, days, clients, peers, lines. All proofs are checked to
the last leaf. `PROJECT.json` lists the theorems with the properties they state.

**CollectorLoop.** `StepTypes`, `StepEffect` and `MethodTypes` say what a step of
the goroutine and a method do to the shared state, once for both modules above:
a step leaves `held` alone, `portOpen` is true exactly from `recheck` to
`closed`, and the read loop is entered only from the second look, not held.

**SuspendResume.** Inductive invariant `HandshakeInv`: the types; `portOpen` is
true exactly inside a session (`PublishedInSession`); a caller past the call of
`Suspend` has the collector held (`CallerHolds`); and the two properties. It is needed because
`OwnerSilencesCollector` alone says nothing of a collector in `opened`, between
the open and its publication, which is not in the read loop and may be in a
moment: `CallerHolds` is what stops it at `recheck`. From it: `TypeCorrect`,
`OwnerIsAlone`, `RollbackLeavesNoHold`, and `ImplementsOwnership`, the refinement
of `PortOwnership` (each step maps to a step or to a stutter). `BackoffIsFresh`
is inductive with the types alone.

**PortHandover.** `TypeCorrect`; `OneAtATime` (the mutex, for any number of
requests); `ToolIsAlone` from `HandoverInv`, under the assumptions `NoReleaseEnds`
(nobody releases, or only for good) and `MayMiss = FALSE`. These are the two cases in
which the property fails: `LateResume` is the counterexample without the one, and
`PortHandoverHotPlug` with `INVARIANT ToolHasPortAlone` without the other. The
invariant says that every device keeps its first collector and the watcher
resumes nothing (`StillPlugged`, `FirstCollectorOnly`); that a request's target is
that collector (`OnTarget`); and that the target is held from `CallSuspend` to
`Resume` and out of the read loop once `Suspend` has returned true (`Holds`).
Without `OnTarget` the last part would speak of a collector nobody reads with.
`ImplementsOwnership`: under the same assumptions the daemon's handover refines
`PortOwnership`. It uses the invariant in both states of a step: the tool starts
where no collector reads, and no collector enters its read loop where the tool
is on.

`HeldIsQuiet` and `OnlyTheWatcherTakesIt` have no such assumption: they say what
a request can rely on with limited releases and with boards that are missed and
come back. The collector it has suspended does not read while it is held; and it stays
held, and the one that is worked on, until the request gives it back, unless
`tickReleases` resumes the port's collector. So the late Resume is the only way
in which a collector that was suspended for a tool gets to read under it, and
what is left is a collector that was created later. `QuietInv` adds to the
types and the mutex that `portOpen` is true inside a session
(`PublishedInSession`), that a collector that runs has been created
(`StartedBefore`), so that a new one is not one a request works on, and that
a request at a port has a collector there (`InHand`).

`HoldsAreEnded` (`NoOrphanHold`) is proved under `ReleasesLast`: a request that
forgets a release gets to the port of that release. This is so if nobody
releases; or if nobody flashes, boards or resets; or without Board, if Flash has one
device only and a device keeps its collector (`MaxInc = 1`) or there is one
requester. Each case that is left out has a counterexample
(section 8), and the instances TLC checks the property on are inside. The invariant
`HoldInv` says who will end each hold (`HoldsEnd`): a release on
record, the watcher that is about to resume the port, the request that works on
that collector, or a flash that has it before it. The last one is needed because
`Flash` forgets the release in `revoke` and takes the device only in the next
steps: until then nothing but its own list speaks for the hold. The list must therefore be
right: a device on it has a collector there (`SnapTaken`), and with one
requester a held collector is the one on it (`SnapFresh`); with `MaxInc = 1`
there is no other.

**LogStore.** `TypeCorrect` includes that `HighestSuffix` always finds a value
(`HighestExists`, from the least missing suffix, by well-foundedness of the
naturals). `SerialOrdered` and `EventsOrdered` come from `ChannelInv`: today's
suffixes have no gap, and there are some only if the base file is full
(`NoGap`); a writer on today's files has the last suffix as its counter, and if
its open file is not the last one then it is the base file and full
(`Synced`), so that its next line goes to the next suffix; lines of today are in
files; the lines so far are in order. `InOrder` alone is not inductive: a writer
that reopens the base file after a restart keeps order only because that file
is full. `EventsOrdered` assumes `OpenMayFail = FALSE`, without which the `LogStore`
run refutes `EventsInOrder`. For the serial channel no such assumption is
needed, because a failed rotation leaves `serialF` nil and the next call looks
the counter up again. `SerialFilesBounded`, `ClosedStaysClosed`,
`LinesReachDisk` and `EventsTriedAgain` are the others, the
first three from `DiskInv` (nothing is dated later than today; open files
exist).

**ProxyBridge.** `TypeCorrect` needs `RemovalInv` (while a removal holds `colMu`
there is a collector to remove) beside the types. `EndpointIsTheListener` is
inductive with `DoomedInv` (the listener `proxyRemove` took out is still open
and no longer the endpoint). `OneClientAtATime` (`OneClient`) comes from
`ClientInv`: an open listener and a connection that came through one have a
collector to go to (`OriginInv`); a connection is in at the slot of that collector
exactly while it is attached (`SlotInv`); and only what was attached once has a
pump (`ConnInv`).

**FrontEnds.** `FrontTypesCorrect`: the unread answers of a connection, the
history of a job and the buffers of its subscribers stay in their bounds.
`ConnectionsAreCut` (`CutOff`: once `Close` has begun the only connections still
open are those that were just accepted, which `Serve` cuts) from `CutInv`: a
connection past `accepted` is registered, and one that was not accepted or is
gone is not open. `FlashedOnce` (`NotTwice`: a flash that has succeeded is not
tried again, unless a call to another node broke) from `FlashInv`, which relates a command, the connection's goroutine on
the daemon, the connection and the answers on it: a command that waits for its
next attempt has no open connection; while a tool works there are only its lines to
read; and what follows a success is its `ok` or the end of the connection, never a
failure. `Send` takes that end for a success too (section 8), which is what
keeps the command from flashing again. For another node the tool works there: its
success is in `flashed` before the answer is on its way, and the answer becomes a
failure only where the command joins `lost`.

**LiveTail.** `ViewerNeverGoesBack` and `FramesInStep`, for `TailSpec`, from
`TailInv`. What is shown, the lines of the frames, the line that is to be sent and
the end of the log are in this order, by day, suffix and place (`ViewInOrder`,
`LinesInOrder`): all other frames carry no line, and the writer's file is the newest
there is (`FilesInOrder`), so that `Latest` is what it appends to. The frame at the
receiver has the number that is due because a number is taken and its frame
written under the same hold of the lock (`NumbersInOrder`): the sender that has it
has the number after those on the way. A redial starts counters, frames and offset
again; the block it begins with ends at the end of the log, which is never behind
what is shown. That a stream also comes to the last line (`Follows`) is checked only.

**MeshAccess.** `DecisionsAreKept` from `DecisionInv`: the types, nobody decides or
serves while the node is down, and what was told is in the table and in the file. The
file matters because a save writes the whole table: a decision about one peer
saves what memory says of all. `RevokedIsCutOff` from `CutInv`: a connection that
may serve is among the tracked ones, so that whoever copies them sees it
(`ServesTracked`); and a connection at work for a peer that is told to be
revoked is going to be cut by a user who has yet to copy or has it in the copy
(`CutOrIdle`). A connection that has passed `trackPairConn` before the table was
looked at is what makes the first necessary.

**MeshLinks.** `NoneForgotten` from `LinksInv`: a peer in `heard` is in the
registry (`HeardKnown`), and the loop that `links` names has that key and goes on
(`LoopsGoOn`). The case that takes the work is `Recheck`: the loop has left the map,
and between its two looks a beacon may have come.

**MeshTunnels.** `EndpointsAreGivenBack` needs `AskedFirst` only: whoever has an
endpoint has a dial that will stop it.

**MeshShare.** `FlashesAreWhole` and `ProductsAreServedAlone` from `ShareInv`. Its
`Upload` says what is on the disk at each step of a client: all chunks of the
images before the one in hand, and of that one as many as have been
acknowledged; its `Product` that token, handler and sweep exclude each other, and that
neither of them exists before the client has asked. The two meet where a flash
of the one clears what the other's upload has stored: not before it has asked.

**MeshCall.** `AnswersAreTrue` from `CallInv`: an end frame is the last on its
line (`EndIsLast`), an answer that is good has been read to its end and holds
devices the peer sent (`GoodEnd`, `OkIsDevices`).

**BoardNames.** `NamesAreTrue` and `SuccessorsInherit`. A name is found by counting
up to the first free one; that there is one, is `SuffixFree`, by counting: of one
suffix more than there are names taken, one is free. The code's loop has no
bound and needs none.

**FactStore.** `FactsAreKept` (`FactsKept`) from `FactInv`: as long as no line was
lost before it got to the log and no board command wrote for a replaced collector
(`gap`), what is in memory is in `info.json`, and it is `Faithful` to the log with
the line on its way there: of the lines about a name that have the origin of what is
known, the last one has its value or was never fed. That makes the replay at a start harmless:
after each line of it, a fact is as it was or what the last line so far of
an origin as good says (`Replayed`, by induction over the lines replayed), and at the end of
the log the second is the first unless the origin is better or that last line was
never fed (`SeedKeeps`).

**LineFeed.** `NothingIsLost` (`NothingLost`: but for carriage returns, the bytes
of what left the assembler and of its tail are the bytes read, in order, and
only a lump has a line end inside) is inductive with the types; the work is in the
algebra of its folds. `Plain` and `BytesOf` of a concatenation are the
concatenation of both (`Concats`), and `CutWell`, by induction over the buffer, says
that the lines and the tail `Cut` makes are the bytes of the buffer, with no line
end left in any of them. From it follow the three cases: lines, too long a tail,
the end of a session.

*Folds and induction.* The folds of the community modules are chosen functions
on sets of places that are still to come. The first part of `DeviceProofs` proves that
the function exists (`FoldExists`), that the fold is any that obeys its equation
(`FoldIs`), and what one more element does (`FoldAppend`). The library's theorems for
induction take an operator as a parameter, which the provers cannot instantiate;
here induction is about a set: one that contains 0 and the successor of each
member below `n` contains all up to `n` (`UpToInduction`), and one that contains the
empty sequence and each member with one more element contains all sequences
(`AppendInduction`). Each use names the set of those for which its claim holds.

Only model-checked: the liveness properties, because fairness and `ENABLED` are out
of the prover's reach. These are `CollectionResumes`, `RequestsEnd`, `LimitedReleaseEnds`,
`CollectionReturns` and `RemovedCollectorEnds` of the port, `GoneClientFreesSlot`
of the bridge, and those of the mesh, the panel and the devices that say
what must happen in the end (`DialIsAnswered`, `StopHangsUp`, `CloseEnds`,
`LinkedAgain`, `HangUpEnds`, `AsksEnd`, `Released`, `StreamEnds`, `Follows`,
`Settles`, `InForce`). Every invariant and every action property of a passing run is
stated by a theorem, `ToolHasPortAlone`, `NoOrphanHold` and `EventsInOrder` under
the assumptions named above.

## 8. Findings

With a run that shows it:

- **`LateResume`** (`daemon/flash.go:176`). `tickReleases` lists the releases
  that are over under `d.mu` and resumes their collectors later, without `opMu`.
  A flash that begins in between revokes the release, suspends the collector,
  and loses its hold to the late `Resume` while esptool runs.

Shown by a small change of a configuration here:

- `daemon/daemon.go:214`: a device that enough scans in a row miss while it is
  being flashed is removed; its new collector, which nobody has suspended, opens
  the port under the tool (`ToolHasPortAlone` in `PortHandoverHotPlug`).
- `daemon/board.go:29`: Board forgets the releases of its devices before it
  validates its plan. If it refuses, released devices stay held without a
  release (`NoOrphanHold` with `Kinds = {"release", "board"}`). A Flash of several
  devices that returns at the first failure does the same to the others
  (`NoOrphanHold` with two keys and `Kinds = {"release", "flash"}`).
- `daemon/flash.go:274`, `daemon/reset.go:78`, `daemon/board.go:16`: the collectors
  to work on are looked up before `opMu` is taken (`flash.go:284`, `reset.go:85`,
  `board.go:23`). In between the board may be replugged and another request may
  release its new collector. The request then forgets that release (`flash.go:306`,
  `reset.go:97`) and suspends and resumes the old collector; the new one stays
  held, and nothing on record says so (`NoOrphanHold` in `PortHandoverHotPlug`
  with two requests and `Kinds = {"release", "reset"}`).
- `logstore/logstore.go:165`: a rotation of the events file that does not open
  counts nevertheless; the next one leaves a gap, and a restart continues below
  it and appends to older files (`EventsInOrder` in `LogStore`).

Found while modelling; `PROJECT.json` has each with its lines and the comment or
document it contradicts. The models contain these behaviours, and their
properties are stated so that they hold with them, unless noted in section 9:

- *Port and bridge.* What `Read` returned on the turn that also finds a stop or
  a hold is dropped (`collector.go:301`). No code ends a passthrough session
  when its port is yielded (`collector/proxy.go:52`). A client accepted before
  `ProxyStop` or a removal is attached after it (`daemon/proxy.go:96`); a pump or
  mirror whose session was ended by somebody else detaches the next client
  (`collector/proxy.go:131`).
- *Mesh links and calls.* A knock whose answer never comes parks its loop, and
  with it `Close`, which waits for the loop (`link.go:140`; without the premise
  `KnocksAreAnswered` TLC refutes `CloseEnds`); a link's backoff is never reset (`link.go:118`); a seed and the
  beacons of one peer make two loops (`node.go:179`); a frame is written without
  a deadline, so that a peer that does not read keeps a flash and `opMu`
  (`node.go:482`); refusals carry the id 1, which a later call skips
  (`node.go:335`).
- *Mesh pairing.* A `Revoke` whose save fails has changed the table in memory and
  does not cut the connections, and after a restart the file approves the peer
  again (`pairing.go:182`).
- *Tunnels and files.* A tunnel whose channel ends waits for its user
  (`tunnel.go:219`); a tunnel that ends stops the endpoint another uses
  (`tunnel.go:68`); a second tunnel of a pattern hides the first from
  `CloseTunnel` (`tunnel.go:172`); a dump that finishes while `Close` runs keeps its
  product (`node.go:233`).
- *Tails.* Lines written to a file between the last poll and the rotation are not
  sent (`tail.go:112`), or the end of a file is sent twice (`web.go:585`); a handler
  returns while its writer goroutine runs (`web/mesh.go:141`).
- *Socket, command line, panel.* A flash on another node whose call breaks after
  the tool has succeeded is taken for one that failed, and done again
  (`cli.go:1160`; without its exception TLC refutes `NotTwice`); a peer that freezes
  keeps the panel's task, its slot and its streams (`upload.go:243`; without
  `FarTasksEnd` TLC refutes `StreamEnds`). `Send` takes a daemon that goes away in the
  middle for a success (`ctl.go:284`); `Close` unlinks the socket of a successor
  (`ctl.go:241`); `node` is assigned after the handler that reads it is started
  (`cli.go:445`); a pause may be made twice (`cli.go:1277`); a full subscriber
  loses the done event (`web/flash.go:51`); two images cleaned to one name overwrite each other
  (`web/flash.go:266`).
- *Devices.* A reload between truncate and write of PAUSED lets paused ports be
  opened (`pause.go:126`); two edits lose one (`pause.go:76`); a reload that was
  overtaken puts the older list in force (`daemon.go:236`); two collectors write
  to one directory for a moment after a fast swap (`daemon.go:178`), which also
  hands one board's facts to another (`daemon.go:192`), and takes a board out
  after one miss (`daemon.go:163`); lines fed again at a start, a proxy client's and
  half lines among them, may replace facts the board told (`facts.go:263`; without
  `EndsUnfed` TLC refutes `FactsKept`); a board command writes the facts of a replaced
  collector over those of its successor (`daemon/board.go:56`).

## 9. What the models leave out

*Collector and handover.* The two reads in `Held() || Matches()` are
one step. A collector that has opened the port and has not published it when
`Suspend` looks holds the handle until its second look: the models have that
window (`opened`), and the properties are about reading, because the code
closes the port without reading in it; that another program's open fails during
these milliseconds is not a property here. The watcher of `PortHandover` is one
goroutine; `BoardNames` has the tray's `Tick` beside it. A request that a peer
sent over the mesh and whose lines the peer has stopped reading never ends
(`node.go:482`, section 8): neither `RequestsEnd` nor `Released` is about it. Locks are taken in the
order `colMu` before `proxyMu` and `d.mu` before `colMu`, without a cycle, and
are modelled only where a step between two of them matters.

*Log store.* The unit of size is a line; a write that fails leaves the file as
it was; the clock never goes back; `rotate_max_mb` is constant (with a larger
one after a restart the base file of today is not full any more and would be
written to although later suffixes exist). One writer per directory at a time:
after a fast swap the predecessor's collector may write its last lines while
the successor has opened the same directory.

*Bridge.* One device key. The `Close` after the unlock in `DetachProxy` is a
step by itself, not tied to the goroutine that detached. What is written to the
log of each direction is left out. The hold of a port is a session that may be
asked to end and may end at any time; `CollectorLoop` says when. Sessions that
are there at Shutdown end with the process.

*Devices.* `prevInst`, which only words a log line. Every edit gives PAUSED a
new modification time. A line tells one fact, the regular expressions of facts and
signatures are sets of lines, saves of `info.json` succeed. The lines of a tap
are those with a certain byte.

*Mesh.* The cryptography, the salt cache and the clock test of the handshake,
the frame format; names, selectors and their matching; the announcer of
beacons. A peer that is revoked may have a request that is already past the
gate and waits for `opMu`: it is not a serving connection once it is cut, and the
daemon may still run it; `RevokedIsCut` speaks of connections that are open. Of the ids of
responses only that a refusal is a refusal. The panel's pool of connections.

*Front ends.* `Listen`'s takeover of a socket file; flags, output and wording;
the panel's handlers that read files or pass a request on; how much of a log is
replayed first.

*Not modelled at all:* the parsing and formatting of `config`, `device`, `board`,
`flash` and `analyze` (pure functions over strings and tables, with no state to go
wrong), HTTP presentation, the tray's menu, platform code, vendored packages.

## 10. What could come next

- The salt cache of the channel as a bounded set with eviction, and that no
  handshake is accepted twice within its window.
- `Listen` and `Close` of two daemons on one socket path.
- Two boards in `PortHandoverLimited`, with one request over both.
