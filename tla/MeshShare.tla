----------------------------- MODULE MeshShare -----------------------------
(***************************************************************************)
(* Files that travel over the mesh (internal/mesh/upload.go and the parts  *)
(* of node.go that look after them).  A remote flash uploads its images in *)
(* chunks, each acknowledged, and then asks for the flash, which consumes  *)
(* them; a remote dump leaves its product in a directory of its own, with  *)
(* a token to download it once, which the sweep, Close or the download     *)
(* takes away together with the directory.                                 *)
(*                                                                         *)
(* A session (the random sid or directory name) belongs to one client.     *)
(* Connections break at any time, writes fail, the serving node is closed  *)
(* or dies; what it leaves is swept at a later start.                      *)
(***************************************************************************)
EXTENDS Naturals, Sequences

CONSTANTS Client,     \* remote commands
          Files,      \* images of one flash
          MaxChunk,   \* bound: chunks per image
          SidCap,     \* uploadSidCap, in chunks
          MaxRestart  \* bound: starts of the serving node after the first

ASSUME ShareAssumption ==
    /\ Files \in Nat \ {0} /\ MaxChunk \in Nat \ {0}
    /\ SidCap \in Nat /\ MaxRestart \in Nat

VARIABLES job,      \* the client: its command, its step, the images' sizes,
                    \* the image and the chunk it is at
          ack,      \* per client: the answer to its chunk
          srv,      \* the handler of the client's request or download
          stored,   \* .flash-upload/mesh-<sid>: per image the chunks written
          upBytes,  \* Node.upBytes, in chunks
          dir,      \* .mesh-share/<random>: "none", "empty" or "file"
          dlAuth,   \* Node.dlAuth: tokens, named by their client
          sweeping, \* products whose token a sweep or Close has taken
          ro,       \* the node is read-only
          share,    \* the node: "up", "closed" or "down"
          restarts

serverVars == <<srv, stored, upBytes, dir, dlAuth, sweeping>>
nodeVars   == <<ro, share, restarts>>
shareVars  == <<job, ack, serverVars, nodeVars>>

File  == 1 .. Files
Chunk == 0 .. MaxChunk
JobSteps == {"none", "send", "await", "request", "asked", "fetch", "fetching",
             "got", "failed"}

ShareTypeOK ==
    /\ job \in [Client -> [kind : {"flash", "dump"}, at : JobSteps,
                           size : [File -> Chunk], file : 1 .. Files + 1,
                           seq : Chunk]]
    /\ ack \in [Client -> {"none", "ok", "refused"}]
    /\ srv \in [Client -> {"idle", "run", "over", "reading", "removing"}]
    /\ \A c \in Client : stored[c] \in [File -> Seq(Chunk)]
    /\ upBytes \in [Client -> 0 .. SidCap]
    /\ dir \in [Client -> {"none", "empty", "file"}]
    /\ dlAuth \subseteq Client /\ sweeping \subseteq Client
    /\ ro \in BOOLEAN /\ share \in {"up", "closed", "down"}
    /\ restarts \in 0 .. MaxRestart

NoFiles == [x \in File |-> <<>>]

ShareInit ==
    /\ job \in [Client -> [kind : {"flash", "dump"}, at : {"none"},
                           size : [File -> 1 .. MaxChunk], file : {1}, seq : {0}]]
    /\ ack = [c \in Client |-> "none"]
    /\ srv = [c \in Client |-> "idle"]
    /\ stored = [c \in Client |-> NoFiles] /\ upBytes = [c \in Client |-> 0]
    /\ dir = [c \in Client |-> "none"]
    /\ dlAuth = {} /\ sweeping = {}
    /\ ro \in BOOLEAN /\ share = "up" /\ restarts = 0

JobAt(c, step) == [job EXCEPT ![c].at = step]
SrvAt(c, step) == [srv EXCEPT ![c] = step]

(***************************************************************************)
(* The client: remoteFlash with uploadSession, remoteBoardDump.            *)
(***************************************************************************)
Begin(c) ==
    /\ job[c].at = "none"
    /\ job' = JobAt(c, IF job[c].kind = "flash" THEN "send" ELSE "request")
    /\ UNCHANGED <<ack, serverVars, nodeVars>>

Acked_Bug(c) == ack[c] # "none"
Acked(c)     == ack[c] = "ok"

\* After the last chunk of an image the next image, after the last the flash.
NextChunk(j) ==
    IF j.seq + 1 < j.size[j.file] THEN [j EXCEPT !.at = "send", !.seq = @ + 1]
    ELSE [j EXCEPT !.at = IF j.file = Files THEN "request" ELSE "send",
                   !.file = @ + 1, !.seq = 0]

Await(c) ==
    /\ job[c].at = "await" /\ ack[c] # "none"
    /\ job' = IF Acked(c) THEN [job EXCEPT ![c] = NextChunk(@)] ELSE JobAt(c, "failed")
    /\ ack' = [ack EXCEPT ![c] = "none"]
    /\ UNCHANGED <<serverVars, nodeVars>>

\* A connection breaks, or an answer is an error: the command gives up.
GiveUp(c) ==
    /\ job[c].at \notin {"none", "got", "failed"}
    /\ job' = JobAt(c, "failed")
    /\ ack' = [ack EXCEPT ![c] = "none"]
    /\ UNCHANGED <<serverVars, nodeVars>>

(***************************************************************************)
(* The server: handleUpload.  The account is charged before the write.     *)
(***************************************************************************)
Write(x, seq, now) == [now EXCEPT ![x] = IF seq = 0 THEN <<0>> ELSE Append(@, seq)]

HandleUpload(c) ==
    LET over == upBytes[c] + 1 > SidCap IN
    /\ job[c].at = "send" /\ share = "up"
    /\ \/ /\ ro \/ over
          /\ ack' = [ack EXCEPT ![c] = "refused"] /\ job' = JobAt(c, "await")
          /\ UNCHANGED <<stored, upBytes>>
       \/ /\ ~ro /\ ~over
          /\ upBytes' = [upBytes EXCEPT ![c] = @ + 1]
          /\ \/ /\ stored' = [stored EXCEPT ![c] = Write(job[c].file, job[c].seq, @)]
                /\ ack' = [ack EXCEPT ![c] = "ok"] /\ job' = JobAt(c, "await")
             \/ job' = JobAt(c, "failed") /\ UNCHANGED <<stored, ack>>
    /\ UNCHANGED <<srv, dir, dlAuth, sweeping, nodeVars>>

(***************************************************************************)
(* The server: handleReq, and handleDownload.                              *)
(***************************************************************************)
\* A dump's directory is made before the read-only gate.
Request(c) ==
    /\ job[c].at = "request" /\ share = "up"
    /\ dir' = IF job[c].kind = "dump" THEN [dir EXCEPT ![c] = "empty"] ELSE dir
    /\ srv' = SrvAt(c, IF ro THEN IF job[c].kind = "flash" THEN "over" ELSE "idle"
                       ELSE "run")
    /\ job' = JobAt(c, IF ro THEN "failed" ELSE "asked")
    /\ UNCHANGED <<ack, stored, upBytes, dlAuth, sweeping, nodeVars>>

\* Forward returns; a dump may have written its file.
Forwarded(c) ==
    /\ srv[c] = "run"
    /\ srv' = SrvAt(c, "over")
    /\ \/ job[c].kind = "dump" /\ dir' = [dir EXCEPT ![c] = "file"]
       \/ UNCHANGED dir
    /\ UNCHANGED <<job, ack, stored, upBytes, dlAuth, sweeping, nodeVars>>

Answer(c, step) == job' = IF job[c].at = "asked" THEN JobAt(c, step) ELSE job

\* cleanupFlashUploads, whatever became of the flash ...
FlashOver(c) ==
    /\ srv[c] = "over" /\ job[c].kind = "flash"
    /\ stored' = [stored EXCEPT ![c] = NoFiles]
    /\ upBytes' = [upBytes EXCEPT ![c] = 0]
    /\ srv' = SrvAt(c, "idle")
    /\ Answer(c, "got")
    /\ UNCHANGED <<ack, dir, dlAuth, sweeping, nodeVars>>

\* ... and cleanup for a dump: a token, or the empty directory goes.
DumpOver(c) ==
    /\ srv[c] = "over" /\ job[c].kind = "dump"
    /\ \/ /\ dir[c] = "file"
          /\ dlAuth' = dlAuth \cup {c} /\ Answer(c, "fetch")
          /\ UNCHANGED dir
       \/ /\ dir[c] = "empty"
          /\ dir' = [dir EXCEPT ![c] = "none"] /\ Answer(c, "failed")
          /\ UNCHANGED dlAuth
    /\ srv' = SrvAt(c, "idle")
    /\ UNCHANGED <<ack, stored, upBytes, sweeping, nodeVars>>

\* The token is used up under the lock; an expired one goes with its product.
TakeToken_Bug(c) == UNCHANGED dlAuth
TakeToken(c)     == dlAuth' = dlAuth \ {c}

Download(c) ==
    /\ job[c].at = "fetch" /\ share = "up" /\ srv[c] = "idle"
    /\ IF c \in dlAuth
       THEN /\ TakeToken(c)
            /\ \E expired \in BOOLEAN :
                 /\ srv' = SrvAt(c, IF expired THEN "removing" ELSE "reading")
                 /\ job' = JobAt(c, IF expired THEN "failed" ELSE "fetching")
       ELSE job' = JobAt(c, "failed") /\ UNCHANGED <<srv, dlAuth>>
    /\ UNCHANGED <<ack, stored, upBytes, dir, sweeping, nodeVars>>

\* The last block is sent, or the client is gone.
ReadOver(c) ==
    /\ srv[c] = "reading"
    /\ srv' = SrvAt(c, "removing")
    /\ job' = IF job[c].at = "fetching" THEN JobAt(c, "got") ELSE job
    /\ UNCHANGED <<ack, stored, upBytes, dir, dlAuth, sweeping, nodeVars>>

RemoveAfter(c) ==
    /\ srv[c] = "removing"
    /\ dir' = [dir EXCEPT ![c] = "none"]
    /\ srv' = SrvAt(c, "idle")
    /\ UNCHANGED <<job, ack, stored, upBytes, dlAuth, sweeping, nodeVars>>

(***************************************************************************)
(* pruneDlAuth, Close, the end of the process and the next start.          *)
(***************************************************************************)
TakeTokens(taken) ==
    /\ sweeping' = sweeping \cup taken
    /\ dlAuth' = dlAuth \ taken
    /\ UNCHANGED <<job, ack, srv, stored, upBytes, dir, ro, restarts>>

Prune == /\ share = "up"
         /\ \E stale \in (SUBSET dlAuth) \ {{}} : TakeTokens(stale)
         /\ UNCHANGED share
CloseNode == /\ share = "up"
             /\ TakeTokens(dlAuth)
             /\ share' = "closed"

RemoveSwept(c) ==
    /\ c \in sweeping
    /\ dir' = [dir EXCEPT ![c] = "none"]
    /\ sweeping' = sweeping \ {c}
    /\ UNCHANGED <<job, ack, srv, stored, upBytes, dlAuth, nodeVars>>

\* Tokens, accounts and handlers are in memory only, connections break.
NodeEnds ==
    /\ share # "down"
    /\ share' = "down"
    /\ srv' = [c \in Client |-> "idle"] /\ upBytes' = [c \in Client |-> 0]
    /\ dlAuth' = {} /\ sweeping' = {}
    /\ job' = [c \in Client |-> IF job[c].at \in {"send", "await", "asked", "fetching"}
                                THEN [job[c] EXCEPT !.at = "failed"] ELSE job[c]]
    /\ ack' = [c \in Client |-> "none"]
    /\ UNCHANGED <<stored, dir, ro, restarts>>

\* startupSweep removes what is a day old; no command waits that long.
NodeStarts ==
    /\ share = "down" /\ restarts < MaxRestart
    /\ share' = "up" /\ restarts' = restarts + 1
    /\ \E old \in SUBSET {c \in Client : job[c].at \in {"got", "failed"}} :
        /\ stored' = [c \in Client |-> IF c \in old THEN NoFiles ELSE stored[c]]
        /\ dir' = [c \in Client |-> IF c \in old THEN "none" ELSE dir[c]]
    /\ UNCHANGED <<job, ack, srv, upBytes, dlAuth, sweeping, ro>>

ShareNext ==
    \/ \E c \in Client :
        \/ Begin(c) \/ Await(c) \/ GiveUp(c) \/ HandleUpload(c) \/ Request(c)
        \/ Forwarded(c) \/ FlashOver(c) \/ DumpOver(c) \/ Download(c)
        \/ ReadOver(c) \/ RemoveAfter(c) \/ RemoveSwept(c)
    \/ Prune \/ CloseNode \/ NodeEnds \/ NodeStarts

ShareSpec == ShareInit /\ [][ShareNext]_shareVars

-----------------------------------------------------------------------------
(* A flash that runs for a remote client finds every image whole and in    *)
(* order: a chunk that was refused, lost or not written stops the command  *)
(* before it asks for the flash (upload.go:207-208).                       *)
Whole(c) == \A x \in File : /\ Len(stored[c][x]) = job[c].size[x]
                            /\ \A k \in 1 .. Len(stored[c][x]) : stored[c][x][k] = k - 1
FlashesWhole ==
    \A c \in Client : srv[c] = "run" /\ job[c].kind = "flash" => Whole(c)

(* While a product is read for its download nothing removes it, neither    *)
(* the sweep nor Close nor a second download (upload.go:132-134).          *)
ServedAlone ==
    \A c \in Client : srv[c] = "reading" => dir[c] = "file" /\ c \notin sweeping
=============================================================================
