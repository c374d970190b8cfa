------------------------------ MODULE PauseFile ------------------------------
(***************************************************************************)
(* The list of devices that may not be opened: the file PAUSED, edited by  *)
(* processes of the command line and by the daemon's own ResumeAll         *)
(* (internal/pause: PauseCLI), and the daemon's copy of it, which a tick   *)
(* reloads when the file's modification time has changed                   *)
(* (internal/daemon: reloadPause).                                         *)
(*                                                                         *)
(* os.WriteFile truncates the file and then writes it, so there is a       *)
(* moment at which it is there and empty.  Every change gives the file a   *)
(* modification time it has not had, and a file that is there can be read. *)
(***************************************************************************)
EXTENDS Naturals

CONSTANTS Pattern,  \* lines of the file
          Editor,   \* calls of PauseCLI
          Reloader, \* goroutines that call Tick
          MaxEdits  \* bound: edits

ASSUME PauseAssumption == MaxEdits \in Nat

VARIABLES file, mtime,  \* PAUSED: its patterns, its time (0: there is no file)
          clock,        \* the last modification time given
          edit,         \* per editor: its step and what it is going to write
          pats,         \* daemon.pause
          pauseMTime,
          reload,       \* per reloader: its step and what it has read
          edits

pauseVars == <<file, mtime, clock, edit, pats, pauseMTime, reload, edits>>

Absent == mtime = 0

PauseTypeOK ==
    /\ file \subseteq Pattern
    /\ clock \in Nat /\ mtime \in 0 .. clock /\ pauseMTime \in 0 .. clock
    /\ Absent => file = {}
    /\ edit \in [Editor -> [at : {"idle", "edit", "write", "lost"}, lines : SUBSET Pattern]]
    /\ pats \subseteq Pattern
    /\ reload \in [Reloader -> [at : {"idle", "load", "replace"}, read : SUBSET Pattern]]
    /\ edits \in 0 .. MaxEdits

\* New: the daemon starts with the file as it is.
PauseInit ==
    /\ file \in SUBSET Pattern /\ clock = 1
    /\ mtime \in (IF file = {} THEN {0, 1} ELSE {1})
    /\ pats = file /\ pauseMTime = mtime
    /\ edit = [e \in Editor |-> [at |-> "idle", lines |-> {}]]
    /\ reload = [r \in Reloader |-> [at |-> "idle", read |-> {}]]
    /\ edits = 0

-----------------------------------------------------------------------------
(* PauseCLI. *)

\* It reads the file: the lines it is going to write are with or without its
\* patterns.
EditRead(e, arg) ==
    /\ edit[e].at = "idle" /\ edits < MaxEdits
    /\ edits' = edits + 1
    /\ \/ edit' = [edit EXCEPT ![e] = [at |-> "edit", lines |-> file \cup arg]]
       \/ edit' = [edit EXCEPT ![e] = [at |-> "edit", lines |-> file \ arg]]
    /\ UNCHANGED <<file, mtime, clock, pats, pauseMTime, reload>>

EditRemove(e) ==
    /\ edit[e].at = "edit" /\ edit[e].lines = {}
    /\ file' = {} /\ mtime' = 0
    /\ edit' = [x \in Editor |-> CASE x = e -> [edit[x] EXCEPT !.at = "idle"]
                                  [] edit[x].at = "write" -> [edit[x] EXCEPT !.at = "lost"]
                                  [] OTHER -> edit[x]]
    /\ UNCHANGED <<clock, pats, pauseMTime, reload, edits>>

PutFile(lines) == file' = lines /\ clock' = clock + 1 /\ mtime' = clock + 1

EditTruncate(e) ==
    /\ edit[e].at = "edit" /\ edit[e].lines # {}
    /\ PutFile({})
    /\ edit' = [edit EXCEPT ![e].at = "write"]
    /\ UNCHANGED <<pats, pauseMTime, reload, edits>>

\* It writes from the beginning: of what another call has written since it was
\* truncated, the end may stay behind.
EditWrite(e) ==
    /\ edit[e].at = "write"
    /\ edit' = [edit EXCEPT ![e] = [at |-> "idle", lines |-> {}]]
    /\ \E rest \in SUBSET file : PutFile(edit[e].lines \cup rest)
    /\ UNCHANGED <<pats, pauseMTime, reload, edits>>

\* The file was removed by another call and is written where nobody finds it.
EditLost(e) ==
    /\ edit[e].at = "lost"
    /\ edit' = [edit EXCEPT ![e] = [at |-> "idle", lines |-> {}]]
    /\ UNCHANGED <<file, mtime, clock, pats, pauseMTime, reload, edits>>

-----------------------------------------------------------------------------
(* reloadPause. *)

\* Stat finds no file.
Clear(r) ==
    /\ reload[r].at = "idle" /\ Absent
    /\ pats' = {} /\ pauseMTime' = 0
    /\ UNCHANGED <<file, mtime, clock, edit, reload, edits>>

\* Stat finds another time: it is noted before the file is loaded.
Changed(r) ==
    /\ reload[r].at = "idle" /\ ~ Absent /\ mtime # pauseMTime
    /\ pauseMTime' = mtime
    /\ reload' = [reload EXCEPT ![r].at = "load"]
    /\ UNCHANGED <<file, mtime, clock, edit, pats, edits>>

\* LoadPauseFile; a file that is no longer there is an empty list, or an error
\* that leaves the old one.
Load(r) ==
    /\ reload[r].at = "load"
    /\ \/ reload' = [reload EXCEPT ![r] = [at |-> "replace", read |-> file]]
       \/ Absent /\ reload' = [reload EXCEPT ![r].at = "idle"]
    /\ UNCHANGED <<file, mtime, clock, edit, pats, pauseMTime, edits>>

\* The bug: the time is taken when the list has been replaced.
ReplaceWith_Bug(r) ==
    /\ reload[r].at = "replace"
    /\ pats' = reload[r].read /\ pauseMTime' = mtime
    /\ reload' = [reload EXCEPT ![r] = [at |-> "idle", read |-> {}]]
    /\ UNCHANGED <<file, mtime, clock, edit, edits>>
ReplaceWith(r) ==
    /\ reload[r].at = "replace"
    /\ pats' = reload[r].read
    /\ reload' = [reload EXCEPT ![r] = [at |-> "idle", read |-> {}]]
    /\ UNCHANGED <<file, mtime, clock, edit, pauseMTime, edits>>

PauseNext ==
    \/ \E e \in Editor : \/ \E arg \in SUBSET Pattern \ {{}} : EditRead(e, arg)
                         \/ EditRemove(e) \/ EditTruncate(e)
                         \/ EditWrite(e) \/ EditLost(e)
    \/ \E r \in Reloader : Clear(r) \/ Changed(r) \/ Load(r) \/ ReplaceWith(r)

-----------------------------------------------------------------------------
(* Properties. *)

\* What the operator has last written comes to be in force, and stays: no edit
\* that falls into a reload is taken for the one that was loaded.
InForce == <>[](pats = file)
=============================================================================
