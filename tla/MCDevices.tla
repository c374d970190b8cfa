----------------------------- MODULE MCDevices -----------------------------
(***************************************************************************)
(* The daemon's care of its devices, for TLC: their names, the list of     *)
(* those that are paused, the bytes they send and the facts that are known *)
(* of them.  The four have no state in common, and a behaviour chooses one *)
(* of them.                                                                *)
(***************************************************************************)
EXTENDS BoardNames, PauseFile, LineFeed, FactStore

VARIABLE part   \* the part at work

deviceRunVars == <<part, boardVars, pauseVars, feedVars, factVars>>
AtBoards == part = "boards" /\ UNCHANGED <<part, pauseVars, feedVars, factVars>>
AtPause  == part = "pause" /\ UNCHANGED <<part, boardVars, feedVars, factVars>>
AtFeed   == part = "feed" /\ UNCHANGED <<part, boardVars, pauseVars, factVars>>
AtFacts  == part = "facts" /\ UNCHANGED <<part, boardVars, pauseVars, feedVars>>

\* Three boards of one model whose tokens collide.
SameBase  == [k \in Key |-> "esp32"]
SameToken == [k \in Key |-> "x7k2"]

\* Each part starts once, not once per start of the others.
DevicesInit ==
    /\ part \in {"boards", "pause", "feed", "facts"}
    /\ BoardInit /\ PauseInit /\ FeedInit /\ FactInit
    /\ part # "pause" => Absent
    /\ part # "feed" => ~ tap
DevicesNext == \/ AtBoards /\ BoardNext
               \/ AtPause /\ PauseNext
               \/ AtFeed /\ FeedNext
               \/ AtFacts /\ FactNext

(***************************************************************************)
(* Fairness: the watch loop ticks, and a goroutine that waits for colMu or *)
(* is inside a tick or an edit goes on.                                    *)
(***************************************************************************)
BoardsRun ==
    /\ WF_deviceRunVars(AtBoards /\ Enumerate("watch", plugged))
    /\ \A t \in Ticker :
          /\ SF_deviceRunVars(AtBoards /\ LockDiff(t))
          /\ WF_deviceRunVars(AtBoards /\ Sweep(t))
          /\ \A k \in Key : WF_deviceRunVars(AtBoards /\ (MeetAgain(t, k) \/ StartCollector(t, k)))
PauseRuns ==
    /\ \A e \in Editor :
          WF_deviceRunVars(AtPause /\ (EditRemove(e) \/ EditTruncate(e)
                                       \/ EditWrite(e) \/ EditLost(e)))
    /\ \A r \in Reloader :
          WF_deviceRunVars(AtPause /\ (Clear(r) \/ Changed(r) \/ Load(r) \/ ReplaceWith(r)))

DevicesSpec == DevicesInit /\ [][DevicesNext]_deviceRunVars /\ BoardsRun /\ PauseRuns
=============================================================================
