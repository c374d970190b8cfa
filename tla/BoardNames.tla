----------------------------- MODULE BoardNames -----------------------------
(***************************************************************************)
(* The names of the devices, which are also the names of their log         *)
(* directories (internal/daemon/daemon.go: Tick, dedupeName,               *)
(* removeCollectorLocked).  A tick enumerates the boards and then, under   *)
(* colMu, starts a collector for each board it has none for and removes    *)
(* those it has not seen for three ticks.  Boards of one model share a     *)
(* name: the first gets it bare, the next with a token of its identity.    *)
(*                                                                         *)
(* Ticks come from the watch loop and from the tray's menu; the            *)
(* enumeration is done outside the lock, so a tick may act on one that is  *)
(* older than what another tick has done since.  An enumeration may miss   *)
(* boards that are there (#59); one that fails altogether skips the tick.  *)
(* What removing a collector does to its port is in PortHandover.          *)
(***************************************************************************)
EXTENDS Naturals, FiniteSets, Functions

CONSTANTS Key,       \* boards, by their stable key
          Ticker,    \* goroutines that call Tick
          Base,      \* the name a board's model or configuration gives it
          Token,     \* the token of a board's key and by-id: they may collide
          MaxPlug,   \* bound: times a board is plugged in or pulled out
          MaxGlitch, \* bound: enumerations that miss a board
          MaxFail    \* bound: log directories that cannot be opened

ASSUME BoardAssumption ==
    /\ IsFiniteSet(Key)
    /\ DOMAIN Base = Key /\ DOMAIN Token = Key
    /\ MaxPlug \in Nat /\ MaxGlitch \in Nat /\ MaxFail \in Nat

removeMissTicks == 3
NoTicker == "none"

\* Names are <<base, token, count>>, the bare one with "" for the token.
Bare(k)        == <<Base[k], "", 0>>
Suffixed(k, i) == <<Base[k], Token[k], i>>

VARIABLES plugged,    \* the boards that are there
          coll,       \* daemon.collectors: the name per key it collects from
          namesUsed, misses, colMu,
          tick,       \* per ticker: its step, what it saw and has still to do
          spent       \* what has been used of the bounds

boardVars == <<plugged, coll, namesUsed, misses, colMu, tick, spent>>

BoardTypeOK ==
    /\ plugged \subseteq Key /\ DOMAIN coll \subseteq Key
    /\ misses \in [Key -> 0 .. removeMissTicks - 1]
    /\ colMu \in Ticker \cup {NoTicker}
    /\ tick \in [Ticker -> [at : {"idle", "seen", "diff"},
                            seen : SUBSET Key, todo : SUBSET Key]]
    /\ spent \in [plug : 0 .. MaxPlug, glitch : 0 .. MaxGlitch, fail : 0 .. MaxFail]

BoardInit ==
    /\ plugged = {} /\ coll = [k \in {} |-> ""] /\ namesUsed = {}
    /\ misses = [k \in Key |-> 0] /\ colMu = NoTicker
    /\ tick = [t \in Ticker |-> [at |-> "idle", seen |-> {}, todo |-> {}]]
    /\ spent = [plug |-> 0, glitch |-> 0, fail |-> 0]

-----------------------------------------------------------------------------
(* The boards. *)

Plug(k) ==
    /\ spent.plug < MaxPlug
    /\ plugged' = IF k \in plugged THEN plugged \ {k} ELSE plugged \cup {k}
    /\ spent' = [spent EXCEPT !.plug = @ + 1]
    /\ UNCHANGED <<coll, namesUsed, misses, colMu, tick>>

-----------------------------------------------------------------------------
(* A tick. *)

\* What an enumeration finds: all boards, or after a glitch some of them.
Enumerate(t, found) ==
    /\ tick[t].at = "idle" /\ found \subseteq plugged
    /\ \/ found = plugged /\ UNCHANGED spent
       \/ /\ found # plugged /\ spent.glitch < MaxGlitch
          /\ spent' = [spent EXCEPT !.glitch = @ + 1]
    /\ tick' = [tick EXCEPT ![t] = [at |-> "seen", seen |-> found, todo |-> found]]
    /\ UNCHANGED <<plugged, coll, namesUsed, misses, colMu>>

LockDiff(t) ==
    /\ tick[t].at = "seen" /\ colMu = NoTicker
    /\ colMu' = t
    /\ tick' = [tick EXCEPT ![t].at = "diff"]
    /\ UNCHANGED <<plugged, coll, namesUsed, misses, spent>>

Diffing(t) == tick[t].at = "diff" /\ colMu = t

dedupeName(k, used) ==
    IF Bare(k) \notin used THEN Bare(k)
    ELSE CHOOSE n \in {Suffixed(k, i) : i \in 1 .. Cardinality(used) + 1} \ used :
            \A i \in 1 .. n[3] - 1 : Suffixed(k, i) \in used

\* removeCollectorLocked, of the collectors with these keys.
Without(c, keys) == Restrict(c, DOMAIN c \ keys)
NamesOf(keys)    == {coll[k] : k \in keys}

\* The collectors a new board replaces: they hold its bare name, and the
\* enumeration no longer has them.
Replaced_Bug(k, seen) == {}
Replaced_Oust(k, seen) == {q \in DOMAIN coll : coll[q] = Bare(k)}
Replaced(k, seen) == {q \in DOMAIN coll \ seen : coll[q] = Bare(k)}

\* The turn of the loop over the enumerated boards that meets k.
Meeting(t, k) ==
    /\ Diffing(t) /\ k \in tick[t].todo
    /\ tick' = [tick EXCEPT ![t].todo = @ \ {k}]
    /\ UNCHANGED <<plugged, colMu>>

MeetAgain(t, k) ==
    /\ k \in DOMAIN coll /\ Meeting(t, k)
    /\ misses' = [misses EXCEPT ![k] = 0]
    /\ UNCHANGED <<coll, namesUsed, spent>>

\* A board it has no collector for: those it replaces go, whatever follows.
MeetNew(t, k) ==
    LET out == Replaced(k, tick[t].seen) IN
    /\ k \notin DOMAIN coll /\ Meeting(t, k)
    /\ misses' = [q \in Key |-> IF q \in out \cup {k} THEN 0 ELSE misses[q]]

StartCollector(t, k) ==
    LET out  == Replaced(k, tick[t].seen)
        used == namesUsed \ NamesOf(out)
        name == dedupeName(k, used)
    IN
    /\ MeetNew(t, k)
    /\ coll' = [q \in (DOMAIN coll \ out) \cup {k} |-> IF q = k THEN name ELSE coll[q]]
    /\ namesUsed' = used \cup {name}
    /\ UNCHANGED spent

\* NewDeviceWriter fails: the name is given back (#72).
StartFails_Bug(t, k) ==
    LET out  == Replaced(k, tick[t].seen)
        used == namesUsed \ NamesOf(out)
    IN
    /\ MeetNew(t, k) /\ spent.fail < MaxFail
    /\ spent' = [spent EXCEPT !.fail = @ + 1]
    /\ coll' = Without(coll, out) /\ namesUsed' = used \cup {dedupeName(k, used)}
StartFails(t, k) ==
    LET out == Replaced(k, tick[t].seen) IN
    /\ MeetNew(t, k) /\ spent.fail < MaxFail
    /\ spent' = [spent EXCEPT !.fail = @ + 1]
    /\ coll' = Without(coll, out) /\ namesUsed' = namesUsed \ NamesOf(out)

\* The loop over the collectors, at the end of which the lock is given up.
Sweep(t) ==
    LET gone == DOMAIN coll \ tick[t].seen
        out  == {k \in gone : misses[k] + 1 = removeMissTicks}
    IN
    /\ Diffing(t) /\ tick[t].todo = {}
    /\ misses' = [k \in Key |-> IF k \in out THEN 0
                                ELSE IF k \in gone THEN misses[k] + 1 ELSE misses[k]]
    /\ coll' = Without(coll, out)
    /\ namesUsed' = namesUsed \ NamesOf(out)
    /\ colMu' = NoTicker
    /\ tick' = [tick EXCEPT ![t] = [at |-> "idle", seen |-> {}, todo |-> {}]]
    /\ UNCHANGED <<plugged, spent>>

BoardNext ==
    \/ \E k \in Key : Plug(k)
    \/ \E t \in Ticker : \/ \E found \in SUBSET Key : Enumerate(t, found)
                         \/ LockDiff(t)
                         \/ \E k \in Key : \/ MeetAgain(t, k)
                                           \/ StartCollector(t, k)
                                           \/ StartFails(t, k)
                         \/ Sweep(t)

BoardSpec == BoardInit /\ [][BoardNext]_boardVars

-----------------------------------------------------------------------------
(* Properties. *)

\* No two devices that are collected from have one name, and so one log
\* directory, and the names taken are those of the devices: none is lost to a
\* directory that could not be opened (#72), to a removal or to a replacement.
\* It says nothing of a collector that has been replaced and told to stop: it
\* may still write to the directory of its successor (daemon.go:178).
NamesTrue ==
    /\ namesUsed = NamesOf(DOMAIN coll)
    /\ \A k, q \in DOMAIN coll : coll[k] = coll[q] => k = q

\* A board is given a suffixed name only while the bare one belongs to a
\* board that the same tick has seen: one that replaces another of its model
\* takes over its name and with it its directory, within the debounce too.
SuccessorInherits ==
    [][\A k \in DOMAIN coll' \ DOMAIN coll :
           coll'[k] # Bare(k) =>
               \E q \in DOMAIN coll, t \in Ticker :
                   /\ coll[q] = Bare(k)
                   /\ Diffing(t) /\ q \in tick[t].seen]_boardVars

\* Once boards come and go no more and enumerations are complete, it is
\* collected from exactly the boards that are there, whatever was missed or
\* acted upon too late before, and collectors do not oust each other for ever.
Settles == <>[](DOMAIN coll = plugged)
=============================================================================
