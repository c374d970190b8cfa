----------------------------- MODULE FactStore -----------------------------
(***************************************************************************)
(* What is known of a board: facts taken from its log, from what its       *)
(* firmware says of itself (#DEV lines) and from a probe with esptool      *)
(* (internal/facts).  Every change is saved to info.json.  A collector     *)
(* that starts, with the daemon or when its board comes back, loads that   *)
(* file and feeds itself the end of the board's log again                  *)
(* (NewCollector: Open, SeedFromLog).  A line is fed before it is written  *)
(* to the log, and a tap keeps lines off it.  The log also gets lines that *)
(* were not fed: what a proxy client sends ("> ") and the half lines that  *)
(* closing a port leaves ("…partial"); being fed with the rest of the log  *)
(* later, they match like any other, but never as a #DEV line, whose rule  *)
(* is anchored.  A board command keeps the collector it began with, and    *)
(* feeds what it reads to that one.                                        *)
(*                                                                         *)
(* The regular expressions are left out: a line tells one fact.  So are    *)
(* saves that fail, which the code takes no notice of.                     *)
(***************************************************************************)
EXTENDS Naturals, Sequences, FiniteSets, SequencesExt, Functions

CONSTANTS Name,    \* names of facts
          Value,
          DevKeys, \* maxDevKeys (32)
          MaxTold  \* bound: lines and probes

ASSUME FactAssumption == DevKeys \in Nat /\ MaxTold \in Nat

originRank == [log |-> 1, probe |-> 2, dev |-> 3]
Told == {l \in [name : Name, value : Value, origin : {"log", "dev"}, fed : BOOLEAN] :
            l.origin = "dev" => l.fed}

VARIABLES facts,   \* Store.facts of the collector: value and origin per name
          info,    \* info.json
          history, \* the lines of the log
          line,    \* none, or the one that has been fed and not been written
          reader,  \* a board command: idle, reading, or apart: it began with a
                   \* collector that has been replaced since
          old,     \* the facts of that collector
          gap,     \* log or file have missed something (see FactsKept)
          told     \* lines and probes so far

factVars == <<facts, info, history, line, reader, old, gap, told>>

FactTypeOK ==
    /\ DOMAIN facts \subseteq Name /\ DOMAIN info \subseteq Name
    /\ history \in Seq(Told) /\ line \in {<<>>} \cup {<<l>> : l \in Told}
    /\ reader \in {"idle", "reading", "apart"} /\ DOMAIN old \subseteq Name
    /\ gap \in BOOLEAN
    /\ told \in 0 .. MaxTold

Nothing == [n \in {} |-> 0]

FactInit ==
    /\ facts = Nothing /\ info = Nothing /\ history = <<>>
    /\ line = <<>> /\ reader = "idle" /\ old = Nothing
    /\ gap = FALSE /\ told = 0

-----------------------------------------------------------------------------

\* A source does not overwrite what a better one has said.
set_Bug(known, n, v, origin) ==
    [m \in DOMAIN known \cup {n} |->
        IF m = n THEN [value |-> v, origin |-> origin] ELSE known[m]]
set(known, n, v, origin) ==
    IF n \in DOMAIN known /\ originRank[origin] < originRank[known[n].origin] THEN known
    ELSE [m \in DOMAIN known \cup {n} |->
             IF m = n THEN [value |-> v, origin |-> origin] ELSE known[m]]

\* The firmware does not add names without end.
Feed(known, l) ==
    IF l.origin = "dev" /\ l.name \notin DOMAIN known /\ Cardinality(DOMAIN known) >= DevKeys
    THEN known
    ELSE set(known, l.name, l.value, l.origin)

\* What a store says is saved when it changes.
save(was, is) == info' = IF is = was THEN info ELSE is

Collect(l) ==
    /\ l.fed /\ line = <<>> /\ told < MaxTold
    /\ facts' = Feed(facts, l) /\ save(facts, facts')
    /\ line' = <<l>> /\ told' = told + 1
    /\ UNCHANGED <<history, reader, old, gap>>

\* The line goes to the log, unless the tap keeps it off.
LogLine ==
    /\ line # <<>> /\ line' = <<>>
    /\ \/ history' = history \o line /\ UNCHANGED gap
       \/ gap' = TRUE /\ UNCHANGED history
    /\ UNCHANGED <<facts, info, reader, old, told>>

\* A line of a proxy client, or the rest of one that was cut off, goes to the
\* log alone.
LogOther(l) ==
    /\ ~ l.fed /\ told < MaxTold
    /\ history' = Append(history, l) /\ told' = told + 1
    /\ UNCHANGED <<facts, info, line, reader, old, gap>>

Board ==
    /\ reader' = IF reader = "idle" THEN "reading" ELSE "idle"
    /\ old' = Nothing
    /\ UNCHANGED <<facts, info, history, line, gap, told>>

\* A line of esptool, for the store of the collector the command began with.
FeedProbe(n, v) ==
    /\ reader # "idle" /\ told < MaxTold /\ told' = told + 1
    /\ IF reader = "reading"
       THEN /\ facts' = set(facts, n, v, "probe") /\ save(facts, facts')
            /\ UNCHANGED <<old, gap>>
       ELSE /\ old' = set(old, n, v, "probe") /\ save(old, old')
            /\ gap' = TRUE /\ UNCHANGED facts
    /\ UNCHANGED <<history, line, reader>>

\* The end of the log, as far back as its newest file and 256 KB go.
SeedFromLog(known, n) == FoldLeft(Feed, known, SubSeq(history, n, Len(history)))

\* A collector for a board that came back, or with the daemon.
Open(n) ==
    /\ facts' = SeedFromLog(info, n) /\ save(info, facts')
    /\ \/ reader = "reading" /\ reader' = "apart" /\ old' = facts
       \/ reader # "reading" /\ UNCHANGED <<reader, old>>
       \/ reader # "idle" /\ reader' = "idle" /\ old' = Nothing
    /\ line' = <<>> /\ gap' = (gap \/ line # <<>>)
    /\ UNCHANGED <<history, told>>

FactNext ==
    \/ \E l \in Told : Collect(l) \/ LogOther(l)
    \/ LogLine
    \/ Board
    \/ \E n \in Name, v \in Value : FeedProbe(n, v)
    \/ \E n \in 1 .. Len(history) + 1 : Open(n)

FactSpec == FactInit /\ [][FactNext]_factVars

-----------------------------------------------------------------------------
(* Properties. *)

\* The log ends, as to a fact it has told, with a line that was never fed.
EndsUnfed(n) ==
    /\ facts[n].origin = "log"
    /\ \E i \in DOMAIN history :
          /\ history[i].name = n /\ ~ history[i].fed
          /\ \A j \in DOMAIN history :
                j > i /\ history[j].name = n => history[j].origin # "log"

\* A collector that starts again still knows what the last one knew, however
\* much of the log is fed to it: a line that comes a second time neither
\* undoes what a better source has said since nor brings an older value back.
\* (Unless a line never got to the log, or a board command went on with the
\* collector before the last and saved what that one knew; and what the log
\* told may be overwritten by the line of a proxy client or a half line after
\* it, but by no other.)
FactsKept ==
    [][(\E n \in 1 .. Len(history) + 1 : Open(n)) /\ line = <<>> /\ ~ gap
       => \A n \in DOMAIN facts :
             /\ n \in DOMAIN facts'
             /\ \/ facts'[n] = facts[n]
                \/ originRank[facts[n].origin] < originRank[facts'[n].origin]
                \/ EndsUnfed(n)]_factVars
=============================================================================
