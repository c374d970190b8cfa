------------------------------ MODULE LineFeed ------------------------------
(***************************************************************************)
(* The bytes of a collecting session on their way to the log               *)
(* (internal/collector/collector.go: the read loop of collectOnce,         *)
(* lineAssembler, flushTail, proxyTapDrop and matchSig).  What Read        *)
(* returns is cut into lines across reads; a tail without a newline is     *)
(* flushed when it grows too long and when the session ends.  How sessions *)
(* begin and end is in CollectorLoop, what becomes of a line in LogStore.  *)
(***************************************************************************)
EXTENDS Naturals, Sequences, SequencesExt

CONSTANTS MaxTail,  \* the longest tail kept
          MaxChunk, \* bound: the buffer Read fills
          MaxBytes  \* bound: bytes received

ASSUME FeedAssumption == MaxTail \in Nat /\ MaxChunk \in Nat /\ MaxBytes \in Nat

\* Two letters, carriage return and newline.
Byte  == {"a", "b", "cr", "nl"}
Chunk == UNION {[1 .. n -> Byte] : n \in 1 .. MaxChunk}

VARIABLES tail,   \* lineAssembler.tail
          lines,  \* what left the assembler: its kind, text, log and event
          got,    \* the bytes that were given to it
          tap     \* a client of the proxy has lines with a "b" kept off the log

feedVars == <<tail, lines, got, tap>>

FeedInit == tail = <<>> /\ lines = <<>> /\ got = <<>> /\ tap \in BOOLEAN

-----------------------------------------------------------------------------

Has(text, b) == b \in ToSet(text)
TrimCR(text) == IF text # <<>> /\ Last(text) = "cr" THEN Front(text) ELSE text

\* The events file is told of lines that match a signature, tapped or not.
Written(kind, text) ==
    [kind |-> kind, text |-> text,
     logged |-> ~ (kind # "partial" /\ tap /\ Has(text, "b")),
     event |-> kind # "partial" /\ Has(text, "a")]

\* The lines of a buffer, and what is left behind the last of them.
CutByte(acc, b) ==
    IF b = "nl" THEN [lines |-> Append(acc.lines, Written("line", TrimCR(acc.tail))),
                      tail |-> <<>>]
    ELSE [acc EXCEPT !.tail = Append(@, b)]
Cut(buf) == FoldLeft(CutByte, [lines |-> <<>>, tail |-> <<>>], buf)

\* lineAssembler.feed: what would be too long a tail leaves as it is.
feed_Bug(data) ==
    LET buf == tail \o data IN
    IF Len(buf) > MaxTail THEN [lines |-> <<Written("lump", buf)>>, tail |-> tail]
    ELSE Cut(buf)
feed(data) ==
    LET buf == tail \o data IN
    IF Len(buf) > MaxTail THEN [lines |-> <<Written("lump", buf)>>, tail |-> <<>>]
    ELSE Cut(buf)

\* A turn of the read loop that has read data.
Turn(data) ==
    /\ Len(got) + Len(data) <= MaxBytes
    /\ got' = got \o data
    /\ lines' = lines \o feed(data).lines
    /\ tail' = feed(data).tail
    /\ UNCHANGED tap

\* The session ends, and with it the last turn: bytes that were read in it are
\* used no more, only the tail is flushed.  The next session begins empty.
flushTail ==
    /\ tail # <<>>
    /\ lines' = Append(lines, Written("partial", tail))
    /\ tail' = <<>>
    /\ UNCHANGED <<got, tap>>

TapChanges == tap' = ~ tap /\ UNCHANGED <<tail, lines, got>>

FeedNext == (\E data \in Chunk : Turn(data)) \/ flushTail \/ TapChanges

FeedSpec == FeedInit /\ [][FeedNext]_feedVars

-----------------------------------------------------------------------------
(* Properties. *)

\* The bytes of a line of the log, but for the carriage returns it was stripped of.
WithoutCR(bytes, b) == bytes \o (IF b = "cr" THEN <<>> ELSE <<b>>)
Plain(bytes) == FoldLeft(WithoutCR, <<>>, bytes)

\* The bytes lines were made of.
AndBytes(bytes, l) == bytes \o (l.text \o (IF l.kind = "line" THEN <<"nl">> ELSE <<>>))
BytesOf(ls) == FoldLeft(AndBytes, <<>>, ls)

\* However the bytes are cut into reads and sessions, each of them is once and
\* in its place in what leaves the assembler or is still in the tail, and a
\* line is broken only where a session or too long a tail breaks it.
NothingLost ==
    /\ Plain(BytesOf(lines) \o tail) = Plain(got)
    /\ ~ Has(tail, "nl") /\ Len(tail) <= MaxTail
    /\ \A i \in DOMAIN lines : lines[i].kind # "lump" => ~ Has(lines[i].text, "nl")
=============================================================================
