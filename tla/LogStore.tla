------------------------------ MODULE LogStore ------------------------------
(***************************************************************************)
(* The two log channels of one device on disk (internal/logstore): daily   *)
(* files, size rotation, Close, restarts, and the retention sweep.         *)
(*                                                                         *)
(* A DeviceWriter does all its work under its mutex, so that each call is  *)
(* one action; what OpenFile and the write return picks the action.  The   *)
(* unit of size is a line, and a write that fails leaves the file as it    *)
(* was.  Closed calls return ErrClosed and change nothing.                 *)
(***************************************************************************)
EXTENDS Integers, Sequences

CONSTANTS MaxDay,      \* bound: days
          MaxSuffix,   \* bound: rotation suffixes of a day
          MaxLines,    \* bound: lines written
          Rotate,      \* lines at which a file is full, 0: never (rotate_max_mb)
          Retention,   \* retention_days, 0: no sweep
          OpenMayFail  \* OpenFile may fail

ASSUME LogAssumption ==
    /\ MaxDay \in Nat \ {0}
    /\ MaxSuffix \in Nat
    /\ MaxLines \in Nat
    /\ Rotate \in Nat
    /\ Retention \in Nat
    /\ OpenMayFail \in BOOLEAN

VARIABLES today,  \* the clock
          files,  \* the log files of the device's directory
          len,    \* their sizes
          log,    \* every line that was written, in order: the file it went to
          w       \* the DeviceWriter

vars == <<today, files, len, log, w>>

Ch == {"serial", "events"}
Day == 1 .. MaxDay
Suffix == 0 .. MaxSuffix
File == Ch \X Day \X Suffix     \* FileName(kind, day, suffix)
Nil == -1                       \* a nil *os.File

\* w.fd[ch] is the number of the file that is open, w.suffix[ch] the counter.
Writer == [closed : BOOLEAN, day : 0 .. MaxDay, fd : [Ch -> Suffix \cup {Nil}],
           size : [Ch -> Nat], suffix : [Ch -> Suffix]]

NewWriter == [closed |-> FALSE, day |-> 0, fd |-> [ch \in Ch |-> Nil],
              size |-> [ch \in Ch |-> 0], suffix |-> [ch \in Ch |-> 0]]

Init ==
    /\ today = 1
    /\ files = {}
    /\ len = [f \in File |-> 0]
    /\ log = <<>>
    /\ w = NewWriter
-----------------------------------------------------------------------------
(* What WriteLine and WriteEvent do before they write: ensureDayLocked.    *)

\* The mistake of issue #58: a closed writer opens its files again.
Accepts_Bug == TRUE
Accepts == ~w.closed

\* The files are opened once and kept.
NeedsDay_Bug == w.fd["serial"] = Nil
NeedsDay == w.day # today \/ w.fd["serial"] = Nil

\* The mistake of issue #5: the counter starts from zero after a restart.
HighestSuffix_Bug(ch) == 0
\* The last of the suffixes 1, 2, ... that exist without a gap.
HighestSuffix(ch) ==
    CHOOSE n \in Suffix :
        /\ \A i \in 1 .. n : <<ch, today, i>> \in files
        /\ n < MaxSuffix => <<ch, today, n + 1>> \notin files

\* The sizes of the files that are there already are not looked up.
DayOpened_Bug == [closed |-> w.closed, day |-> today, fd |-> [ch \in Ch |-> 0],
                  size |-> [ch \in Ch |-> 0],
                  suffix |-> [ch \in Ch |-> HighestSuffix(ch)]]
\* Both base files of today are open.
DayOpened == [closed |-> w.closed, day |-> today, fd |-> [ch \in Ch |-> 0],
              size |-> [ch \in Ch |-> len[<<ch, today, 0>>]],
              suffix |-> [ch \in Ch |-> HighestSuffix(ch)]]

\* The writer and the files once ensureDayLocked has returned nil.
Ready == IF NeedsDay THEN DayOpened ELSE w
ReadyFiles == IF NeedsDay THEN files \cup {<<ch, today, 0>> : ch \in Ch} ELSE files

Full(wr, ch) == Rotate > 0 /\ wr.size[ch] >= Rotate

\* One more line in file f.
Add(f) == len' = [len EXCEPT ![f] = @ + 1] /\ log' = Append(log, f)
NoLine == UNCHANGED <<len, log>>

\* One of the two OpenFile calls fails; the first may have made its file.
OpenDayFails ==
    /\ OpenMayFail /\ Accepts /\ NeedsDay
    /\ w' = [w EXCEPT !.fd = [ch \in Ch |-> Nil]]
    /\ files' \in {files, files \cup {<<"serial", today, 0>>}}
    /\ NoLine /\ UNCHANGED today

\* WriteLine and WriteEvent, the open file being short enough.
Write(ch) ==
    /\ Accepts /\ ~Full(Ready, ch) /\ Ready.fd[ch] # Nil
    /\ Len(log) < MaxLines
    /\ files' = ReadyFiles
    /\ \/ /\ w' = [Ready EXCEPT !.size[ch] = @ + 1]
          /\ Add(<<ch, Ready.day, Ready.fd[ch]>>)
       \/ w' = Ready /\ NoLine
    /\ UNCHANGED today

\* ... the open file being full: the next suffix.
WriteRotated(ch) ==
    /\ Accepts /\ Full(Ready, ch) /\ Ready.suffix[ch] < MaxSuffix
    /\ Len(log) < MaxLines
    /\ LET n    == Ready.suffix[ch] + 1
           f    == <<ch, Ready.day, n>>
           next == [Ready EXCEPT !.suffix[ch] = n, !.fd[ch] = n, !.size[ch] = 0]
       IN  /\ files' = ReadyFiles \cup {f}
           /\ \/ w' = [next EXCEPT !.size[ch] = 1] /\ Add(f)
              \/ w' = next /\ NoLine
    /\ UNCHANGED today

\* ... and the file with the next suffix does not open: the counter stays.
RotateFails(ch) ==
    /\ OpenMayFail /\ Accepts /\ Full(Ready, ch) /\ Ready.suffix[ch] < MaxSuffix
    /\ w' = [Ready EXCEPT !.suffix[ch] = @ + 1, !.fd[ch] = Nil]
    /\ files' = ReadyFiles
    /\ NoLine /\ UNCHANGED today

Close ==
    /\ w' = [w EXCEPT !.closed = TRUE, !.fd = [ch \in Ch |-> Nil]]
    /\ UNCHANGED <<today, files, len, log>>

\* The process died, or the device is back: another DeviceWriter.
Restart ==
    /\ w' = NewWriter
    /\ UNCHANGED <<today, files, len, log>>
-----------------------------------------------------------------------------
(* The world outside the writer. *)

Midnight ==
    /\ today < MaxDay
    /\ today' = today + 1
    /\ UNCHANGED <<files, len, log, w>>

\* SweepRetention: files last written Retention days ago, some of which may
\* be in use or younger by the hour.
Sweep ==
    /\ Retention > 0
    /\ \E gone \in SUBSET {f \in files : f[2] <= today - Retention} :
          /\ gone # {}
          /\ files' = files \ gone
          /\ len' = [f \in File |-> IF f \in gone THEN 0 ELSE len[f]]
    /\ UNCHANGED <<today, log, w>>

Next ==
    \/ OpenDayFails
    \/ \E ch \in Ch : Write(ch) \/ WriteRotated(ch) \/ RotateFails(ch)
    \/ Close
    \/ Restart
    \/ Midnight
    \/ Sweep

Spec == Init /\ [][Next]_vars
-----------------------------------------------------------------------------
TypeOK ==
    /\ today \in Day
    /\ files \subseteq File
    /\ len \in [File -> Nat]
    /\ log \in Seq(File)
    /\ w \in Writer

\* File f is read before file g when a channel is read in order.
Before(f, g) == f[2] < g[2] \/ (f[2] = g[2] /\ f[3] <= g[3])

InOrder(ch) ==
    \A i, j \in 1 .. Len(log) :
        i < j /\ log[i][1] = ch /\ log[j][1] = ch => Before(log[i], log[j])

\* Read day by day and suffix by suffix, the serial log has its lines in the
\* order in which they were written, through restarts, midnights and files
\* that do not open (logstore.go:73, issue #5).
SerialInOrder == InOrder("serial")

\* The same for the events channel, which architecture.md:129-131 promises too.
EventsInOrder == InOrder("events")

\* No serial file outgrows the rotation limit, also when it was opened again
\* after a restart.
SerialBounded == Rotate > 0 => \A f \in files : f[1] = "serial" => len[f] <= Rotate

\* A writer that was closed holds no file, whatever calls arrive late (#58).
ClosedHoldsNoFile == w.closed => \A ch \in Ch : w.fd[ch] = Nil

\* An events file that did not open is tried again by the next event: the
\* channel is not left writing to a nil file until the day is over.
EventsRecover ==
    w.fd["serial"] # Nil /\ w.fd["events"] = Nil => Full(w, "events")

\* A line that was written is in a file that the retention sweep has not
\* removed under the open handle.
WritesToDisk == [][\A f \in File : len'[f] > len[f] => f \in files']_vars
=============================================================================
